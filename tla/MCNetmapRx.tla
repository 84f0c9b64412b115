---------------------------- MODULE MCNetmapRx ------------------------------
(* Model-checking instance of NetmapRx: a 4-slot ring of 2-byte buffers;  *)
(* packets of one or two slots; destinations of one or two iovecs, some  *)
(* shorter than a packet, some with an empty iovec.                       *)
EXTENDS NetmapRx

MCShapes == {<<2>>, <<1, 2>>, <<2, 1>>}
MCIovs == {<<1>>, <<3>>, <<0, 2>>, <<1, 3>>}
MCBigIovs == {<<4>>, <<2, 2>>}
=============================================================================
