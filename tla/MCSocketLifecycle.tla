------------------------- MODULE MCSocketLifecycle -------------------------
EXTENDS SocketLifecycle

CONSTANTS f1, f2, t1, p1, p2

OneFile == {f1}
TwoFiles == {f1, f2}
TwoTasks == {p1, p2}
FileAndTap == {f1, t1}   \* t1: a tap device file, as vhost is given
Tap == {t1}
TwoFilesAndTap == {f1, f2, t1}
Second == {f2}
NoFiles == {}
=============================================================================
