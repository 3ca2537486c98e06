----------------------------- MODULE MCAnonQuota -----------------------------
(* Small instances of AnonQuota.  Accounts do not interact unless a device *)
(* is linked, so one device and one project show every order of the        *)
(* operations on a row; the runs about linking add the user's row.         *)
EXTENDS AnonQuota, TLC

CONSTANTS a1, a2, u1, u2, p1, p2, t1, t2, t3, t4, r1, r2

DeviceOnly == {a1}
TwoDevices == {a1, a2}
TwoUsers == {u1, u2}
None == {}
OneProject == {p1}
TwoProjects == {p1, p2}
TwoTurns == {t1, t2}
ThreeTurns == {t1, t2, t3}
FourTurns == {t1, t2, t3, t4}
OneRequest == {r1}
OneOrTwo == {1, 2}
JustTwo == {2}
AnyUser == {<<a1, u1>>, <<a1, u2>>}
EitherWay == {<<a1, u1>>, <<a1, u2>>, <<a2, u1>>}

\* Turns are interchangeable.
TurnSymmetry == Permutations(Turns)
=============================================================================
