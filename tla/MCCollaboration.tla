-------------------------- MODULE MCCollaboration --------------------------
(* Instances of AgyJobs and Collaboration for TLC.                           *)
EXTENDS Collaboration

CONSTANTS t1, t2, dir, file, other

TwoMembers == <<t1, t2>>
FileInDir == {<<file, dir>>}
=============================================================================
