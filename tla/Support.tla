------------------------------- MODULE Support -------------------------------
(***************************************************************************)
(* The parts of package paxi that all protocols stand on.  They do not     *)
(* share state: a behaviour is one of the part it is about, and the others *)
(* rest in an initial state.                                               *)
(***************************************************************************)
EXTENDS Checker, HybridClock, PeerGroups, Quorums, Database, Forwarding

VARIABLE subject

supportVars == <<subject, checkerVars, clockVars, groupVars, quorumVars, databaseVars, forwardVars>>

Subjects == {"checker", "clock", "groups", "quorums", "database", "forwarding"}

Instances(s, S) == IF subject = s THEN S ELSE {CHOOSE x \in S : TRUE}

SupportInit ==
  /\ subject \in Subjects
  /\ CheckerInit(IF subject = "checker" THEN Histories ELSE {<<>>})
  /\ ClockInit
  /\ GroupsInit(Instances("groups", Replicas))
  /\ QuorumsInit(Instances("quorums", Layouts))
  /\ DatabaseInit
  /\ ForwardInit

CheckerRuns ==
  /\ subject = "checker" /\ CheckerNext
  /\ UNCHANGED <<subject, clockVars, groupVars, quorumVars, databaseVars, forwardVars>>

ClockRuns ==
  /\ subject = "clock" /\ ClockNext
  /\ UNCHANGED <<subject, checkerVars, groupVars, quorumVars, databaseVars, forwardVars>>

GroupsRun ==
  /\ subject = "groups" /\ GroupsNext
  /\ UNCHANGED <<subject, checkerVars, clockVars, quorumVars, databaseVars, forwardVars>>

QuorumsRun ==
  /\ subject = "quorums" /\ QuorumsNext
  /\ UNCHANGED <<subject, checkerVars, clockVars, groupVars, databaseVars, forwardVars>>

DatabaseRuns ==
  /\ subject = "database" /\ DatabaseNext
  /\ UNCHANGED <<subject, checkerVars, clockVars, groupVars, quorumVars, forwardVars>>

ForwardingRuns ==
  /\ subject = "forwarding" /\ ForwardNext
  /\ UNCHANGED <<subject, checkerVars, clockVars, groupVars, quorumVars, databaseVars>>

SupportNext ==
  CheckerRuns \/ ClockRuns \/ GroupsRun \/ QuorumsRun \/ DatabaseRuns \/ ForwardingRuns

SupportSpec == SupportInit /\ [][SupportNext]_supportVars
=============================================================================
