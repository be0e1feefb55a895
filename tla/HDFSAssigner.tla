---------------------------- MODULE HDFSAssigner ----------------------------
(***************************************************************************)
(* The two assigners of the master that hand the pieces of an HDFS url to  *)
(* the threads that read it: HDFSBlockAssignerML hands out blocks (line    *)
(* formats), HDFSFileAssignerML whole files (binary format).  Both know,   *)
(* for every host, the pieces that have a replica there, and forget a      *)
(* piece on every host when they hand it out.  The master serves one       *)
(* request at a time (io/hdfs_assigner_ml.hpp,                             *)
(* io/hdfs_binary_assigner_ml.hpp).                                        *)
(*                                                                         *)
(* An assigner is kept for one task id and one url: known, the url is in   *)
(* its table; left, the pieces not handed out, by host; rejected and       *)
(* rejectedOn, how many requests found nothing, in all and by host.        *)
(***************************************************************************)
EXTENDS Naturals, FiniteSets

CONSTANTS Hosts, Blocks, Replicas   \* Replicas[b]: the hosts that hold block b

ASSUME ReplicasAssumption ==
  Replicas \in [Blocks -> (SUBSET Hosts) \ {{}}]

NoAssigner ==
  [known |-> FALSE, left |-> [h \in Hosts |-> {}],
   rejected |-> 0, rejectedOn |-> [h \in Hosts |-> 0]]

browse_hdfs(a) ==
  [known |-> TRUE, left |-> [h \in Hosts |-> {b \in Blocks : h \in Replicas[b]}],
   rejected |-> 0, rejectedOn |-> [h \in Hosts |-> 0]]

\* prepare lists the files like browse_hdfs lists the blocks; the count of all
\* rejections was set to zero just before.
prepare(a) == browse_hdfs(a)

\* The pieces a request from host may be given: its own, or, when it has none
\* and data is loaded globally, those of any host that has some.
BlockChoice(a, host, local) ==
  IF local \/ a.left[host] # {} THEN a.left[host] ELSE UNION {a.left[h] : h \in Hosts}

FileChoice(a, host, local) ==
  IF local \/ a.left[host] # {} THEN a.left[host] ELSE UNION {a.left[h] : h \in Hosts}

\* "need to remove all replicas in different host".
ForgetOnHost(a, b, host) == [a EXCEPT !.left[host] = @ \ {b}]

ForgetReplicas(a, b, host) == [a EXCEPT !.left = [h \in Hosts |-> @[h] \ {b}]]

PopReplicas(a, b, host) == [a EXCEPT !.left = [h \in Hosts |-> @[h] \ {b}]]

\* Nothing is left for this request.  Once num_workers_alive requests were
\* turned down the url is erased, and the next request lists it again.
RejectGlobally(a, num_workers_alive) ==
  [a EXCEPT !.rejected = @ + 1, !.known = a.rejected + 1 # num_workers_alive]

\* Erasing the host leaves the url in the table: it is not listed again.
RejectLocally(a, host) == [a EXCEPT !.rejectedOn[host] = @ + 1]

RejectFile(a, host, local) ==
  IF local THEN [a EXCEPT !.rejectedOn[host] = @ + 1] ELSE [a EXCEPT !.rejected = @ + 1]

\* An answer is the set of the piece handed out, empty when there is none.
BlockAnswers(a, host, local, n) ==
  LET a1 == IF a.known THEN a ELSE browse_hdfs(a)
      choice == BlockChoice(a1, host, local)
  IN IF choice = {}
     THEN {[piece |-> {}, asg |-> IF local THEN RejectLocally(a1, host)
                                           ELSE RejectGlobally(a1, n)]}
     ELSE {[piece |-> {b}, asg |-> ForgetReplicas(a1, b, host)] : b \in choice}

FileAnswers(a, host, local, n) ==
  LET a1 == IF a.known THEN a ELSE prepare(a)
      choice == FileChoice(a1, host, local)
  IN IF choice = {} THEN {[piece |-> {}, asg |-> RejectFile(a1, host, local)]}
     ELSE {[piece |-> {b}, asg |-> PopReplicas(a1, b, host)] : b \in choice}
=============================================================================
