-------------------------- MODULE ApprovalAuthority --------------------------
(***************************************************************************)
(* ApprovalAuthorityRoot (hub_core/approval_authority_lifecycle.py): the   *)
(* host's index of approvals, in memory and without a lock.  The host      *)
(* issues, supersedes and revokes; tools verify from their own thread.     *)
(*                                                                         *)
(* The identifier of a receipt is the digest of its binding, and stands    *)
(* for it here: the plan, the time it is issued for and expires at, and    *)
(* the receipt it supersedes.                                              *)
(***************************************************************************)
EXTENDS Naturals, FiniteSets

CONSTANTS
  Plans,       \* digests of plans
  Hosts,       \* threads of the host
  Windows,     \* pairs of an issue and an expiry time
  MaxTime,     \* bound: the last reading of the clock
  MaxRecords,  \* bound: approvals issued
  None

VARIABLES
  records,  \* the index: the state of each receipt that was issued
  host,     \* host[h]: what a thread is in the middle of issuing
  clock

authority == <<records, host, clock>>

Issued == DOMAIN records
Fresh  == [current |-> TRUE, revoked |-> FALSE, superseded_by |-> None]

Init ==
  /\ records = <<>>
  /\ host = [h \in Hosts |-> [doing |-> "nothing", receipt |-> None]]
  /\ clock = 0

-----------------------------------------------------------------------------
Doing(h, what, r) == host' = [host EXCEPT ![h] = [doing |-> what, receipt |-> r]]

\* Mutant: a receipt that is known may be superseded, over and over.
SupersedableKnown(r) == r = None \/ r \in Issued

\* Only a current approval can be superseded, and not a revoked one.
Supersedable(r) ==
  r = None \/ (r \in Issued /\ records[r].current /\ ~records[r].revoked)

\* issue_approval: its checks,
IssueCheck(h, r) ==
  /\ host[h].doing = "nothing"
  /\ Cardinality(Issued) < MaxRecords
  /\ r.from < r.until
  /\ Supersedable(r.supersedes)
  /\ r \notin Issued
  /\ Doing(h, "insert", r)
  /\ UNCHANGED <<records, clock>>

\* the insertion of the record,
IssueInsert(h) ==
  /\ host[h].doing = "insert"
  /\ LET r == host[h].receipt IN
       /\ records' = [s \in Issued \cup {r} |-> IF s = r THEN Fresh ELSE records[s]]
       /\ Doing(h, IF r.supersedes = None THEN "nothing" ELSE "mark",
                IF r.supersedes = None THEN None ELSE r)
  /\ UNCHANGED clock

\* and the end of the one it supersedes.
IssueMark(h) ==
  /\ host[h].doing = "mark"
  /\ LET r == host[h].receipt IN
       records' = [records EXCEPT ![r.supersedes].current = FALSE,
                                  ![r.supersedes].superseded_by = r]
  /\ Doing(h, "nothing", None)
  /\ UNCHANGED clock

Revoke(h, r) ==
  /\ host[h].doing = "nothing" /\ ~records[r].revoked
  /\ records' = [records EXCEPT ![r].revoked = TRUE, ![r].current = FALSE]
  /\ UNCHANGED <<host, clock>>

Tick ==
  /\ clock < MaxTime
  /\ clock' = clock + 1
  /\ UNCHANGED <<records, host>>

Receipts ==
  [plan : Plans, from : {w[1] : w \in Windows}, until : {w[2] : w \in Windows},
   supersedes : Issued \cup {None}]

Next ==
  \/ \E h \in Hosts :
       \/ \E r \in Receipts : <<r.from, r.until>> \in Windows /\ IssueCheck(h, r)
       \/ IssueInsert(h) \/ IssueMark(h)
       \/ \E r \in Issued : Revoke(h, r)
  \/ Tick

Spec == Init /\ [][Next]_authority

-----------------------------------------------------------------------------
(* verify_approval_authority, the first part: the receipt is known, is for *)
(* this very plan, and its time has come and is not over.                  *)
Binds(r, plan) ==
  r \in Issued /\ r.plan = plan /\ r.from <= clock /\ clock < r.until

\* The second part: it is neither revoked nor superseded, and is current.
Stands(r) ==
  r \in Issued /\ ~records[r].revoked /\ records[r].superseded_by = None
    /\ records[r].current

-----------------------------------------------------------------------------
TypeOK ==
  /\ \A r \in Issued :
       /\ r.plan \in Plans /\ <<r.from, r.until>> \in Windows
       /\ r.supersedes \in Issued \cup {None}
       /\ records[r] \in [current : BOOLEAN, revoked : BOOLEAN,
                          superseded_by : Issued \cup {None}]
  /\ clock \in 0..MaxTime

\* Of the approvals that supersede one another the last alone can stand, once
\* the host has returned from issuing it: no two receipts supersede the same
\* one, and no receipt stands that another supersedes.
OneSuccessor ==
  \A r, s \in Issued :
    /\ r.supersedes # None /\ r.supersedes = s.supersedes => r = s
    /\ r.supersedes = s /\ (\A h \in Hosts : host[h].doing # "mark")
         => ~Stands(s)

=============================================================================
