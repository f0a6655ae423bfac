-------------------------- MODULE MonotonicReplica --------------------------
(***************************************************************************)
(* What LoggedInApp's stores promise about the server's collections, one  *)
(* entry at a time, at every instant and not only when the feed is quiet: *)
(* every entry the browser shows is a value the server really held for    *)
(* that key, and what it shows for a key only moves forward through the   *)
(* server's history, never back to a value it has already moved past.    *)
(* A remount starts again from nothing.                                   *)
(***************************************************************************)
EXTENDS Naturals, TLC

CONSTANTS
    Entries,      \* the entries the server may hold
    EntryValues,    \* the values an entry may have
    Absent,    \* "no entry for this key"
    MaxStamp   \* bound on the server's changes

VARIABLES
    now,       \* the server's changes so far (the last stamp given out)
    history,   \* history[k]: stamp -> the value (or Absent) k had from then on
    seen,      \* seen[k]: the stamp of the server value the replica shows for k
    replica    \* replica[k]: what the browser holds for k, or Absent

avars == <<now, history, seen, replica>>

AInit ==
    /\ now = 0
    /\ history = [k \in Entries |-> [s \in {0} |-> Absent]]
    /\ seen = [k \in Entries |-> 0]
    /\ replica = [k \in Entries |-> Absent]

(* The server changes (or re-sets) key k to v at the next stamp.          *)
Change(k, v) ==
    /\ now < MaxStamp
    /\ now' = now + 1
    /\ history' = [history EXCEPT ![k] = (now + 1 :> v) @@ @]
    /\ UNCHANGED <<seen, replica>>

(* The replica catches up on k to a later point of k's history.           *)
CatchUp(k) ==
    \E s \in DOMAIN history[k] :
        /\ s > seen[k]
        /\ seen' = [seen EXCEPT ![k] = s]
        /\ replica' = [replica EXCEPT ![k] = history[k][s]]
        /\ UNCHANGED <<now, history>>

(* A fresh replica: everything forgotten.                                 *)
Reset ==
    /\ seen' = [k \in Entries |-> 0]
    /\ replica' = [k \in Entries |-> Absent]
    /\ UNCHANGED <<now, history>>

ANext ==
    \/ \E k \in Entries : \E v \in EntryValues \cup {Absent} : Change(k, v)
    \/ \E k \in Entries : CatchUp(k)
    \/ Reset

ASpec == AInit /\ [][ANext]_avars
=============================================================================
