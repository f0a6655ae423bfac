--------------------------- MODULE ReplicaHistory ---------------------------
(***************************************************************************)
(* EventReconciler with history variables that record, for every server  *)
(* change, the stamp it was made at.  They are written by the steps of    *)
(* EventReconciler and never read by them, so they change nothing of what *)
(* the stores do; they let the stores be mapped to MonotonicReplica.      *)
(*   hist[k]    : stamp -> value (or NoEntry) the server gave k then;      *)
(*   stamps[m]  : the stamp of each message in flight on conn[m];         *)
(*   applied[k] : the stamp of the message the stores last applied to k.  *)
(***************************************************************************)
EXTENDS EventReconciler

VARIABLES hist, stamps, applied

hvars == <<hist, stamps, applied>>
allvars == <<vars, hvars>>

NoEntry == [absent |-> TRUE]

EntryKeys ==
       {[col |-> "cr", id |-> i] : i \in CrIds}
  \cup {[col |-> "vr", id |-> i] : i \in VrIds}
  \cup {[col |-> "kd", id |-> i] : i \in KdUids}

LastStamp(k) == CHOOSE s \in DOMAIN hist[k] : \A t \in DOMAIN hist[k] : t <= s

Unapplied == [k \in EntryKeys |-> 0]

HInit ==
    /\ Init
    /\ hist = [k \in EntryKeys |-> (0 :> NoEntry)]
    /\ stamps = [m \in Mounts |-> <<>>]
    /\ applied = Unapplied

HMount == Mount /\ applied' = Unapplied /\ UNCHANGED <<hist, stamps>>

HUnmount == Unmount /\ applied' = Unapplied /\ UNCHANGED <<hist, stamps>>

(* A replayed update carries the stamp of its key's last change.          *)
HConnect(m) ==
    /\ Connect(m)
    /\ stamps' = [stamps EXCEPT ![m] = [i \in DOMAIN feed'[m] |-> LastStamp(MsgKey(feed'[m][i]))]]
    /\ UNCHANGED <<hist, applied>>

HRunCancel(m) ==
    /\ RunCancel(m)
    /\ stamps' = [stamps EXCEPT ![m] = <<>>]
    /\ UNCHANGED <<hist, applied>>

HDispatch(m) ==
    /\ Dispatch(m)
    /\ \E i \in Deliverable(m) :
         /\ feed'[m] = RemoveAt(feed[m], i)
         /\ stamps' = [stamps EXCEPT ![m] = RemoveAt(@, i)]
         /\ applied' = IF Current(m)
                         THEN [applied EXCEPT ![MsgKey(feed[m][i])] = stamps[m][i]]
                         ELSE applied
    /\ UNCHANGED hist

(* A server change gets stamp serverOps + 1, on every copy it broadcasts. *)
HServerChange(msg) ==
    /\ ServerChange(msg)
    /\ hist' = [hist EXCEPT ![MsgKey(msg)] =
                  (serverOps + 1 :> IF IsDelete(msg) THEN NoEntry ELSE MsgValue(msg)) @@ @]
    /\ stamps' = [m \in Mounts |-> IF conn[m] = "open"
                                     THEN Append(stamps[m], serverOps + 1)
                                     ELSE stamps[m]]
    /\ UNCHANGED applied

HNext ==
    \/ HMount
    \/ HUnmount
    \/ \E m \in Mounts : HConnect(m) \/ HRunCancel(m) \/ HDispatch(m)
    \/ \E msg \in UpsertMsgs \cup DeleteMsgs(server) : HServerChange(msg)

HSpec == HInit /\ [][HNext]_allvars

-----------------------------------------------------------------------------
(* What the stores show for entry k.                                      *)
Shown(k) == IF k.id \in DOMAIN Stores[k.col] THEN Stores[k.col][k.id] ELSE NoEntry

Replica == INSTANCE MonotonicReplica
    WITH Entries <- EntryKeys,
         EntryValues <- CrValues \cup VrValues \cup KdValues,
         Absent <- NoEntry,
         MaxStamp <- MaxServerOps,
         now <- serverOps,
         history <- hist,
         seen <- applied,
         replica <- [k \in EntryKeys |-> Shown(k)]

(* Refinement: at every step the three stores of App.tsx:48-50 show, for  *)
(* each entry, a value the server really gave it, and each message the    *)
(* handlers apply moves that entry forward in the server's history, never *)
(* back: the replay on subscribe and the in-order broadcasts after it     *)
(* never let an older update overwrite a newer one or revive a deleted    *)
(* entry, and an unmount or remount starts from empty Maps.               *)
ImplementsMonotonicReplica == Replica!ASpec
=============================================================================
