------------------------------- MODULE GpuLease --------------------------------
(***************************************************************************)
(* What the reservation registry promises to the programs that use it:     *)
(* a GPU is leased to one attempt of one job at a time; only the attempt   *)
(* that holds the lease may start its program; a lease moves to another    *)
(* attempt of the same job, or is given up, only when the program of the   *)
(* attempt that holds it is not running and will not start.                *)
(*                                                                         *)
(* Nothing here tells directories from metadata, backends from hosts, or   *)
(* a live owner from a dead one: ManagedJobs implements it.                *)
(***************************************************************************)
CONSTANTS Key, Job, Attempt, Nobody

Holder == Job \X Attempt

VARIABLES
    lease,    \* the attempt each GPU is leased to
    active    \* attempts whose program runs or may still start

leases == <<lease, active>>

LeaseInit == lease = [k \in Key |-> Nobody] /\ active = {}

Grant(k, h) == /\ lease[k] = Nobody
               /\ lease' = [lease EXCEPT ![k] = h]
               /\ UNCHANGED active

\* The command that starts the holder's program leaves the backend.
Begin(k, h) == /\ lease[k] = h /\ h \notin active
               /\ active' = active \cup {h}
               /\ UNCHANGED lease

End(h) == /\ h \in active
          /\ active' = active \ {h}
          /\ UNCHANGED lease

\* A retry, or the rollback of one.
Transfer(k, h) == /\ lease[k] # Nobody /\ lease[k] \notin active
                  /\ lease[k][1] = h[1]
                  /\ lease' = [lease EXCEPT ![k] = h]
                  /\ UNCHANGED active

Release(k) == /\ lease[k] # Nobody /\ lease[k] \notin active
              /\ lease' = [lease EXCEPT ![k] = Nobody]
              /\ UNCHANGED active

LeaseNext ==
    \/ \E k \in Key, h \in Holder : Grant(k, h) \/ Begin(k, h) \/ Transfer(k, h)
    \/ \E k \in Key : Release(k)
    \/ \E h \in Holder : End(h)

LeaseSpec == LeaseInit /\ [][LeaseNext]_leases
=============================================================================
