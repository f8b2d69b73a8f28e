---------------------------- MODULE FFSectorStore ----------------------------
(***************************************************************************)
(* What the sector cache promises to the code above it: a store of sectors *)
(* with shared readers and exclusive writers.  `content' is what a reader  *)
(* is shown, `durable' what a power failure leaves.  The store makes       *)
(* contents durable when it likes, but never those of a sector somebody is *)
(* still using (except by its writer), and it changes contents by itself   *)
(* only where a device error left it in `doubt'.                           *)
(* src/ff_ioman.c implements this interface; FFBuffers refines it.         *)
(***************************************************************************)
CONSTANTS Clients, Sectors, Direct, Values, Zero, Modes, NoRequest

VARIABLES content, durable, user, doubt

vars == <<content, durable, user, doubt>>

Users(s) == {c \in Clients : user[c].at = "using" /\ user[c].sector = s}

Free(s) == Users(s) = {}

Idle == [at |-> "idle", sector |-> NoRequest.sector, mode |-> NoRequest.mode]

Init ==
  /\ content \in [Sectors -> Values]
  /\ durable = content
  /\ user = [c \in Clients |-> Idle]
  /\ doubt = {}

-----------------------------------------------------------------------------
\* Sectors outside `touched' keep their contents unless in doubt.
Kept(touched) ==
  /\ content' \in [Sectors -> Values]
  /\ \A s \in Sectors \ touched : content'[s] = content[s] \/ s \in doubt'

\* Contents of sectors in no use may have become durable.
Synced ==
  /\ durable' \in [Sectors -> Values]
  /\ \A s \in Sectors :
       durable'[s] = durable[s] \/ (Free(s) /\ durable'[s] = content[s])

\* A device error puts sectors in doubt that are in no use.
Doubted == doubt \subseteq doubt' /\ \A s \in doubt' \ doubt : s \in Sectors /\ Free(s)

Ask(c, s, m) ==
  /\ user[c].at = "idle"
  /\ user' = [user EXCEPT ![c] = [at |-> "asking", sector |-> s, mode |-> m]]
  /\ UNCHANGED <<content, durable, doubt>>

\* Granted to a reader beside readers, to a writer alone; a write-only user
\* may find the sector zeroed.
Grant(c) ==
  LET s == user[c].sector
      m == user[c].mode
  IN /\ user[c].at = "asking"
     /\ \A d \in Users(s) : m = "READ" /\ user[d].mode = "READ"
     /\ user' = [user EXCEPT ![c].at = "using"]
     /\ Kept(IF m = "WR_ONLY" THEN {s} ELSE {})
     /\ content'[s] \in {content[s], Zero} \/ s \in doubt'
     /\ Synced
     /\ UNCHANGED doubt

Refuse(c) ==
  /\ user[c].at = "asking"
  /\ user' = [user EXCEPT ![c] = Idle]
  /\ Kept({}) /\ Synced /\ Doubted

\* The writer changes the sector; a write-only user may make it durable.
Store(c) ==
  LET s == user[c].sector
  IN /\ user[c].at = "using" /\ user[c].mode # "READ"
     /\ \E v \in Values :
          /\ content' = [content EXCEPT ![s] = v]
          /\ \/ UNCHANGED durable
             \/ durable' = [durable EXCEPT ![s] = v] /\ user[c].mode = "WR_ONLY"
     /\ doubt' \in {doubt, doubt \cup {s}}
     /\ UNCHANGED user

\* What the user leaves behind may become durable with the release.
Return(c) ==
  LET s == user[c].sector
  IN /\ user[c].at = "using"
     /\ user' = [user EXCEPT ![c] = Idle]
     /\ durable' \in {durable, [durable EXCEPT ![s] = content[s]]}
     /\ UNCHANGED <<content, doubt>>

Sync == Kept({}) /\ Synced /\ Doubted /\ UNCHANGED user

\* A write past the cache is visible and durable at once.
Overwrite(s) ==
  /\ Free(s)
  /\ \E v \in Values : /\ content' = [content EXCEPT ![s] = v]
                       /\ durable' = [durable EXCEPT ![s] = v]
  /\ UNCHANGED <<user, doubt>>

PowerFail ==
  /\ content' = durable
  /\ user' = [c \in Clients |-> Idle]
  /\ UNCHANGED <<durable, doubt>>

Next ==
  \/ \E c \in Clients :
       \/ \E s \in Sectors, m \in Modes : Ask(c, s, m)
       \/ Grant(c) \/ Refuse(c) \/ Store(c) \/ Return(c)
  \/ Sync
  \/ \E s \in Direct : Overwrite(s)
  \/ PowerFail

Spec == Init /\ [][Next]_vars
=============================================================================
