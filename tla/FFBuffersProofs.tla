--------------------------- MODULE FFBuffersProofs ---------------------------
(***************************************************************************)
(* Proofs about FFBuffers, for any number of clients, descriptors and      *)
(* sectors: type correctness, the uniqueness of cached sectors, the handle *)
(* count and the exclusion of writers, what the buffers and the disk       *)
(* contain, and that the cache implements FFSectorStore.                   *)
(***************************************************************************)
EXTENDS FFBuffers, FiniteSetTheorems, TLAPS

\* The semaphore stays taken between two steps only inside FF_FlushCache.
SemaphoreOwner == \A c \in Clients : pc[c] = "flush" <=> sem = c

\* A descriptor in write mode has at most one handle.
WriteModeIsSingle == \A b \in Buffers : buf[b].mode = "WRITE" => buf[b].handles <= 1

\* The inductive invariant.
StructInv ==
  /\ TypeOK
  /\ SemaphoreOwner
  /\ OneBufferPerSector
  /\ HandlesMatchHolders
  /\ HeldBufferIsTheOneAskedFor
  /\ WriteModeIsSingle

-----------------------------------------------------------------------------
(* Counting the holders of a descriptor.                                    *)

\* There are finitely many holders to count.
LEMMA HoldersAreFinite ==
  ASSUME NEW b PROVE IsFiniteSet(Holders(b)) /\ Cardinality(Holders(b)) \in Nat
<1>1. Holders(b) \subseteq Clients BY DEF Holders
<1>2. IsFiniteSet(Holders(b)) BY <1>1, CacheAssumption, FS_Subset DEF CacheAssumption
<1> QED BY <1>2, FS_CardinalityType

\* A descriptor with no handles is pointed to by nobody.
LEMMA UnheldHasNoHolder ==
  ASSUME HandlesMatchHolders, NEW b \in Buffers, buf[b].handles = 0
  PROVE  \A c \in Clients : held[c] # b
<1>1. Cardinality(Holders(b)) = 0 BY DEF HandlesMatchHolders
<1>2. Holders(b) = {} BY <1>1, HoldersAreFinite, FS_EmptySet
<1> QED BY <1>2 DEF Holders

\* A held descriptor has a handle.
LEMMA HeldHasHandle ==
  ASSUME HandlesMatchHolders, NEW c \in Clients, held[c] \in Buffers
  PROVE  buf[held[c]].handles # 0
<1>1. c \in Holders(held[c]) BY DEF Holders
<1>2. Cardinality(Holders(held[c])) # 0 BY <1>1, HoldersAreFinite, FS_EmptySet
<1> QED BY <1>2 DEF HandlesMatchHolders

\* Two clients that point to a descriptor account for two handles.
LEMMA TwoHoldersTwoHandles ==
  ASSUME HandlesMatchHolders, NEW c \in Clients, NEW d \in Clients, c # d,
         held[c] \in Buffers, held[d] = held[c]
  PROVE  buf[held[c]].handles > 1
<1> DEFINE b == held[c]
           T == Holders(b) \ {c}
<1>1. IsFiniteSet(Holders(b)) /\ c \in Holders(b) BY HoldersAreFinite DEF Holders
<1>2. IsFiniteSet(T) /\ Cardinality(T) = Cardinality(Holders(b)) - 1
  BY <1>1, FS_RemoveElement
<1>3. d \in T BY DEF Holders
<1>4. Cardinality(T) # 0 BY <1>2, <1>3, FS_EmptySet
<1>5. Cardinality(T) \in Nat /\ Cardinality(Holders(b)) \in Nat
  BY <1>1, <1>2, FS_CardinalityType
<1> QED BY <1>2, <1>4, <1>5 DEF HandlesMatchHolders

\* Handing out a pointer to b adds one holder of b.
LEMMA GrantCounts ==
  ASSUME TypeOK, NEW c \in Clients, held[c] = NoBuffer, NEW b \in Buffers,
         held' = [held EXCEPT ![c] = b], NEW a \in Buffers
  PROVE  Cardinality(Holders(a)') =
           IF a = b THEN Cardinality(Holders(a)) + 1 ELSE Cardinality(Holders(a))
<1>1. NoBuffer \notin Buffers BY CacheAssumption DEF CacheAssumption
<1>2. CASE a = b
  <2>1. Holders(a)' = Holders(a) \cup {c} BY <1>2 DEF Holders, TypeOK
  <2>2. c \notin Holders(a) BY <1>1, <1>2 DEF Holders
  <2> QED BY <1>2, <2>1, <2>2, HoldersAreFinite, FS_AddElement
<1>3. CASE a # b
  <2>1. Holders(a)' = Holders(a) BY <1>1, <1>3 DEF Holders, TypeOK
  <2> QED BY <1>3, <2>1
<1> QED BY <1>2, <1>3

\* Returning a pointer takes one holder away.
LEMMA ReturnCounts ==
  ASSUME TypeOK, NEW c \in Clients, held[c] \in Buffers,
         held' = [held EXCEPT ![c] = NoBuffer], NEW a \in Buffers
  PROVE  Cardinality(Holders(a)') =
           IF a = held[c] THEN Cardinality(Holders(a)) - 1 ELSE Cardinality(Holders(a))
<1>1. NoBuffer \notin Buffers BY CacheAssumption DEF CacheAssumption
<1>2. CASE a = held[c]
  <2>1. Holders(a)' = Holders(a) \ {c} BY <1>1, <1>2 DEF Holders, TypeOK
  <2>2. c \in Holders(a) BY <1>2 DEF Holders
  <2> QED BY <1>2, <2>1, <2>2, HoldersAreFinite, FS_RemoveElement
<1>3. CASE a # held[c]
  <2>1. Holders(a)' = Holders(a) BY <1>1, <1>3 DEF Holders, TypeOK
  <2> QED BY <1>3, <2>1
<1> QED BY <1>2, <1>3
-----------------------------------------------------------------------------
(* Type correctness of the shared parts of the actions.                     *)

\* The idle request has its type.
LEMMA NoRequestType == NoRequest \in [sector : Sectors, mode : Modes]
BY CacheAssumption DEF CacheAssumption, NoRequest, Modes

\* A client that is given a buffer keeps its types.
LEMMA GrantedType ==
  ASSUME TypeOK, NEW c \in Clients, NEW b \in Buffers, Granted(c, b)
  PROVE  /\ pc' \in [Clients -> {"idle", "get", "sleep", "blocked", "have", "cleared", "flush"}]
         /\ req' \in [Clients -> [sector : Sectors, mode : Modes]]
         /\ held' \in [Clients -> Buffers \cup {NoBuffer}]
         /\ tries' \in [Clients -> Nat]
         /\ sem' \in Clients \cup {Nobody} /\ next' \in 1 .. CacheSize + 1
         /\ bufBit' \in BOOLEAN
BY DEF TypeOK, Granted

\* So does one that is given NULL.
LEMMA ReturnNullType ==
  ASSUME TypeOK, NEW c \in Clients, ReturnNull(c)
  PROVE  /\ pc' \in [Clients -> {"idle", "get", "sleep", "blocked", "have", "cleared", "flush"}]
         /\ req' \in [Clients -> [sector : Sectors, mode : Modes]]
         /\ held' \in [Clients -> Buffers \cup {NoBuffer}]
         /\ tries' \in [Clients -> Nat]
         /\ sem' \in Clients \cup {Nobody} /\ next' \in 1 .. CacheSize + 1
         /\ bufBit' \in BOOLEAN
BY NoRequestType DEF TypeOK, ReturnNull

\* A device transfer leaves a device.
LEMMA WriteFailsType ==
  ASSUME TypeOK, NEW s \in Sectors, NEW v \in Values, WriteFails(s, v)
  PROVE  disk' \in [Sectors -> Values]
BY DEF TypeOK, WriteFails

\* Writing a victim back keeps the contents of the device well typed.
LEMMA WrittenBackType ==
  ASSUME TypeOK, NEW b \in Buffers
  PROVE  WrittenBack(b) \in [Sectors -> Values]
BY DEF TypeOK, WrittenBack, BufferType

-----------------------------------------------------------------------------
(* A step that changes no descriptor and no pointer preserves StructInv.    *)

\* A step that changes neither descriptors nor holders keeps StructInv.
LEMMA QuietStep ==
  ASSUME StructInv, TypeOK', SemaphoreOwner', buf' = buf, held' = held,
         \A c \in Clients : Using(c)' <=> Using(c),
         \A c \in Clients : Using(c) => req'[c] = req[c]
  PROVE  StructInv'
<1>1. OneBufferPerSector' BY DEF StructInv, OneBufferPerSector
<1>2. HandlesMatchHolders' BY DEF StructInv, HandlesMatchHolders, Holders
<1>3. HeldBufferIsTheOneAskedFor' BY DEF StructInv, HeldBufferIsTheOneAskedFor
<1>4. WriteModeIsSingle' BY DEF StructInv, WriteModeIsSingle
<1> QED BY <1>1, <1>2, <1>3, <1>4 DEF StructInv

\* A call of FF_GetBuffer changes the arguments only.
LEMMA GetBufferStep ==
  ASSUME StructInv, NEW c \in Clients, NEW s \in Cached, NEW m \in Modes, GetBuffer(c, s, m)
  PROVE  StructInv'
<1>1. TypeOK' BY CacheAssumption DEF StructInv, TypeOK, GetBuffer, CacheAssumption, Sectors
<1>2. SemaphoreOwner' BY DEF StructInv, TypeOK, SemaphoreOwner, GetBuffer
<1>3. \A d \in Clients : Using(d)' <=> Using(d) BY DEF StructInv, TypeOK, GetBuffer, Using
<1>4. \A d \in Clients : Using(d) => req'[d] = req[d] BY DEF StructInv, TypeOK, GetBuffer, Using
<1> QED BY <1>1, <1>2, <1>3, <1>4, QuietStep DEF GetBuffer

\* FF_BufferWait changes the place of the waiter only.
LEMMA WaitStepStep ==
  ASSUME StructInv, NEW c \in Clients, WaitStep(c)
  PROVE  StructInv'
<1>1. TypeOK' BY DEF StructInv, TypeOK, WaitStep, BufferWait, WaitTimeout
<1>2. SemaphoreOwner'
  BY DEF StructInv, TypeOK, SemaphoreOwner, WaitStep, BufferWait, WaitTimeout
<1>3. \A d \in Clients : Using(d)' <=> Using(d)
  BY DEF StructInv, TypeOK, WaitStep, BufferWait, WaitTimeout, Using
<1> QED BY <1>1, <1>2, <1>3, QuietStep DEF WaitStep, BufferWait, WaitTimeout

\* A round that has to wait uses up xLoopCount only.
LEMMA YieldStep ==
  ASSUME StructInv, NEW c \in Clients, Yield(c)
  PROVE  StructInv'
<1>1. TypeOK' BY DEF StructInv, TypeOK, Yield, Attempt
<1>2. SemaphoreOwner' BY DEF StructInv, TypeOK, SemaphoreOwner, Yield, Attempt
<1>3. \A d \in Clients : Using(d)' <=> Using(d)
  BY DEF StructInv, TypeOK, Yield, Attempt, Using
<1> QED BY <1>1, <1>2, <1>3, QuietStep DEF Yield

\* FF_GetBuffer returning NULL, with the descriptors as they were.
LEMMA NullStep ==
  ASSUME StructInv, NEW c \in Clients, pc[c] = "get", ReturnNull(c), buf' = buf,
         disk' \in [Sectors -> Values], suspect' \subseteq Sectors
  PROVE  StructInv'
<1>1. TypeOK' BY ReturnNullType DEF StructInv, TypeOK
<1>2. SemaphoreOwner' BY DEF StructInv, TypeOK, SemaphoreOwner, ReturnNull
<1>3. \A d \in Clients : Using(d)' <=> Using(d) BY DEF StructInv, TypeOK, ReturnNull, Using
<1>4. \A d \in Clients : Using(d) => req'[d] = req[d] BY DEF StructInv, TypeOK, ReturnNull, Using
<1> QED BY <1>1, <1>2, <1>3, <1>4, QuietStep DEF ReturnNull

\* FF_FlushCache takes the semaphore.
LEMMA FlushBeginStep ==
  ASSUME StructInv, NEW c \in Clients, FlushBegin(c)
  PROVE  StructInv'
<1>1. TypeOK' BY CacheAssumption DEF StructInv, TypeOK, FlushBegin, CacheAssumption
<1>2. SemaphoreOwner' BY CacheAssumption DEF StructInv, TypeOK, SemaphoreOwner, FlushBegin, CacheAssumption
<1>3. \A d \in Clients : Using(d)' <=> Using(d) BY DEF StructInv, TypeOK, FlushBegin, Using
<1> QED BY <1>1, <1>2, <1>3, QuietStep DEF FlushBegin

\* FF_FlushCache gives the semaphore back.
LEMMA FlushEndStep ==
  ASSUME StructInv, NEW c \in Clients, FlushEnd(c)
  PROVE  StructInv'
<1>1. TypeOK' BY CacheAssumption DEF StructInv, TypeOK, FlushEnd, CacheAssumption
<1>2. SemaphoreOwner' BY CacheAssumption DEF StructInv, TypeOK, SemaphoreOwner, FlushEnd, CacheAssumption
<1>3. \A d \in Clients : Using(d)' <=> Using(d)
  BY DEF StructInv, TypeOK, SemaphoreOwner, FlushEnd, Using
<1> QED BY <1>1, <1>2, <1>3, QuietStep DEF FlushEnd

\* A write past the cache changes the device only.
LEMMA DirectWriteStep ==
  ASSUME StructInv, NEW c \in Clients, NEW s \in Direct, NEW v \in Values, DirectWrite(c, s, v)
  PROVE  StructInv'
<1>1. disk' \in [Sectors -> Values]
  BY WriteFailsType DEF StructInv, TypeOK, DirectWrite, Sectors
<1>2. TypeOK' BY <1>1 DEF StructInv, TypeOK, DirectWrite, clientVars
<1>3. SemaphoreOwner' BY DEF StructInv, SemaphoreOwner, DirectWrite, clientVars
<1> QED BY <1>2, <1>3, QuietStep DEF DirectWrite, clientVars, Using
-----------------------------------------------------------------------------
(* FF_GetBuffer handing out descriptor b.                                   *)

\* Client c, which had no pointer, gets one to b; b describes what c asked
\* for, the other descriptors are untouched.
LEMMA GrantStep ==
  ASSUME StructInv, NEW c \in Clients, pc[c] = "get", NEW b \in Buffers,
         Granted(c, b), TypeOK',
         \A a \in Buffers \ {b} : buf'[a] = buf[a],
         buf'[b].valid, buf'[b].sector = req[c].sector,
         buf'[b].mode = RdWr(req[c].mode),
         buf'[b].handles = buf[b].handles + 1,
         buf'[b].mode = "WRITE" => buf[b].handles = 0,
         buf[b].handles # 0 => buf'[b].sector = buf[b].sector /\ buf'[b].mode = buf[b].mode,
         \A a \in Buffers \ {b} : buf[a].valid => buf[a].sector # req[c].sector
  PROVE  StructInv'
<1> USE DEF StructInv
<1>1. held[c] = NoBuffer BY DEF HandlesMatchHolders, Using
<1>2. SemaphoreOwner' BY DEF TypeOK, SemaphoreOwner, Granted
<1>3. OneBufferPerSector' BY DEF OneBufferPerSector
<1>4. HandlesMatchHolders'
  <2>1. \A a \in Buffers : buf'[a].handles = Cardinality(Holders(a)')
    <3> TAKE a \in Buffers
    <3>1. Cardinality(Holders(a)') =
            IF a = b THEN Cardinality(Holders(a)) + 1 ELSE Cardinality(Holders(a))
      BY <1>1, GrantCounts DEF Granted
    <3> QED BY <3>1 DEF HandlesMatchHolders
  <2>2. \A d \in Clients : Using(d)' <=> held'[d] # NoBuffer
    BY CacheAssumption DEF CacheAssumption, TypeOK, HandlesMatchHolders, Using, Granted
  <2> QED BY <2>1, <2>2 DEF HandlesMatchHolders
<1>5. HeldBufferIsTheOneAskedFor'
  <2> SUFFICES ASSUME NEW d \in Clients, Using(d)'
               PROVE  /\ buf'[held'[d]].valid
                      /\ buf'[held'[d]].sector = req'[d].sector
                      /\ buf'[held'[d]].mode = RdWr(req'[d].mode)
    BY DEF HeldBufferIsTheOneAskedFor
  <2>1. CASE d = c BY <2>1 DEF TypeOK, Granted
  <2>2. CASE d # c
    <3>1. Using(d) /\ held'[d] = held[d] /\ req'[d] = req[d] /\ held[d] \in Buffers
      BY <2>2 DEF TypeOK, Granted, Using, HandlesMatchHolders
    <3>2. CASE held[d] = b
      <4>1. buf[b].handles # 0 BY <3>1, <3>2, HeldHasHandle
      <4> QED BY <3>1, <3>2, <4>1 DEF HeldBufferIsTheOneAskedFor, TypeOK, BufferType
    <3>3. CASE held[d] # b BY <3>1, <3>3 DEF HeldBufferIsTheOneAskedFor
    <3> QED BY <3>2, <3>3
  <2> QED BY <2>1, <2>2
<1>6. WriteModeIsSingle' BY DEF WriteModeIsSingle, TypeOK, BufferType
<1> QED BY <1>2, <1>3, <1>4, <1>5, <1>6

\* The first match is the only one.
LEMMA MatchIsUnique ==
  ASSUME OneBufferPerSector, NEW s, NEW b \in Buffers, FirstMatch(b, s)
  PROVE  /\ buf[b].valid /\ buf[b].sector = s
         /\ \A a \in Buffers \ {b} : buf[a].valid => buf[a].sector # s
BY DEF OneBufferPerSector, FirstMatch, Match

\* Sharing a descriptor in read mode adds one handle.
LEMMA HitSharedStep ==
  ASSUME StructInv, NEW c \in Clients, HitShared(c)
  PROVE  StructInv'
<1>1. PICK b \in Buffers :
        /\ FirstMatch(b, req[c].sector)
        /\ SharedRead(c, b)
        /\ buf' = [buf EXCEPT ![b].handles = @ + 1]
        /\ Granted(c, b)
  BY DEF HitShared
<1>2. pc[c] = "get" /\ UNCHANGED <<disk, suspect>> BY DEF HitShared, Attempt
<1>3. buf' \in [Buffers -> BufferType] BY <1>1 DEF StructInv, TypeOK, BufferType
<1>4. TypeOK' BY <1>1, <1>2, <1>3, GrantedType DEF StructInv, TypeOK
<1>5. buf'[b] = [buf[b] EXCEPT !.handles = @ + 1] BY <1>1 DEF StructInv, TypeOK
<1>6. \A a \in Buffers \ {b} : buf'[a] = buf[a] BY <1>1 DEF StructInv, TypeOK
<1>7. buf[b].valid /\ buf[b].sector = req[c].sector
      /\ \A a \in Buffers \ {b} : buf[a].valid => buf[a].sector # req[c].sector
  BY <1>1, MatchIsUnique DEF StructInv
<1>8. buf[b] \in BufferType BY DEF StructInv, TypeOK
<1>9. /\ buf'[b].valid = buf[b].valid /\ buf'[b].sector = buf[b].sector
      /\ buf'[b].mode = buf[b].mode /\ buf'[b].handles = buf[b].handles + 1
  BY <1>5, <1>8 DEF BufferType
<1>10. buf[b].mode = "READ" /\ RdWr(req[c].mode) = "READ" BY <1>1 DEF SharedRead, RdWr
<1> QED BY <1>1, <1>2, <1>4, <1>6, <1>7, <1>9, <1>10, GrantStep

\* Taking a free descriptor of the sector makes one handle.
LEMMA HitFreeStep ==
  ASSUME StructInv, NEW c \in Clients, HitFree(c)
  PROVE  StructInv'
<1>1. PICK b \in Buffers :
        /\ FirstMatch(b, req[c].sector)
        /\ buf[b].handles = 0
        /\ buf' = [buf EXCEPT ![b].mode = RdWr(req[c].mode),
                              ![b].modified = @ \/ req[c].mode # "READ",
                              ![b].handles = 1]
        /\ Granted(c, b)
  BY DEF HitFree
<1>2. pc[c] = "get" /\ UNCHANGED <<disk, suspect>> BY DEF HitFree, Attempt
<1>3. buf' \in [Buffers -> BufferType] BY <1>1 DEF StructInv, TypeOK, BufferType, RdWr
<1>4. TypeOK' BY <1>1, <1>2, <1>3, GrantedType DEF StructInv, TypeOK
<1>5. \A a \in Buffers \ {b} : buf'[a] = buf[a] BY <1>1 DEF StructInv, TypeOK
<1>6. buf[b].valid /\ buf[b].sector = req[c].sector
      /\ \A a \in Buffers \ {b} : buf[a].valid => buf[a].sector # req[c].sector
  BY <1>1, MatchIsUnique DEF StructInv
<1>7. buf[b] \in BufferType BY DEF StructInv, TypeOK
<1>8. /\ buf'[b].valid = buf[b].valid /\ buf'[b].sector = buf[b].sector
      /\ buf'[b].mode = RdWr(req[c].mode) /\ buf'[b].handles = 1
  BY <1>1, <1>7 DEF BufferType, StructInv, TypeOK
<1>9. buf[b].handles = 0 /\ buf'[b].handles = buf[b].handles + 1 /\ Granted(c, b)
  BY <1>1, <1>8
<1>10. buf'[b].valid /\ buf'[b].sector = req[c].sector BY <1>6, <1>8
<1> QED BY <1>2, <1>4, <1>5, <1>6, <1>8, <1>9, <1>10, GrantStep

\* A free descriptor takes a sector no other one has.
LEMMA InstallStep ==
  ASSUME StructInv, NEW c \in Clients, NEW b \in Buffers, Install(c, b)
  PROVE  StructInv'
<1>1. pc[c] = "get" /\ Granted(c, b) /\ suspect' = suspect /\ buf[b].handles = 0
  BY DEF Install, Miss, Attempt
<1>2. disk' \in [Sectors -> Values] BY WrittenBackType DEF StructInv, Install
<1>3. buf' = [buf EXCEPT ![b] =
        [sector |-> req[c].sector, mode |-> RdWr(req[c].mode),
         modified |-> req[c].mode # "READ", valid |-> TRUE, handles |-> 1,
         data |-> IF req[c].mode = "WR_ONLY" THEN Zero ELSE disk'[req[c].sector]]]
  BY DEF Install
<1>4. req[c] \in [sector : Sectors, mode : Modes] BY DEF StructInv, TypeOK
<1>5. buf' \in [Buffers -> BufferType]
  BY <1>2, <1>3, <1>4, CacheAssumption DEF StructInv, TypeOK, BufferType, RdWr, CacheAssumption
<1>6. TypeOK' BY <1>1, <1>2, <1>5, GrantedType DEF StructInv, TypeOK
<1>7. \A a \in Buffers \ {b} : buf'[a] = buf[a] BY <1>3 DEF StructInv, TypeOK
<1>8. /\ buf'[b].valid /\ buf'[b].sector = req[c].sector
      /\ buf'[b].mode = RdWr(req[c].mode) /\ buf'[b].handles = 1
  BY <1>3 DEF StructInv, TypeOK
<1>9. \A a \in Buffers : buf[a].valid => buf[a].sector # req[c].sector
  BY DEF Install, Miss, Match
<1> QED BY <1>1, <1>6, <1>7, <1>8, <1>9, GrantStep

\* A victim whose new contents could not be read: only its memory changes.
LEMMA DataStep ==
  ASSUME StructInv, NEW b \in Buffers, NEW v \in Values,
         buf' = [buf EXCEPT ![b].data = v], held' = held,
         TypeOK', SemaphoreOwner',
         \A c \in Clients : Using(c)' <=> Using(c),
         \A c \in Clients : Using(c) => req'[c] = req[c]
  PROVE  StructInv'
<1>1. \A a \in Buffers : /\ buf'[a].valid = buf[a].valid /\ buf'[a].sector = buf[a].sector
                         /\ buf'[a].mode = buf[a].mode /\ buf'[a].handles = buf[a].handles
  BY DEF StructInv, TypeOK, BufferType
<1>2. OneBufferPerSector' BY <1>1 DEF StructInv, OneBufferPerSector
<1>3. HandlesMatchHolders' BY <1>1 DEF StructInv, HandlesMatchHolders, Holders
<1>4. HeldBufferIsTheOneAskedFor'
  BY <1>1 DEF StructInv, TypeOK, HandlesMatchHolders, HeldBufferIsTheOneAskedFor
<1>5. WriteModeIsSingle' BY <1>1 DEF StructInv, WriteModeIsSingle
<1> QED BY <1>2, <1>3, <1>4, <1>5 DEF StructInv

\* A failed read changes the memory of a free descriptor only.
LEMMA FetchFailsStep ==
  ASSUME StructInv, NEW c \in Clients, NEW b \in Buffers, FetchFails(c, b)
  PROVE  StructInv'
<1>1. pc[c] = "get" /\ ReturnNull(c) BY DEF FetchFails, Miss, Attempt
<1>2. disk' \in [Sectors -> Values] BY WrittenBackType DEF StructInv, FetchFails
<1>3. CASE UNCHANGED <<buf, suspect>>
  BY <1>1, <1>2, <1>3, NullStep DEF StructInv, TypeOK
<1>4. ASSUME NEW v \in Values, buf' = [buf EXCEPT ![b].data = v],
             suspect' \in {suspect, suspect \cup {buf[b].sector}}
      PROVE StructInv'
  <2>1. buf' \in [Buffers -> BufferType] BY <1>4 DEF StructInv, TypeOK, BufferType
  <2>2. suspect' \subseteq Sectors BY <1>4 DEF StructInv, TypeOK, BufferType
  <2>3. TypeOK' BY <1>1, <1>2, <2>1, <2>2, ReturnNullType DEF StructInv, TypeOK
  <2>4. SemaphoreOwner' BY <1>1 DEF StructInv, TypeOK, SemaphoreOwner, ReturnNull
  <2>5. \A d \in Clients : Using(d)' <=> Using(d)
    BY <1>1 DEF StructInv, TypeOK, ReturnNull, Using
  <2>6. \A d \in Clients : Using(d) => req'[d] = req[d]
    BY <1>1 DEF StructInv, TypeOK, ReturnNull, Using
  <2> QED BY <1>1, <1>4, <2>3, <2>4, <2>5, <2>6, DataStep DEF ReturnNull
<1>5. ReadFails(req[c].sector, b) BY DEF FetchFails
<1> QED BY <1>3, <1>4, <1>5 DEF ReadFails

\* Every round of the loop of FF_GetBuffer.
LEMMA GetStepStep ==
  ASSUME StructInv, NEW c \in Clients, GetStep(c)
  PROVE  StructInv'
<1>1. CASE HitShared(c) BY <1>1, HitSharedStep
<1>2. CASE HitFree(c) BY <1>2, HitFreeStep
<1>3. CASE Yield(c) BY <1>3, YieldStep
<1>4. CASE GiveUp(c) BY <1>4, NullStep DEF GiveUp, StructInv, TypeOK
<1>5. ASSUME NEW b \in Buffers, EvictFails(c, b) PROVE StructInv'
  <2>1. buf[b].sector \in Sectors /\ buf[b].data \in Values
    BY DEF StructInv, TypeOK, BufferType
  <2>2. disk' \in [Sectors -> Values]
    BY <1>5, <2>1, WriteFailsType DEF EvictFails, StructInv
  <2> QED BY <1>5, <2>2, NullStep DEF EvictFails, Miss, Attempt, StructInv, TypeOK
<1>6. ASSUME NEW b \in Buffers, FetchFails(c, b) PROVE StructInv' BY <1>6, FetchFailsStep
<1>7. ASSUME NEW b \in Buffers, Install(c, b) PROVE StructInv' BY <1>7, InstallStep
<1> QED BY <1>1, <1>2, <1>3, <1>4, <1>5, <1>6, <1>7 DEF GetStep
-----------------------------------------------------------------------------
(* What holders and the flusher do.                                         *)

\* A holder writes into the memory of its buffer.
LEMMA ModifyStep ==
  ASSUME StructInv, NEW c \in Clients, NEW v \in Values, Modify(c, v)
  PROVE  StructInv'
<1>1. Using(c) BY DEF Modify, Using
<1>2. held[c] \in Buffers BY <1>1 DEF StructInv, TypeOK, HandlesMatchHolders
<1>3. buf' = [buf EXCEPT ![held[c]].data = v] BY DEF Modify
<1>4. buf' \in [Buffers -> BufferType] BY <1>2, <1>3 DEF StructInv, TypeOK, BufferType
<1>5. TypeOK' BY <1>4 DEF StructInv, TypeOK, Modify, clientVars
<1>6. SemaphoreOwner' BY DEF StructInv, SemaphoreOwner, Modify, clientVars
<1> QED BY <1>2, <1>3, <1>5, <1>6, DataStep DEF Modify, clientVars, Using

\* A step that changes only contents and bModified of the descriptors.
LEMMA ContentsStep ==
  ASSUME StructInv, held' = held, TypeOK', SemaphoreOwner',
         \A a \in Buffers :
           /\ buf'[a].valid = buf[a].valid /\ buf'[a].sector = buf[a].sector
           /\ buf'[a].mode = buf[a].mode /\ buf'[a].handles = buf[a].handles,
         \A c \in Clients : Using(c)' <=> Using(c),
         req' = req
  PROVE  StructInv'
<1>1. OneBufferPerSector' BY DEF StructInv, OneBufferPerSector
<1>2. HandlesMatchHolders' BY DEF StructInv, HandlesMatchHolders, Holders
<1>3. HeldBufferIsTheOneAskedFor'
  BY DEF StructInv, TypeOK, HandlesMatchHolders, HeldBufferIsTheOneAskedFor
<1>4. WriteModeIsSingle' BY DEF StructInv, WriteModeIsSingle
<1> QED BY <1>1, <1>2, <1>3, <1>4 DEF StructInv

\* FF_ClearCluster marks its buffer clean but keeps it.
LEMMA ClearSectorStep ==
  ASSUME StructInv, NEW c \in Clients, ClearSector(c)
  PROVE  StructInv'
<1>1. pc[c] = "have" /\ Using(c) BY DEF ClearSector, Using
<1>2. held[c] \in Buffers BY <1>1 DEF StructInv, TypeOK, HandlesMatchHolders
<1>3. buf' = [buf EXCEPT ![held[c]].data = Zero, ![held[c]].modified = FALSE]
  BY DEF ClearSector
<1>4. Zero \in Values /\ req[c].sector \in Sectors
  BY CacheAssumption DEF CacheAssumption, StructInv, TypeOK
<1>5. buf' \in [Buffers -> BufferType]
  <2> DEFINE h == held[c]
  <2>1. buf \in [Buffers -> BufferType] /\ buf[h] \in BufferType
    BY <1>2 DEF StructInv, TypeOK
  <2>2. [buf[h] EXCEPT !.data = Zero, !.modified = FALSE] \in BufferType
    BY <1>4, <2>1 DEF BufferType
  <2>3. buf' = [buf EXCEPT ![h] = [buf[h] EXCEPT !.data = Zero, !.modified = FALSE]]
    BY <1>2, <1>3, <2>1 DEF BufferType
  <2> QED BY <1>2, <2>1, <2>2, <2>3
<1>6. disk' \in [Sectors -> Values]
  BY <1>4, WriteFailsType DEF StructInv, TypeOK, ClearSector
<1>7. suspect' \subseteq Sectors BY <1>4 DEF StructInv, TypeOK, ClearSector
<1>8. TypeOK' BY <1>5, <1>6, <1>7 DEF StructInv, TypeOK, ClearSector
<1>9. SemaphoreOwner' BY <1>1 DEF StructInv, TypeOK, SemaphoreOwner, ClearSector
<1>10. \A a \in Buffers :
         /\ buf'[a].valid = buf[a].valid /\ buf'[a].sector = buf[a].sector
         /\ buf'[a].mode = buf[a].mode /\ buf'[a].handles = buf[a].handles
  BY <1>2, <1>3 DEF StructInv, TypeOK, BufferType
<1>11. \A d \in Clients : Using(d)' <=> Using(d)
  BY <1>1 DEF StructInv, TypeOK, ClearSector, Using
<1> QED BY <1>8, <1>9, <1>10, <1>11, ContentsStep DEF ClearSector

\* FF_ReleaseBuffer takes one handle away.
LEMMA ReleaseBufferStep ==
  ASSUME StructInv, NEW c \in Clients, ReleaseBuffer(c)
  PROVE  StructInv'
<1> DEFINE b == held[c]
<1>1. Using(c) /\ held' = [held EXCEPT ![c] = NoBuffer]
      /\ req' = [req EXCEPT ![c] = NoRequest] /\ Proceed(c)
      /\ UNCHANGED <<tries, sem, next, suspect>>
  BY DEF ReleaseBuffer
<1>2. b \in Buffers BY <1>1 DEF StructInv, TypeOK, HandlesMatchHolders
<1>3. buf[b] \in BufferType /\ buf[b].handles # 0
  BY <1>2, HeldHasHandle DEF StructInv, TypeOK
<1>4. PICK m \in BOOLEAN :
        buf' = [buf EXCEPT ![b].handles = @ - 1, ![b].modified = m]
  <2>1. CASE buf' = [buf EXCEPT ![b].handles = @ - 1]
    <3>1. buf' = [buf EXCEPT ![b].handles = @ - 1, ![b].modified = buf[b].modified]
      BY <1>2, <2>1 DEF StructInv, TypeOK, BufferType
    <3> QED BY <1>3, <3>1 DEF BufferType
  <2>2. CASE buf' = [buf EXCEPT ![b].handles = @ - 1, ![b].modified = FALSE]
    BY <2>2
  <2> QED BY <2>1, <2>2 DEF ReleaseBuffer
<1>5. buf' \in [Buffers -> BufferType]
  <2>1. buf \in [Buffers -> BufferType] BY DEF StructInv, TypeOK
  <2>2. [buf[b] EXCEPT !.handles = @ - 1, !.modified = m] \in BufferType
    <3> DEFINE n == buf[b].handles - 1
    <3>1. n \in Nat BY <1>3 DEF BufferType
    <3>2. \A r \in BufferType, k \in Nat :
            [r EXCEPT !.handles = k, !.modified = m] \in BufferType
      <4>1. m \in BOOLEAN BY <1>4
      <4> QED BY <4>1 DEF BufferType
    <3> QED BY <1>3, <3>1, <3>2
  <2>3. buf' = [buf EXCEPT ![b] = [buf[b] EXCEPT !.handles = @ - 1, !.modified = m]]
    BY <1>2, <1>3, <1>4, <2>1 DEF BufferType
  <2> QED BY <1>2, <2>1, <2>2, <2>3
<1>6. disk' \in [Sectors -> Values]
  BY <1>3, WriteFailsType DEF StructInv, TypeOK, BufferType, ReleaseBuffer
<1>7. pc' \in [Clients -> {"idle", "get", "sleep", "blocked", "have", "cleared", "flush"}]
  BY <1>1 DEF StructInv, TypeOK, Proceed, Blocked
<1>8. TypeOK' BY <1>1, <1>5, <1>6, <1>7, NoRequestType DEF StructInv, TypeOK, Proceed
<1>9. \A d \in Clients \ {c} : /\ held'[d] = held[d] /\ req'[d] = req[d]
                               /\ Using(d)' <=> Using(d)
  BY <1>1 DEF StructInv, TypeOK, Proceed, Blocked, Using
<1>10. held'[c] = NoBuffer /\ ~Using(c)' BY <1>1 DEF StructInv, TypeOK, Proceed, Using
<1>11. SemaphoreOwner'
  BY <1>1 DEF StructInv, TypeOK, SemaphoreOwner, Proceed, Blocked, Using
<1>12. \A a \in Buffers :
         /\ buf'[a].valid = buf[a].valid /\ buf'[a].sector = buf[a].sector
         /\ buf'[a].mode = buf[a].mode
         /\ buf'[a].handles = IF a = b THEN buf[a].handles - 1 ELSE buf[a].handles
  BY <1>2, <1>4 DEF StructInv, TypeOK, BufferType
<1>13. OneBufferPerSector' BY <1>12 DEF StructInv, OneBufferPerSector
<1>14. HandlesMatchHolders'
  <2>1. \A a \in Buffers : buf'[a].handles = Cardinality(Holders(a)')
    <3> TAKE a \in Buffers
    <3>1. Cardinality(Holders(a)') =
            IF a = b THEN Cardinality(Holders(a)) - 1 ELSE Cardinality(Holders(a))
      BY <1>1, <1>2, ReturnCounts DEF StructInv
    <3> QED BY <1>12, <3>1 DEF StructInv, HandlesMatchHolders
  <2>2. \A d \in Clients : Using(d)' <=> held'[d] # NoBuffer
    BY <1>9, <1>10 DEF StructInv, HandlesMatchHolders
  <2> QED BY <2>1, <2>2 DEF HandlesMatchHolders
<1>15. HeldBufferIsTheOneAskedFor'
  BY <1>9, <1>10, <1>12
  DEF StructInv, TypeOK, HandlesMatchHolders, HeldBufferIsTheOneAskedFor
<1>16. WriteModeIsSingle'
  BY <1>3, <1>12 DEF StructInv, WriteModeIsSingle, BufferType, TypeOK
<1> QED BY <1>8, <1>11, <1>13, <1>14, <1>15, <1>16 DEF StructInv

\* The flush touches sector numbers and handles of no descriptor, and the mode
\* of free ones only.
LEMMA FlushBufferStep ==
  ASSUME StructInv, NEW c \in Clients, FlushBuffer(c)
  PROVE  StructInv'
<1>1. next \in Buffers /\ next' = next + 1 /\ UNCHANGED <<clientVars, sem, bufBit>>
  BY CacheAssumption DEF CacheAssumption, StructInv, TypeOK, FlushBuffer, Buffers
<1>2. next' \in 1 .. CacheSize + 1
  BY <1>1, CacheAssumption DEF CacheAssumption, Buffers
<1>3. SemaphoreOwner' BY <1>1 DEF StructInv, SemaphoreOwner, clientVars
<1>4. \A d \in Clients : Using(d)' <=> Using(d) BY <1>1 DEF clientVars, Using
<1>5. CASE UNCHANGED <<buf, disk, suspect>>
  <2>1. TypeOK' BY <1>1, <1>2, <1>5 DEF StructInv, TypeOK, clientVars
  <2> QED BY <1>1, <1>3, <1>4, <1>5, <2>1, QuietStep DEF clientVars
<1>6. CASE buf[next].handles = 0 /\ buf[next].modified
  <2>1. buf' = Flushed(next) BY <1>6 DEF FlushBuffer
  <2>2. buf[next] \in BufferType BY <1>1 DEF StructInv, TypeOK
  <2>20. ASSUME NEW a \in Buffers
         PROVE  /\ buf'[a] \in BufferType
                /\ buf'[a].valid = buf[a].valid /\ buf'[a].sector = buf[a].sector
                /\ buf'[a].handles = buf[a].handles
                /\ a # next => buf'[a].mode = buf[a].mode
                /\ a = next => buf'[a].mode = "READ"
    <3>1. buf[a] \in BufferType BY DEF StructInv, TypeOK
    <3>2. CASE a = next
      <4>1. buf'[a] = [buf[a] EXCEPT !.mode = "READ", !.modified = FALSE]
        BY <2>1, <3>2 DEF Flushed
      <4> QED BY <3>1, <3>2, <4>1 DEF BufferType
    <3>3. CASE a # next
      <4>1. PICK m \in BOOLEAN : buf'[a] = [buf[a] EXCEPT !.modified = m]
        <5> DEFINE m == buf[a].modified
                          \/ (buf[a].sector = buf[next].sector /\ buf[a].mode = "READ")
        <5>1. buf'[a] = [buf[a] EXCEPT !.modified = m] BY <2>1, <3>3 DEF Flushed
        <5>2. m \in BOOLEAN OBVIOUS
        <5> QED BY <5>1, <5>2
      <4> QED BY <3>1, <3>3, <4>1 DEF BufferType
    <3> QED BY <3>2, <3>3
  <2>3. buf' \in [Buffers -> BufferType]
    BY <2>1, <2>20 DEF Flushed
  <2>4. disk' \in [Sectors -> Values]
    BY <1>6, <2>2, WriteFailsType DEF StructInv, TypeOK, BufferType, FlushBuffer
  <2>5. suspect' \subseteq Sectors
    BY <1>6, <2>2 DEF StructInv, TypeOK, BufferType, FlushBuffer
  <2>6. TypeOK' BY <1>1, <1>2, <2>3, <2>4, <2>5 DEF StructInv, TypeOK, clientVars
  <2>7. \A a \in Buffers :
          /\ buf'[a].valid = buf[a].valid /\ buf'[a].sector = buf[a].sector
          /\ buf'[a].handles = buf[a].handles
          /\ a # next => buf'[a].mode = buf[a].mode
          /\ a = next => buf'[a].mode = "READ"
    BY <2>20
  <2>8. \A d \in Clients : held[d] # next
    BY <1>1, <1>6, UnheldHasNoHolder DEF StructInv
  <2>9. OneBufferPerSector' BY <2>7 DEF StructInv, OneBufferPerSector
  <2>10. HandlesMatchHolders'
    BY <1>1, <1>4, <2>7 DEF StructInv, HandlesMatchHolders, Holders, clientVars
  <2>11. HeldBufferIsTheOneAskedFor'
    <3> SUFFICES ASSUME NEW d \in Clients, Using(d)'
                 PROVE /\ buf'[held'[d]].valid
                       /\ buf'[held'[d]].sector = req'[d].sector
                       /\ buf'[held'[d]].mode = RdWr(req'[d].mode)
      BY DEF HeldBufferIsTheOneAskedFor
    <3>1. Using(d) /\ held'[d] = held[d] /\ req'[d] = req[d]
      BY <1>1, <1>4 DEF clientVars
    <3>2. held[d] \in Buffers /\ held[d] # next
      BY <2>8, <3>1 DEF StructInv, TypeOK, HandlesMatchHolders
    <3>3. /\ buf[held[d]].valid /\ buf[held[d]].sector = req[d].sector
          /\ buf[held[d]].mode = RdWr(req[d].mode)
      BY <3>1 DEF StructInv, HeldBufferIsTheOneAskedFor
    <3> QED BY <2>7, <3>1, <3>2, <3>3 DEF RdWr
  <2>12. WriteModeIsSingle' BY <2>7 DEF StructInv, WriteModeIsSingle
  <2> QED BY <1>3, <2>6, <2>9, <2>10, <2>11, <2>12 DEF StructInv
<1> QED BY <1>5, <1>6 DEF FlushBuffer

\* With no pointer handed out and no descriptor valid, StructInv holds.
LEMMA EmptyCache ==
  ASSUME TypeOK, SemaphoreOwner, buf = [b \in Buffers |-> EmptyBuffer],
         \A c \in Clients : held[c] = NoBuffer /\ ~Using(c)
  PROVE  StructInv
<1>1. \A b \in Buffers : buf[b] = EmptyBuffer OBVIOUS
<1>2. OneBufferPerSector BY <1>1 DEF OneBufferPerSector, EmptyBuffer
<1>3. \A b \in Buffers : Holders(b) = {}
  BY CacheAssumption DEF CacheAssumption, Holders
<1>4. HandlesMatchHolders
  BY <1>1, <1>3, FS_EmptySet DEF HandlesMatchHolders, EmptyBuffer
<1>5. HeldBufferIsTheOneAskedFor BY DEF HeldBufferIsTheOneAskedFor
<1>6. WriteModeIsSingle BY <1>1 DEF WriteModeIsSingle, EmptyBuffer
<1> QED BY <1>2, <1>4, <1>5, <1>6 DEF StructInv

\* A cleared descriptor has its type.
LEMMA EmptyBufferType == EmptyBuffer \in BufferType
BY CacheAssumption DEF CacheAssumption, EmptyBuffer, BufferType

\* FF_CreateIOManager establishes StructInv.
LEMMA InitStruct == Init => StructInv
<1> SUFFICES ASSUME Init PROVE StructInv OBVIOUS
<1>1. TypeOK
  BY CacheAssumption, NoRequestType, EmptyBufferType DEF CacheAssumption, Init, TypeOK
<1>2. SemaphoreOwner BY CacheAssumption DEF CacheAssumption, Init, SemaphoreOwner
<1> QED BY <1>1, <1>2, EmptyCache DEF Init, Using

\* A restart establishes it again.
LEMMA PowerLossStep ==
  ASSUME StructInv, PowerLoss
  PROVE  StructInv'
<1>1. TypeOK'
  BY CacheAssumption, NoRequestType, EmptyBufferType
  DEF CacheAssumption, PowerLoss, StructInv, TypeOK
<1>2. SemaphoreOwner' BY CacheAssumption DEF CacheAssumption, PowerLoss, SemaphoreOwner
<1>3. \A b \in Buffers : buf'[b] = EmptyBuffer BY DEF PowerLoss
<1>4. \A c \in Clients : held'[c] = NoBuffer /\ ~Using(c)' BY DEF PowerLoss, Using
<1>5. OneBufferPerSector' BY <1>3 DEF OneBufferPerSector, EmptyBuffer
<1>6. \A b \in Buffers : Holders(b)' = {}
  BY <1>4, CacheAssumption DEF CacheAssumption, Holders
<1>7. HandlesMatchHolders'
  BY <1>3, <1>4, <1>6, FS_EmptySet DEF HandlesMatchHolders, EmptyBuffer
<1>8. HeldBufferIsTheOneAskedFor' BY <1>4 DEF HeldBufferIsTheOneAskedFor
<1>9. WriteModeIsSingle' BY <1>3 DEF WriteModeIsSingle, EmptyBuffer
<1> QED BY <1>1, <1>2, <1>5, <1>7, <1>8, <1>9 DEF StructInv

-----------------------------------------------------------------------------
\* Every step preserves it.
LEMMA StructStep == StructInv /\ [Next]_vars => StructInv'
<1> SUFFICES ASSUME StructInv, [Next]_vars PROVE StructInv' OBVIOUS
<1>1. ASSUME NEW c \in Clients, NEW s \in Cached, NEW m \in Asked, GetBuffer(c, s, m)
      PROVE StructInv'
  BY <1>1, GetBufferStep, CacheAssumption DEF CacheAssumption
<1>2. ASSUME NEW c \in Clients, GetStep(c) PROVE StructInv' BY <1>2, GetStepStep
<1>3. ASSUME NEW c \in Clients, WaitStep(c) PROVE StructInv' BY <1>3, WaitStepStep
<1>4. ASSUME NEW c \in Clients, NEW v \in Values, Modify(c, v) PROVE StructInv'
  BY <1>4, ModifyStep
<1>5. ASSUME NEW c \in Clients, ClearSector(c) PROVE StructInv' BY <1>5, ClearSectorStep
<1>6. ASSUME NEW c \in Clients, ReleaseBuffer(c) PROVE StructInv' BY <1>6, ReleaseBufferStep
<1>7. ASSUME NEW c \in Clients, FlushBegin(c) PROVE StructInv' BY <1>7, FlushBeginStep
<1>8. ASSUME NEW c \in Clients, FlushStep(c) PROVE StructInv'
  BY <1>8, FlushBufferStep, FlushEndStep DEF FlushStep
<1>9. ASSUME NEW c \in Clients, NEW s \in Direct, NEW v \in Values, DirectWrite(c, s, v)
      PROVE StructInv'
  BY <1>9, DirectWriteStep
<1>10. CASE PowerLoss BY <1>10, PowerLossStep
<1>11. CASE UNCHANGED vars
  <2>1. TypeOK' BY <1>11 DEF StructInv, TypeOK, vars
  <2>2. SemaphoreOwner' BY <1>11 DEF StructInv, SemaphoreOwner, vars
  <2> QED BY <1>11, <2>1, <2>2, QuietStep DEF vars, Using
<1> QED BY <1>1, <1>2, <1>3, <1>4, <1>5, <1>6, <1>7, <1>8, <1>9, <1>10, <1>11 DEF Next

\* The cache's structural invariant holds in every reachable state.
THEOREM StructureHolds == Spec => []StructInv
BY InitStruct, StructStep, PTL DEF Spec

\* Every variable keeps its type (TypeOK).
THEOREM TypeCorrect == Spec => []TypeOK
BY StructureHolds, PTL DEF StructInv

\* FF_GetBuffer never caches one sector in two descriptors, so the loop of
\* FF_FlushCache over "other buffers that used this sector" finds none.
THEOREM NoSectorIsCachedTwice == Spec => []OneBufferPerSector
BY StructureHolds, PTL DEF StructInv

\* usNumHandles is the number of pointers handed out, and a task has a pointer
\* exactly between FF_GetBuffer and FF_ReleaseBuffer.
THEOREM HandleCountIsExact == Spec => []HandlesMatchHolders
BY StructureHolds, PTL DEF StructInv

\* A pointer keeps describing the sector and mode it was asked for: no
\* eviction or flush reuses a descriptor somebody holds.
THEOREM HeldBufferIsPinned == Spec => []HeldBufferIsTheOneAskedFor
BY StructureHolds, PTL DEF StructInv

\* A writer is the only holder because its descriptor has one handle.
LEMMA StructExcludes == StructInv => ExclusiveWriter
<1> SUFFICES ASSUME StructInv, NEW c \in Clients, NEW d \in Clients, c # d,
                    Using(c), Using(d), req[c].sector = req[d].sector
             PROVE  req[c].mode = "READ" /\ req[d].mode = "READ"
  BY DEF ExclusiveWriter
<1>1. held[c] \in Buffers /\ held[d] \in Buffers
  BY DEF StructInv, TypeOK, HandlesMatchHolders
<1>2. held[c] = held[d]
  BY <1>1 DEF StructInv, HeldBufferIsTheOneAskedFor, OneBufferPerSector
<1>3. buf[held[c]].handles > 1 BY <1>1, <1>2, TwoHoldersTwoHandles DEF StructInv
<1>4. buf[held[c]].handles \in Nat BY <1>1 DEF StructInv, TypeOK, BufferType
<1>5. buf[held[c]].mode # "WRITE" BY <1>1, <1>3, <1>4 DEF StructInv, WriteModeIsSingle
<1>6. RdWr(req[c].mode) # "WRITE" /\ RdWr(req[d].mode) # "WRITE"
  BY <1>2, <1>5 DEF StructInv, HeldBufferIsTheOneAskedFor
<1> QED BY <1>6 DEF RdWr

\* A task that holds a sector for writing is the only one to hold it, for any
\* number of tasks.
THEOREM WritersAreExclusive == Spec => []ExclusiveWriter
BY StructureHolds, StructExcludes, PTL
-----------------------------------------------------------------------------
(* What is in the buffers and on the disk: what is clean, what has been      *)
(* flushed and what has been written through is on disk, a reader is not     *)
(* disturbed, and the cache implements FFSectorStore.                        *)

\* A descriptor that was never used is not dirty.
EmptyIsClean ==
  \A b \in Buffers : ~ buf[b].valid => buf[b].mode = "NONE" /\ ~ buf[b].modified

\* The cache has sectors that were asked for, and nobody asks for others.
OnlyCached ==
  /\ \A b \in Buffers : buf[b].valid => buf[b].sector \in Cached
  /\ \A c \in Clients : pc[c] \notin {"idle", "flush"} => req[c].sector \in Cached

IdleAsksNothing == \A c \in Clients : pc[c] \in {"idle", "flush"} => req[c] = NoRequest

\* A buffer that somebody may write is dirty from the beginning, until FF_ClearCluster
\* has written it.
WriterHasMarked ==
  /\ \A c \in Clients : pc[c] = "have" /\ req[c].mode # "READ" => buf[held[c]].modified
  /\ \A c \in Clients : pc[c] = "cleared" => req[c].mode = "WR_ONLY"

\* The part of the table that FF_FlushCache is done with stays clean.
FlushedSoFar ==
  sem # Nobody => \A b \in Buffers : b < next /\ buf[b].handles = 0 => ~ buf[b].modified

\* The inductive invariant.
ContentInv ==
  /\ StructInv
  /\ EmptyIsClean /\ OnlyCached /\ IdleAsksNothing /\ WriterHasMarked
  /\ FlushedSoFar
  /\ CleanIsOnDisk

-----------------------------------------------------------------------------
(* What each action does to the descriptors, field by field.                *)

Untouched(b) == \A a \in Buffers \ {b} : buf'[a] = buf[a]

\* Only the memory of descriptor b, its mark and its number of handles change.
SameSector(b) ==
  buf'[b].valid = buf[b].valid /\ buf'[b].sector = buf[b].sector

\* FF_GetBuffer finds the sector.
Hit(c, b) ==
  /\ pc[c] = "get" /\ sem = Nobody /\ Granted(c, b)
  /\ Untouched(b) /\ SameSector(b)
  /\ buf[b].valid /\ buf[b].sector = req[c].sector
  /\ buf'[b].data = buf[b].data
  /\ buf'[b].modified = (buf[b].modified \/ req[c].mode # "READ")
  /\ buf'[b].mode = RdWr(req[c].mode)
  /\ buf'[b].handles # 0
  /\ buf[b].handles = 0 \/ (buf[b].mode = "READ" /\ req[c].mode = "READ")
  /\ UNCHANGED <<disk, suspect>>

\* A reader beside readers hits.
LEMMA HitSharedIsHit ==
  ASSUME StructInv, NEW c \in Clients, HitShared(c)
  PROVE  \E b \in Buffers : Hit(c, b)
<1>1. PICK b \in Buffers :
        /\ FirstMatch(b, req[c].sector)
        /\ SharedRead(c, b)
        /\ buf' = [buf EXCEPT ![b].handles = @ + 1]
        /\ Granted(c, b)
  BY DEF HitShared
<1>2. buf[b] \in BufferType /\ buf \in [Buffers -> BufferType] BY DEF StructInv, TypeOK
<1>3. buf[b].valid /\ buf[b].sector = req[c].sector BY <1>1, MatchIsUnique DEF StructInv
<1>4. Untouched(b) BY <1>1, <1>2 DEF Untouched
<1>5. /\ SameSector(b) /\ buf'[b].data = buf[b].data /\ buf'[b].modified = buf[b].modified
      /\ buf'[b].mode = buf[b].mode /\ buf'[b].handles = buf[b].handles + 1
  BY <1>1, <1>2 DEF SameSector, BufferType
<1>6. buf[b].handles \in Nat /\ buf[b].modified \in BOOLEAN BY <1>2 DEF BufferType
<1>7. req[c].mode = "READ" /\ buf[b].mode = "READ" BY <1>1 DEF SharedRead
<1>8. pc[c] = "get" /\ sem = Nobody /\ UNCHANGED <<disk, suspect>> BY DEF HitShared, Attempt
<1>9. Hit(c, b) BY <1>1, <1>3, <1>4, <1>5, <1>6, <1>7, <1>8 DEF Hit, RdWr
<1> QED BY <1>9

\* So does whoever takes a buffer that nobody holds.
LEMMA HitFreeIsHit ==
  ASSUME StructInv, NEW c \in Clients, HitFree(c)
  PROVE  \E b \in Buffers : Hit(c, b)
<1>1. PICK b \in Buffers :
        /\ FirstMatch(b, req[c].sector)
        /\ buf[b].handles = 0
        /\ buf' = [buf EXCEPT ![b].mode = RdWr(req[c].mode),
                              ![b].modified = @ \/ req[c].mode # "READ",
                              ![b].handles = 1]
        /\ Granted(c, b)
  BY DEF HitFree
<1>2. buf[b] \in BufferType /\ buf \in [Buffers -> BufferType] BY DEF StructInv, TypeOK
<1>3. buf[b].valid /\ buf[b].sector = req[c].sector BY <1>1, MatchIsUnique DEF StructInv
<1>4. Untouched(b) BY <1>1, <1>2 DEF Untouched
<1>5. /\ SameSector(b) /\ buf'[b].data = buf[b].data /\ buf'[b].handles = 1
      /\ buf'[b].mode = RdWr(req[c].mode)
      /\ buf'[b].modified = (buf[b].modified \/ req[c].mode # "READ")
  BY <1>1, <1>2 DEF SameSector, BufferType
<1>6. pc[c] = "get" /\ sem = Nobody /\ UNCHANGED <<disk, suspect>> BY DEF HitFree, Attempt
<1>7. Hit(c, b) BY <1>1, <1>3, <1>4, <1>5, <1>6 DEF Hit
<1> QED BY <1>7

\* A victim's contents go to the device, and nowhere else.
LEMMA WriteBackEffect ==
  ASSUME StructInv, NEW b \in Buffers,
         \/ disk' = WrittenBack(b)
         \/ buf[b].modified /\ WriteFails(buf[b].sector, buf[b].data)
  PROVE  /\ disk' \in [Sectors -> Values]
         /\ \A s \in Sectors : \/ disk'[s] = disk[s]
                               \/ s = buf[b].sector /\ buf[b].modified /\ disk'[s] = buf[b].data
         /\ disk' = WrittenBack(b) /\ buf[b].modified => disk'[buf[b].sector] = buf[b].data
<1>1. buf[b].sector \in Sectors /\ buf[b].data \in Values /\ disk \in [Sectors -> Values]
  BY DEF StructInv, TypeOK, BufferType
<1>2. CASE disk' = WrittenBack(b) BY <1>1, <1>2 DEF WrittenBack
<1>3. CASE buf[b].modified /\ WriteFails(buf[b].sector, buf[b].data)
  BY <1>1, <1>3 DEF WriteFails, WrittenBack
<1> QED BY <1>2, <1>3

\* FF_GetBuffer returns NULL with a victim written back, or partly so.
Refused(c, b) ==
  /\ pc[c] = "get" /\ sem = Nobody /\ ReturnNull(c)
  /\ Match(req[c].sector) = {} /\ buf[b].handles = 0
  /\ Untouched(b) /\ SameSector(b)
  /\ UNCHANGED <<buf[b].mode, buf[b].modified, buf[b].handles>>
  /\ \/ buf'[b].data = buf[b].data /\ suspect' = suspect
     \/ suspect' = IF buf[b].valid THEN suspect \cup {buf[b].sector} ELSE suspect
  /\ disk' \in [Sectors -> Values]
  /\ \A s \in Sectors : \/ disk'[s] = disk[s]
                        \/ s = buf[b].sector /\ buf[b].modified /\ disk'[s] = buf[b].data

\* A victim that cannot be written back.
LEMMA EvictFailsIsRefused ==
  ASSUME StructInv, NEW c \in Clients, NEW b \in Buffers, EvictFails(c, b)
  PROVE  Refused(c, b)
BY WriteBackEffect DEF EvictFails, Miss, Attempt, Refused, Untouched, SameSector

\* A sector that cannot be read leaves the victim's memory in doubt.
LEMMA FetchFailsIsRefused ==
  ASSUME StructInv, NEW c \in Clients, NEW b \in Buffers, FetchFails(c, b)
  PROVE  Refused(c, b)
<1>1. /\ pc[c] = "get" /\ sem = Nobody /\ ReturnNull(c) /\ ReadFails(req[c].sector, b)
      /\ Match(req[c].sector) = {} /\ buf[b].handles = 0 /\ disk' = WrittenBack(b)
  BY DEF FetchFails, Miss, Attempt
<1>2. buf[b] \in BufferType /\ buf \in [Buffers -> BufferType] BY DEF StructInv, TypeOK
<1> DEFINE Changed ==
             /\ Untouched(b) /\ SameSector(b)
             /\ UNCHANGED <<buf[b].mode, buf[b].modified, buf[b].handles>>
             /\ \/ buf'[b].data = buf[b].data /\ suspect' = suspect
                \/ suspect' = IF buf[b].valid THEN suspect \cup {buf[b].sector} ELSE suspect
<1>3. Changed
  <2>1. CASE UNCHANGED <<buf, suspect>> BY <2>1 DEF Untouched, SameSector
  <2>2. ASSUME NEW v \in Values, buf' = [buf EXCEPT ![b].data = v],
               suspect' = IF buf[b].valid THEN suspect \cup {buf[b].sector} ELSE suspect
        PROVE  Changed
    BY <1>2, <2>2 DEF Untouched, SameSector, BufferType
  <2> QED BY <1>1, <2>1, <2>2 DEF ReadFails
<1> QED BY <1>1, <1>3, WriteBackEffect DEF Refused

\* FF_GetBuffer replaces a victim.
Replaced(c, b) ==
  /\ pc[c] = "get" /\ sem = Nobody /\ Granted(c, b)
  /\ Match(req[c].sector) = {} /\ buf[b].handles = 0
  /\ Untouched(b)
  /\ buf'[b].valid /\ buf'[b].sector = req[c].sector /\ buf'[b].handles = 1
  /\ buf'[b].mode = RdWr(req[c].mode) /\ buf'[b].modified = (req[c].mode # "READ")
  /\ buf'[b].data = IF req[c].mode = "WR_ONLY" THEN Zero ELSE disk'[req[c].sector]
  /\ suspect' = suspect
  /\ disk' \in [Sectors -> Values]
  /\ \A s \in Sectors : \/ disk'[s] = disk[s]
                        \/ s = buf[b].sector /\ buf[b].modified /\ disk'[s] = buf[b].data
  /\ buf[b].modified => disk'[buf[b].sector] = buf[b].data

\* A victim that is written back and filled anew.
LEMMA InstallIsReplaced ==
  ASSUME StructInv, NEW c \in Clients, NEW b \in Buffers, Install(c, b)
  PROVE  Replaced(c, b)
<1>1. /\ pc[c] = "get" /\ sem = Nobody /\ Granted(c, b) /\ suspect' = suspect
      /\ Match(req[c].sector) = {} /\ buf[b].handles = 0 /\ disk' = WrittenBack(b)
  BY DEF Install, Miss, Attempt
<1>2. buf' = [buf EXCEPT ![b] =
        [sector |-> req[c].sector, mode |-> RdWr(req[c].mode),
         modified |-> req[c].mode # "READ", valid |-> TRUE, handles |-> 1,
         data |-> IF req[c].mode = "WR_ONLY" THEN Zero ELSE disk'[req[c].sector]]]
  BY DEF Install
<1>3. DOMAIN buf = Buffers BY DEF StructInv, TypeOK
<1>4. Untouched(b) BY <1>2, <1>3 DEF Untouched
<1>5. /\ buf'[b].valid /\ buf'[b].sector = req[c].sector /\ buf'[b].handles = 1
      /\ buf'[b].mode = RdWr(req[c].mode) /\ buf'[b].modified = (req[c].mode # "READ")
      /\ buf'[b].data = IF req[c].mode = "WR_ONLY" THEN Zero ELSE disk'[req[c].sector]
  BY <1>2, <1>3
<1> QED BY <1>1, <1>4, <1>5, WriteBackEffect DEF Replaced

\* The user of a sector changes its contents.
Written(c, v) ==
  LET b == held[c] IN
  /\ Using(c) /\ b \in Buffers /\ req[c].mode # "READ"
  /\ Untouched(b) /\ SameSector(b) /\ buf[b].valid /\ buf[b].sector = req[c].sector
  /\ buf'[b].mode = buf[b].mode /\ buf'[b].handles = buf[b].handles
  /\ buf'[b].data = v
  /\ UNCHANGED <<req, held, tries, sem, next, bufBit>>

\* A user of a sector holds a descriptor of it.
LEMMA UserHoldsSector ==
  ASSUME StructInv, NEW c \in Clients, Using(c)
  PROVE  /\ held[c] \in Buffers /\ buf[held[c]] \in BufferType
         /\ buf[held[c]].valid /\ buf[held[c]].sector = req[c].sector
         /\ buf[held[c]].mode = RdWr(req[c].mode) /\ buf[held[c]].handles # 0
<1>1. held[c] \in Buffers BY DEF StructInv, TypeOK, HandlesMatchHolders
<1> QED BY <1>1, HeldHasHandle DEF StructInv, TypeOK, HeldBufferIsTheOneAskedFor

\* The user stores into its buffer.
LEMMA ModifyIsWritten ==
  ASSUME StructInv, NEW c \in Clients, NEW v \in Values, Modify(c, v)
  PROVE  /\ Written(c, v) /\ buf'[held[c]].modified = buf[held[c]].modified
         /\ pc' = pc /\ UNCHANGED <<disk, suspect>>
<1>1. Using(c) BY DEF Modify, Using
<1>2. buf \in [Buffers -> BufferType] BY DEF StructInv, TypeOK
<1>3. buf' = [buf EXCEPT ![held[c]].data = v] BY DEF Modify
<1>4. Untouched(held[c]) BY <1>1, <1>2, <1>3, UserHoldsSector DEF Untouched
<1> QED BY <1>1, <1>2, <1>3, <1>4, UserHoldsSector
        DEF Modify, clientVars, Written, SameSector, BufferType

\* FF_ClearCluster stores zeros and writes them past the cache.
LEMMA ClearSectorIsWritten ==
  ASSUME StructInv, NEW c \in Clients, ClearSector(c)
  PROVE  /\ Written(c, Zero) /\ ~ buf'[held[c]].modified
         /\ pc[c] = "have" /\ pc' = [pc EXCEPT ![c] = "cleared"] /\ req[c].mode = "WR_ONLY"
         /\ disk' \in [Sectors -> Values]
         /\ \/ disk' = [disk EXCEPT ![req[c].sector] = Zero] /\ suspect' = suspect
            \/ /\ disk' \in {disk, [disk EXCEPT ![req[c].sector] = Zero]}
               /\ suspect' = suspect \cup {req[c].sector}
<1>1. Using(c) /\ pc[c] = "have" /\ req[c].mode = "WR_ONLY" BY DEF ClearSector, Using
<1>2. buf \in [Buffers -> BufferType] /\ disk \in [Sectors -> Values] /\ Zero \in Values
      /\ req[c].sector \in Sectors
  BY CacheAssumption DEF CacheAssumption, StructInv, TypeOK
<1>3. buf' = [buf EXCEPT ![held[c]].data = Zero, ![held[c]].modified = FALSE]
  BY DEF ClearSector
<1>4. Untouched(held[c]) BY <1>1, <1>2, <1>3, UserHoldsSector DEF Untouched
<1>5. Written(c, Zero) /\ ~ buf'[held[c]].modified
  BY <1>1, <1>2, <1>3, <1>4, UserHoldsSector DEF ClearSector, Written, SameSector, BufferType
<1>6. \/ disk' = [disk EXCEPT ![req[c].sector] = Zero] /\ suspect' = suspect
      \/ /\ disk' \in {disk, [disk EXCEPT ![req[c].sector] = Zero]}
         /\ suspect' = suspect \cup {req[c].sector}
  BY DEF ClearSector, WriteFails
<1>7. disk' \in [Sectors -> Values] BY <1>2, <1>6
<1> QED BY <1>1, <1>5, <1>6, <1>7 DEF ClearSector

\* A buffer is given back, perhaps written through.
Released(c) ==
  LET b == held[c] IN
  /\ Using(c) /\ b \in Buffers /\ sem = Nobody /\ Proceed(c)
  /\ req' = [req EXCEPT ![c] = NoRequest] /\ held' = [held EXCEPT ![c] = NoBuffer]
  /\ Untouched(b) /\ SameSector(b) /\ buf[b].valid /\ buf[b].sector = req[c].sector
  /\ buf'[b].mode = buf[b].mode /\ buf'[b].data = buf[b].data
  /\ buf'[b].handles = buf[b].handles - 1
  /\ \/ buf'[b].modified = buf[b].modified /\ disk' = disk
     \/ /\ buf[b].modified
        /\ ~ buf'[b].modified /\ disk' = [disk EXCEPT ![buf[b].sector] = buf[b].data]
     \/ /\ buf'[b].modified = buf[b].modified /\ buf[b].modified
        /\ disk' = [disk EXCEPT ![buf[b].sector] = buf[b].data]
  /\ WriteThrough /\ buf'[b].modified => DriverFails \/ buf[b].sector \notin Partition
  /\ UNCHANGED <<tries, sem, next, suspect>>

\* FF_ReleaseBuffer does one of the three.
LEMMA ReleaseBufferIsReleased ==
  ASSUME StructInv, NEW c \in Clients, ReleaseBuffer(c)
  PROVE  Released(c)
<1> DEFINE b == held[c]
<1>1. /\ Using(c) /\ sem = Nobody /\ Proceed(c)
      /\ req' = [req EXCEPT ![c] = NoRequest] /\ held' = [held EXCEPT ![c] = NoBuffer]
      /\ UNCHANGED <<tries, sem, next, suspect>>
  BY DEF ReleaseBuffer
<1>2. buf \in [Buffers -> BufferType] BY DEF StructInv, TypeOK
<1>3. b \in Buffers /\ buf[b] \in BufferType /\ buf[b].valid /\ buf[b].sector = req[c].sector
  BY <1>1, UserHoldsSector
<1> DEFINE Given(m) ==
             /\ Untouched(b) /\ SameSector(b)
             /\ buf'[b].mode = buf[b].mode /\ buf'[b].data = buf[b].data
             /\ buf'[b].handles = buf[b].handles - 1 /\ buf'[b].modified = m
<1>4. CASE /\ ~(WriteThrough /\ buf[b].modified)
           /\ buf' = [buf EXCEPT ![b].handles = @ - 1]
           /\ UNCHANGED disk
  <2>1. Given(buf[b].modified) BY <1>2, <1>3, <1>4 DEF Untouched, SameSector, BufferType
  <2> QED BY <1>1, <1>3, <1>4, <2>1 DEF Released
<1>5. CASE /\ WriteThrough /\ buf[b].modified
           /\ disk' = [disk EXCEPT ![buf[b].sector] = buf[b].data]
           /\ buf' = [buf EXCEPT ![b].handles = @ - 1, ![b].modified = FALSE]
  <2>1. Given(FALSE) BY <1>2, <1>3, <1>5 DEF Untouched, SameSector, BufferType
  <2> QED BY <1>1, <1>3, <1>5, <2>1 DEF Released
<1>6. CASE /\ WriteThrough /\ buf[b].modified
           /\ WriteFails(buf[b].sector, buf[b].data)
           /\ buf' = [buf EXCEPT ![b].handles = @ - 1]
  <2>1. Given(buf[b].modified) BY <1>2, <1>3, <1>6 DEF Untouched, SameSector, BufferType
  <2> QED BY <1>1, <1>3, <1>6, <2>1 DEF Released, WriteFails
<1> QED BY <1>4, <1>5, <1>6 DEF ReleaseBuffer

\* A descriptor nobody holds is flushed.
FlushedOne ==
  /\ next \in Buffers /\ next' = next + 1
  /\ buf[next].handles = 0 /\ buf[next].modified /\ buf[next].valid
  /\ Untouched(next) /\ SameSector(next)
  /\ buf'[next].mode = "READ" /\ ~ buf'[next].modified
  /\ buf'[next].handles = 0 /\ buf'[next].data = buf[next].data
  /\ disk' \in [Sectors -> Values]
  /\ \/ /\ disk' = [disk EXCEPT ![buf[next].sector] = buf[next].data]
        /\ suspect' = suspect
     \/ /\ disk' \in {disk, [disk EXCEPT ![buf[next].sector] = buf[next].data]}
        /\ suspect' = suspect \cup {buf[next].sector}
  /\ UNCHANGED <<clientVars, sem, bufBit>>

\* FF_FlushCache flushes a descriptor or passes it by; there is no other of its sector.
LEMMA FlushBufferIsFlushed ==
  ASSUME StructInv, EmptyIsClean, NEW c \in Clients, FlushBuffer(c)
  PROVE  \/ FlushedOne
         \/ /\ next \in Buffers /\ (buf[next].handles # 0 \/ ~ buf[next].modified)
            /\ next' = next + 1
            /\ UNCHANGED <<buf, disk, suspect, clientVars, sem, bufBit>>
<1>1. next \in Buffers /\ next' = next + 1 /\ UNCHANGED <<clientVars, sem, bufBit>>
  BY CacheAssumption DEF CacheAssumption, StructInv, TypeOK, FlushBuffer, Buffers
<1>2. CASE buf[next].handles = 0 /\ buf[next].modified
  <2> DEFINE b == next
  <2>1. buf' = Flushed(b) BY <1>2 DEF FlushBuffer
  <2>2. buf \in [Buffers -> BufferType] /\ disk \in [Sectors -> Values]
    BY DEF StructInv, TypeOK
  <2>3. buf[b] \in BufferType /\ buf[b].valid BY <1>1, <1>2, <2>2 DEF EmptyIsClean
  <2>4. Untouched(b)
    <3> SUFFICES ASSUME NEW a \in Buffers \ {b} PROVE buf'[a] = buf[a] BY DEF Untouched
    <3>1. buf[a] \in BufferType BY <2>2
    <3>2. ~ (buf[a].sector = buf[b].sector /\ buf[a].mode = "READ")
      BY <1>1, <2>3 DEF EmptyIsClean, StructInv, OneBufferPerSector
    <3>3. buf'[a] = [buf[a] EXCEPT !.modified = buf[a].modified]
      <4> DEFINE m == buf[a].modified
                        \/ (buf[a].sector = buf[b].sector /\ buf[a].mode = "READ")
      <4>1. buf'[a] = [buf[a] EXCEPT !.modified = m] BY <2>1 DEF Flushed
      <4>2. m = buf[a].modified BY <3>1, <3>2 DEF BufferType
      <4> QED BY <4>1, <4>2
    <3> QED BY <3>1, <3>3 DEF BufferType
  <2>5. buf'[b] = [buf[b] EXCEPT !.mode = "READ", !.modified = FALSE]
    BY <1>1, <2>1 DEF Flushed
  <2>6. /\ SameSector(b) /\ buf'[b].mode = "READ" /\ ~ buf'[b].modified
        /\ buf'[b].handles = buf[b].handles /\ buf'[b].data = buf[b].data
    BY <2>3, <2>5 DEF SameSector, BufferType
  <2>7. \/ /\ disk' = [disk EXCEPT ![buf[b].sector] = buf[b].data]
           /\ suspect' = suspect
        \/ /\ disk' \in {disk, [disk EXCEPT ![buf[b].sector] = buf[b].data]}
           /\ suspect' = suspect \cup {buf[b].sector}
    BY <1>2 DEF FlushBuffer, WriteFails
  <2>8. disk' \in [Sectors -> Values] BY <2>2, <2>3, <2>7 DEF BufferType
  <2> QED BY <1>1, <1>2, <2>3, <2>4, <2>6, <2>7, <2>8 DEF FlushedOne
<1>3. CASE ~ (buf[next].handles = 0 /\ buf[next].modified)
  BY <1>1, <1>3 DEF FlushBuffer
<1> QED BY <1>2, <1>3

-----------------------------------------------------------------------------
(* ContentInv is inductive.                                                 *)

\* Two users of one descriptor read.
LEMMA WriterIsAlone ==
  ASSUME StructInv, NEW c \in Clients, NEW d \in Clients, c # d, Using(c), Using(d),
         req[c].mode # "READ"
  PROVE  held[d] # held[c] /\ req[d].sector # req[c].sector
<1>1. req[d].sector # req[c].sector BY StructExcludes DEF ExclusiveWriter
<1> QED BY <1>1, UserHoldsSector

\* A hit marks the buffer of a writer and changes no contents.
LEMMA HitContent ==
  ASSUME ContentInv, StructInv', NEW c \in Clients, NEW b \in Buffers, Hit(c, b)
  PROVE  ContentInv'
<1> USE DEF ContentInv
<1>1. /\ pc' = [pc EXCEPT ![c] = "have"] /\ held' = [held EXCEPT ![c] = b]
      /\ req' = req /\ sem' = Nobody /\ UNCHANGED <<disk, suspect, next>>
      /\ pc[c] = "get" /\ sem = Nobody
  BY DEF Hit, Granted
<1>2. pc \in [Clients -> {"idle", "get", "sleep", "blocked", "have", "cleared", "flush"}]
      /\ held \in [Clients -> Buffers \cup {NoBuffer}]
  BY DEF StructInv, TypeOK
<1>3. \A d \in Clients \ {c} : pc'[d] = pc[d] /\ held'[d] = held[d] BY <1>1, <1>2
<1>4. pc'[c] = "have" /\ held'[c] = b BY <1>1, <1>2
<1>5. EmptyIsClean' BY DEF EmptyIsClean, Hit, Untouched, SameSector
<1>6. OnlyCached' BY <1>1, <1>3, <1>4 DEF OnlyCached, Hit, Untouched, SameSector
<1>7. IdleAsksNothing' BY <1>1, <1>3, <1>4 DEF IdleAsksNothing
<1>8. WriterHasMarked'
  <2> SUFFICES ASSUME NEW d \in Clients, pc'[d] = "have", req'[d].mode # "READ"
               PROVE  buf'[held'[d]].modified
    BY <1>1, <1>3, <1>4 DEF WriterHasMarked
  <2>1. CASE d = c BY <1>1, <1>4, <2>1 DEF Hit
  <2>2. CASE d # c
    <3>1. pc[d] = "have" /\ req[d].mode # "READ" /\ held'[d] = held[d]
      BY <1>1, <1>3, <2>2
    <3>2. buf[held[d]].modified BY <3>1 DEF WriterHasMarked
    <3>3. held[d] \in Buffers BY <3>1, UserHoldsSector DEF Using
    <3> QED BY <3>1, <3>2, <3>3 DEF Hit, Untouched
  <2> QED BY <2>1, <2>2
<1>9. FlushedSoFar' BY <1>1 DEF FlushedSoFar
<1>10. CleanIsOnDisk'
  <2> SUFFICES ASSUME NEW a \in Buffers, buf'[a].valid, ~ buf'[a].modified,
                      buf'[a].sector \notin suspect
               PROVE  buf'[a].data = disk[buf'[a].sector]
    BY <1>1 DEF CleanIsOnDisk
  <2>1. CASE a = b BY <2>1 DEF CleanIsOnDisk, Hit, SameSector
  <2>2. CASE a # b BY <2>2 DEF CleanIsOnDisk, Hit, Untouched
  <2> QED BY <2>1, <2>2
<1> QED BY <1>5, <1>6, <1>7, <1>8, <1>9, <1>10

\* A write to the sector of a dirty descriptor leaves the clean ones as they were.
LEMMA OthersStayOnDisk ==
  ASSUME ContentInv, NEW b \in Buffers, NEW a \in Buffers \ {b},
         buf[a].valid, ~ buf[a].modified, buf[a].sector \notin suspect,
         \A s \in Sectors : disk'[s] = disk[s] \/ (s = buf[b].sector /\ buf[b].valid)
  PROVE  buf[a].data = disk'[buf[a].sector]
<1>1. buf[a].sector \in Sectors BY DEF ContentInv, StructInv, TypeOK, BufferType
<1>2. ~ (buf[a].sector = buf[b].sector /\ buf[b].valid)
  BY DEF ContentInv, StructInv, OneBufferPerSector
<1> QED BY <1>1, <1>2 DEF ContentInv, CleanIsOnDisk

\* NULL leaves a clean descriptor on disk, or in doubt.
LEMMA RefusedContent ==
  ASSUME ContentInv, StructInv', NEW c \in Clients, NEW b \in Buffers, Refused(c, b)
  PROVE  ContentInv'
<1> USE DEF ContentInv
<1>1. /\ pc' = [pc EXCEPT ![c] = "idle"] /\ req' = [req EXCEPT ![c] = NoRequest]
      /\ held' = held /\ sem' = Nobody /\ pc[c] = "get"
  BY DEF Refused, ReturnNull
<1>2. pc \in [Clients -> {"idle", "get", "sleep", "blocked", "have", "cleared", "flush"}]
      /\ req \in [Clients -> [sector : Sectors, mode : Modes]]
  BY DEF StructInv, TypeOK
<1>3. \A d \in Clients \ {c} : pc'[d] = pc[d] /\ req'[d] = req[d] BY <1>1, <1>2
<1>4. pc'[c] = "idle" /\ req'[c] = NoRequest BY <1>1, <1>2
<1>5. /\ buf'[b].mode = buf[b].mode /\ buf'[b].modified = buf[b].modified
      /\ buf'[b].valid = buf[b].valid /\ buf'[b].sector = buf[b].sector
      /\ Untouched(b) /\ buf[b].handles = 0
  BY DEF Refused, SameSector
<1>6. EmptyIsClean' BY <1>5 DEF EmptyIsClean, Untouched
<1>7. OnlyCached' BY <1>3, <1>4, <1>5 DEF OnlyCached, Untouched
<1>8. IdleAsksNothing' BY <1>3, <1>4 DEF IdleAsksNothing
<1>9. WriterHasMarked'
  BY <1>1, <1>3, <1>4, <1>5, UserHoldsSector DEF WriterHasMarked, Using, Untouched
<1>10. FlushedSoFar' BY <1>1 DEF FlushedSoFar
<1>11. CleanIsOnDisk'
  <2> SUFFICES ASSUME NEW a \in Buffers, buf'[a].valid, ~ buf'[a].modified,
                      buf'[a].sector \notin suspect'
               PROVE  buf'[a].data = disk'[buf'[a].sector]
    BY DEF CleanIsOnDisk
  <2>1. suspect \subseteq suspect' BY DEF Refused
  <2>2. \A s \in Sectors : \/ disk'[s] = disk[s]
                           \/ s = buf[b].sector /\ buf[b].modified /\ buf[b].valid
    BY DEF Refused, EmptyIsClean
  <2>3. CASE a = b
    <3>1. buf[b].valid /\ ~ buf[b].modified BY <1>5, <2>3
    <3>2. buf[b].sector \notin suspect' BY <1>5, <2>3
    <3>3. buf'[b].data = buf[b].data BY <3>1, <3>2 DEF Refused
    <3>4. buf[b].sector \in Sectors BY DEF StructInv, TypeOK, BufferType
    <3> QED BY <1>5, <2>1, <2>2, <2>3, <3>1, <3>2, <3>3, <3>4 DEF CleanIsOnDisk
  <2>4. CASE a # b BY <1>5, <2>1, <2>2, <2>4, OthersStayOnDisk DEF Untouched
  <2> QED BY <2>3, <2>4
<1> QED BY <1>6, <1>7, <1>8, <1>9, <1>10, <1>11

\* A new descriptor is read from the disk the victim was written to.
LEMMA ReplacedContent ==
  ASSUME ContentInv, StructInv', NEW c \in Clients, NEW b \in Buffers, Replaced(c, b)
  PROVE  ContentInv'
<1> USE DEF ContentInv
<1>1. /\ pc' = [pc EXCEPT ![c] = "have"] /\ held' = [held EXCEPT ![c] = b]
      /\ req' = req /\ sem' = Nobody /\ suspect' = suspect
      /\ pc[c] = "get" /\ sem = Nobody
  BY DEF Replaced, Granted
<1>2. pc \in [Clients -> {"idle", "get", "sleep", "blocked", "have", "cleared", "flush"}]
      /\ held \in [Clients -> Buffers \cup {NoBuffer}]
  BY DEF StructInv, TypeOK
<1>3. \A d \in Clients \ {c} : pc'[d] = pc[d] /\ held'[d] = held[d] BY <1>1, <1>2
<1>4. pc'[c] = "have" /\ held'[c] = b BY <1>1, <1>2
<1>5. /\ buf'[b].valid /\ buf'[b].sector = req[c].sector /\ Untouched(b)
      /\ buf'[b].modified = (req[c].mode # "READ") /\ buf[b].handles = 0
  BY DEF Replaced
<1>6. EmptyIsClean' BY <1>5 DEF EmptyIsClean, Untouched
<1>7. OnlyCached' BY <1>1, <1>3, <1>4, <1>5 DEF OnlyCached, Untouched
<1>8. IdleAsksNothing' BY <1>1, <1>3, <1>4 DEF IdleAsksNothing
<1>9. WriterHasMarked'
  <2> SUFFICES ASSUME NEW d \in Clients, pc'[d] = "have", req'[d].mode # "READ"
               PROVE  buf'[held'[d]].modified
    BY <1>1, <1>3, <1>4 DEF WriterHasMarked
  <2>1. CASE d = c BY <1>1, <1>4, <1>5, <2>1
  <2>2. CASE d # c
    <3>1. pc[d] = "have" /\ req[d].mode # "READ" /\ held'[d] = held[d]
      BY <1>1, <1>3, <2>2
    <3>2. buf[held[d]].modified BY <3>1 DEF WriterHasMarked
    <3>3. held[d] \in Buffers /\ held[d] # b BY <1>5, <3>1, UserHoldsSector DEF Using
    <3> QED BY <1>5, <3>1, <3>2, <3>3 DEF Untouched
  <2> QED BY <2>1, <2>2
<1>10. FlushedSoFar' BY <1>1 DEF FlushedSoFar
<1>11. CleanIsOnDisk'
  <2> SUFFICES ASSUME NEW a \in Buffers, buf'[a].valid, ~ buf'[a].modified,
                      buf'[a].sector \notin suspect
               PROVE  buf'[a].data = disk'[buf'[a].sector]
    BY <1>1 DEF CleanIsOnDisk
  <2>1. CASE a = b BY <1>5, <2>1 DEF Replaced
  <2>2. CASE a # b
    <3>1. \A s \in Sectors : disk'[s] = disk[s] \/ (s = buf[b].sector /\ buf[b].valid)
      BY DEF Replaced, EmptyIsClean
    <3> QED BY <1>5, <2>2, <3>1, OthersStayOnDisk DEF Untouched
  <2> QED BY <2>1, <2>2
<1> QED BY <1>6, <1>7, <1>8, <1>9, <1>10, <1>11


\* Where a client may be.
LEMMA PcType ==
  ASSUME StructInv
  PROVE  pc \in [Clients -> {"idle", "get", "sleep", "blocked", "have", "cleared", "flush"}]
BY DEF StructInv, TypeOK

\* What is written is marked.
LEMMA ModifyContent ==
  ASSUME ContentInv, StructInv', NEW c \in Clients, NEW v \in Values, Modify(c, v)
  PROVE  ContentInv'
<1> USE DEF ContentInv
<1>1. /\ Written(c, v) /\ buf'[held[c]].modified = buf[held[c]].modified
      /\ pc' = pc /\ disk' = disk /\ suspect' = suspect /\ pc[c] = "have"
  BY ModifyIsWritten DEF Modify
<1>2. buf[held[c]].modified BY <1>1 DEF Written, WriterHasMarked, Using
<1>3. EmptyIsClean' BY <1>1 DEF EmptyIsClean, Written, Untouched, SameSector
<1>4. OnlyCached' BY <1>1 DEF OnlyCached, Written, Untouched, SameSector
<1>5. IdleAsksNothing' BY <1>1 DEF IdleAsksNothing, Written
<1>6. WriterHasMarked'
  BY <1>1, UserHoldsSector DEF WriterHasMarked, Written, Untouched, Using
<1>7. FlushedSoFar' BY <1>1 DEF FlushedSoFar, Written, Untouched
<1>8. CleanIsOnDisk' BY <1>1, <1>2 DEF CleanIsOnDisk, Written, Untouched, SameSector
<1> QED BY <1>3, <1>4, <1>5, <1>6, <1>7, <1>8

\* FF_ClearCluster unmarks what it wrote.
LEMMA ClearSectorContent ==
  ASSUME ContentInv, StructInv', NEW c \in Clients, ClearSector(c)
  PROVE  ContentInv'
<1> USE DEF ContentInv
<1> DEFINE b == held[c]
<1>1. /\ Written(c, Zero) /\ ~ buf'[b].modified
      /\ pc[c] = "have" /\ pc' = [pc EXCEPT ![c] = "cleared"] /\ req[c].mode = "WR_ONLY"
      /\ disk' \in [Sectors -> Values]
      /\ \/ disk' = [disk EXCEPT ![req[c].sector] = Zero] /\ suspect' = suspect
         \/ /\ disk' \in {disk, [disk EXCEPT ![req[c].sector] = Zero]}
            /\ suspect' = suspect \cup {req[c].sector}
  BY ClearSectorIsWritten
<1>2. b \in Buffers /\ buf[b].valid /\ buf[b].sector = req[c].sector /\ buf[b].handles # 0
      /\ req' = req /\ held' = held /\ Untouched(b) /\ Using(c)
  BY <1>1, UserHoldsSector DEF Written
<1>3. \A d \in Clients \ {c} : pc'[d] = pc[d] BY <1>1, PcType
<1>4. pc'[c] = "cleared" BY <1>1, PcType
<1>5. EmptyIsClean' BY <1>1, <1>2 DEF EmptyIsClean, Written, Untouched, SameSector
<1>6. OnlyCached' BY <1>1, <1>2, <1>3, <1>4 DEF OnlyCached, Written, Untouched, SameSector
<1>7. IdleAsksNothing' BY <1>2, <1>3, <1>4 DEF IdleAsksNothing
<1>8. WriterHasMarked'
  <2> SUFFICES ASSUME NEW d \in Clients, pc'[d] = "have", req'[d].mode # "READ"
               PROVE  buf'[held'[d]].modified
    BY <1>1, <1>2, <1>3, <1>4 DEF WriterHasMarked
  <2>1. d # c /\ pc[d] = "have" /\ req[d].mode # "READ" BY <1>2, <1>3, <1>4
  <2>2. Using(d) BY <2>1 DEF Using
  <2>3. held[d] # b /\ held[d] \in Buffers BY <1>1, <1>2, <2>1, <2>2, WriterIsAlone, UserHoldsSector
  <2> QED BY <1>2, <2>1, <2>3 DEF WriterHasMarked, Untouched
<1>9. FlushedSoFar' BY <1>1, <1>2 DEF FlushedSoFar, Written, Untouched
<1>10. CleanIsOnDisk'
  <2> SUFFICES ASSUME NEW a \in Buffers, buf'[a].valid, ~ buf'[a].modified,
                      buf'[a].sector \notin suspect'
               PROVE  buf'[a].data = disk'[buf'[a].sector]
    BY DEF CleanIsOnDisk
  <2>1. disk \in [Sectors -> Values] /\ req[c].sector \in Sectors BY DEF StructInv, TypeOK
  <2>2. CASE a = b
    <3>1. buf'[a].data = Zero /\ buf'[a].sector = req[c].sector
      BY <1>1, <1>2, <2>2 DEF Written, SameSector
    <3> QED BY <1>1, <2>1, <3>1
  <2>3. CASE a # b
    <3>1. \A s \in Sectors : disk'[s] = disk[s] \/ (s = buf[b].sector /\ buf[b].valid)
      BY <1>1, <1>2, <2>1
    <3>2. suspect \subseteq suspect' BY <1>1
    <3> QED BY <1>2, <2>3, <3>1, <3>2, OthersStayOnDisk DEF Untouched
  <2> QED BY <2>2, <2>3
<1> QED BY <1>5, <1>6, <1>7, <1>8, <1>9, <1>10

\* FF_ReleaseBuffer unmarks only what it wrote.
LEMMA ReleaseBufferContent ==
  ASSUME ContentInv, StructInv', NEW c \in Clients, ReleaseBuffer(c)
  PROVE  ContentInv'
<1> USE DEF ContentInv
<1> DEFINE b == held[c]
<1>1. Released(c) BY ReleaseBufferIsReleased
<1>2. /\ b \in Buffers /\ Untouched(b) /\ SameSector(b) /\ buf[b].valid
      /\ buf'[b].mode = buf[b].mode /\ buf'[b].data = buf[b].data
      /\ suspect' = suspect /\ sem' = sem /\ sem = Nobody
      /\ req' = [req EXCEPT ![c] = NoRequest] /\ held' = [held EXCEPT ![c] = NoBuffer]
      /\ Proceed(c) /\ Using(c)
  BY <1>1 DEF Released
<1>3. /\ pc'[c] = "idle" /\ req'[c] = NoRequest
      /\ \A d \in Clients \ {c} : /\ req'[d] = req[d] /\ held'[d] = held[d]
                                  /\ \/ pc'[d] = pc[d]
                                     \/ pc[d] = "blocked" /\ pc'[d] = "get"
  BY <1>2 DEF Proceed, Blocked, StructInv, TypeOK
<1>4. buf'[b].modified => buf[b].modified BY <1>1 DEF Released
<1>5. EmptyIsClean' BY <1>2, <1>4 DEF EmptyIsClean, Untouched, SameSector
<1>6. OnlyCached' BY <1>2, <1>3 DEF OnlyCached, Untouched, SameSector
<1>7. IdleAsksNothing' BY <1>3 DEF IdleAsksNothing
<1>8. WriterHasMarked'
  <2>1. ASSUME NEW d \in Clients, pc'[d] = "have", req'[d].mode # "READ"
        PROVE  buf'[held'[d]].modified
    <3>1. d # c /\ pc[d] = "have" /\ req[d].mode # "READ" /\ held'[d] = held[d]
      BY <1>3, <2>1
    <3>2. Using(d) BY <3>1 DEF Using
    <3>3. held[d] # b /\ held[d] \in Buffers BY <1>2, <3>1, <3>2, WriterIsAlone, UserHoldsSector
    <3> QED BY <1>2, <3>1, <3>3 DEF WriterHasMarked, Untouched
  <2>2. ASSUME NEW d \in Clients, pc'[d] = "cleared" PROVE req'[d].mode = "WR_ONLY"
    BY <1>3, <2>2 DEF WriterHasMarked
  <2> QED BY <2>1, <2>2 DEF WriterHasMarked
<1>9. FlushedSoFar' BY <1>2 DEF FlushedSoFar
<1>10. CleanIsOnDisk'
  <2> SUFFICES ASSUME NEW a \in Buffers, buf'[a].valid, ~ buf'[a].modified,
                      buf'[a].sector \notin suspect
               PROVE  buf'[a].data = disk'[buf'[a].sector]
    BY <1>2 DEF CleanIsOnDisk
  <2>1. disk \in [Sectors -> Values] /\ buf[b].sector \in Sectors
    BY <1>2 DEF StructInv, TypeOK, BufferType
  <2>2. CASE a = b
    BY <1>1, <1>2, <2>1, <2>2 DEF Released, SameSector, CleanIsOnDisk
  <2>3. CASE a # b
    <3>1. \A s \in Sectors : disk'[s] = disk[s] \/ (s = buf[b].sector /\ buf[b].valid)
      BY <1>1, <1>2, <2>1 DEF Released
    <3> QED BY <1>2, <2>3, <3>1, OthersStayOnDisk DEF Untouched
  <2> QED BY <2>2, <2>3
<1> QED BY <1>5, <1>6, <1>7, <1>8, <1>9, <1>10

\* FF_FlushCache unmarks what it wrote or doubts.
LEMMA FlushedContent ==
  ASSUME ContentInv, StructInv', FlushedOne
  PROVE  ContentInv'
<1> USE DEF ContentInv
<1> DEFINE b == next
<1>1. /\ b \in Buffers /\ Untouched(b) /\ SameSector(b) /\ buf[b].valid
      /\ buf[b].handles = 0 /\ next' = b + 1 /\ ~ buf'[b].modified
      /\ UNCHANGED <<pc, req, held, sem>> /\ buf'[b].data = buf[b].data
  BY DEF FlushedOne, clientVars
<1>2. EmptyIsClean' BY <1>1 DEF EmptyIsClean, Untouched, SameSector
<1>3. OnlyCached' BY <1>1 DEF OnlyCached, Untouched, SameSector
<1>4. IdleAsksNothing' BY <1>1 DEF IdleAsksNothing
<1>5. WriterHasMarked' BY <1>1, UserHoldsSector DEF WriterHasMarked, Using, Untouched
<1>6. FlushedSoFar' BY <1>1 DEF FlushedSoFar, Untouched, Buffers
<1>7. CleanIsOnDisk'
  <2> SUFFICES ASSUME NEW a \in Buffers, buf'[a].valid, ~ buf'[a].modified,
                      buf'[a].sector \notin suspect'
               PROVE  buf'[a].data = disk'[buf'[a].sector]
    BY DEF CleanIsOnDisk
  <2>1. disk \in [Sectors -> Values] /\ buf[b].sector \in Sectors
    BY <1>1 DEF StructInv, TypeOK, BufferType
  <2>2. suspect \subseteq suspect' BY DEF FlushedOne
  <2>3. CASE a = b
    BY <1>1, <2>1, <2>3 DEF FlushedOne, SameSector
  <2>4. CASE a # b
    <3>1. \A s \in Sectors : disk'[s] = disk[s] \/ (s = buf[b].sector /\ buf[b].valid)
      BY <1>1, <2>1 DEF FlushedOne
    <3> QED BY <1>1, <2>2, <2>4, <3>1, OthersStayOnDisk DEF Untouched
  <2> QED BY <2>3, <2>4
<1> QED BY <1>2, <1>3, <1>4, <1>5, <1>6, <1>7

\* A write past the cache meets no descriptor.
LEMMA DirectWriteContent ==
  ASSUME ContentInv, StructInv', Cached \cap Direct = {},
         NEW c \in Clients, NEW s \in Direct, NEW v \in Values, DirectWrite(c, s, v)
  PROVE  ContentInv'
<1> USE DEF ContentInv
<1>1. UNCHANGED <<buf, pc, req, held, sem, next, suspect>> BY DEF DirectWrite, clientVars
<1>2. \A t \in Sectors : t # s => disk'[t] = disk[t]
  BY DEF DirectWrite, WriteFails, StructInv, TypeOK
<1>3. CleanIsOnDisk'
  <2> SUFFICES ASSUME NEW a \in Buffers, buf[a].valid, ~ buf[a].modified,
                      buf[a].sector \notin suspect
               PROVE  buf[a].data = disk'[buf[a].sector]
    BY <1>1 DEF CleanIsOnDisk
  <2>1. buf[a].sector \in Cached /\ buf[a].sector \in Sectors BY DEF OnlyCached, Sectors
  <2> QED BY <1>2, <2>1 DEF CleanIsOnDisk
<1> QED BY <1>1, <1>3 DEF EmptyIsClean, OnlyCached, IdleAsksNothing, WriterHasMarked, FlushedSoFar

\* An empty cache has nothing to lose.
LEMMA EmptyContent ==
  ASSUME StructInv, buf = [b \in Buffers |-> EmptyBuffer], pc = [c \in Clients |-> "idle"],
         req = [c \in Clients |-> NoRequest], sem = Nobody
  PROVE  ContentInv
<1>1. \A b \in Buffers : /\ ~ buf[b].valid /\ ~ buf[b].modified /\ buf[b].mode = "NONE"
  BY DEF EmptyBuffer
<1> QED BY <1>1 DEF ContentInv, EmptyIsClean, OnlyCached, IdleAsksNothing,
           WriterHasMarked, FlushedSoFar, CleanIsOnDisk

\* A call of FF_GetBuffer asks for a sector of the cache.
LEMMA GetBufferContent ==
  ASSUME ContentInv, StructInv', NEW c \in Clients, NEW s \in Cached, NEW m \in Modes,
         GetBuffer(c, s, m)
  PROVE  ContentInv'
<1>1. /\ pc[c] = "idle" /\ pc' = [pc EXCEPT ![c] = "get"]
      /\ req' = [req EXCEPT ![c] = [sector |-> s, mode |-> m]]
      /\ UNCHANGED <<buf, disk, held, sem, next, suspect>>
  BY DEF GetBuffer
<1>2. /\ pc'[c] = "get" /\ req'[c].sector = s
      /\ \A d \in Clients \ {c} : pc'[d] = pc[d] /\ req'[d] = req[d]
  BY <1>1 DEF ContentInv, StructInv, TypeOK
<1>3. FlushedSoFar' BY <1>1 DEF ContentInv, FlushedSoFar
<1>4. \A d \in Clients : Using(d) => req'[d] = req[d] BY <1>1, <1>2 DEF Using
<1>5. \A d \in Clients : pc'[d] \in {"have", "cleared"} => pc'[d] = pc[d] BY <1>2
<1>6. \A d \in Clients :
        IF pc'[d] \in {"idle", "flush"} THEN req'[d] = NoRequest
        ELSE req'[d] = req[d] \/ req'[d].sector \in Cached
  BY <1>2 DEF ContentInv, IdleAsksNothing
<1>7. OnlyCached' BY <1>1, <1>2 DEF ContentInv, OnlyCached
<1>8. EmptyIsClean' /\ CleanIsOnDisk' BY <1>1 DEF ContentInv, EmptyIsClean, CleanIsOnDisk
<1>9. IdleAsksNothing' BY <1>6 DEF IdleAsksNothing
<1>10. WriterHasMarked' BY <1>1, <1>4, <1>5 DEF ContentInv, WriterHasMarked, Using
<1> QED BY <1>3, <1>7, <1>8, <1>9, <1>10 DEF ContentInv

\* A step that changes the place of a client outside FF_GetBuffer's grants.
LEMMA PlaceContent ==
  ASSUME ContentInv, StructInv', UNCHANGED <<buf, disk, suspect, held>>,
         \A c \in Clients :
           \/ pc'[c] = pc[c] /\ req'[c] = req[c]
           \/ /\ pc[c] \in {"get", "sleep", "blocked"}
              /\ pc'[c] \in {"get", "sleep", "blocked"} /\ req'[c] = req[c]
           \/ pc'[c] \in {"idle", "flush"} /\ req'[c] = NoRequest /\ ~ Using(c),
         FlushedSoFar'
  PROVE  ContentInv'
<1> USE DEF ContentInv
<1>1. EmptyIsClean' /\ CleanIsOnDisk' BY DEF EmptyIsClean, CleanIsOnDisk
<1>2. OnlyCached' BY DEF OnlyCached
<1>3. IdleAsksNothing' BY DEF IdleAsksNothing
<1>4. WriterHasMarked' BY DEF WriterHasMarked, Using
<1> QED BY <1>1, <1>2, <1>3, <1>4

\* A client goes to sleep.
LEMMA YieldContent ==
  ASSUME ContentInv, StructInv', NEW c \in Clients, Yield(c)
  PROVE  ContentInv'
<1>1. pc[c] = "get" /\ pc' = [pc EXCEPT ![c] = "sleep"]
      /\ UNCHANGED <<buf, disk, req, held, sem, next, suspect>>
  BY DEF Yield, Attempt
<1>2. FlushedSoFar' BY <1>1 DEF ContentInv, FlushedSoFar
<1> QED BY <1>1, <1>2, PlaceContent DEF ContentInv, StructInv, TypeOK

\* A client blocks or wakes up.
LEMMA WaitStepContent ==
  ASSUME ContentInv, StructInv', NEW c \in Clients, WaitStep(c)
  PROVE  ContentInv'
<1>1. /\ pc[c] \in {"sleep", "blocked"} /\ pc' \in {[pc EXCEPT ![c] = "get"], [pc EXCEPT ![c] = "blocked"]}
      /\ UNCHANGED <<buf, disk, req, held, sem, next, suspect>>
  BY DEF WaitStep, BufferWait, WaitTimeout
<1>2. FlushedSoFar' BY <1>1 DEF ContentInv, FlushedSoFar
<1> QED BY <1>1, <1>2, PlaceContent DEF ContentInv, StructInv, TypeOK

\* A client gives up.
LEMMA GiveUpContent ==
  ASSUME ContentInv, StructInv', NEW c \in Clients, GiveUp(c)
  PROVE  ContentInv'
<1>1. pc[c] = "get" /\ pc' = [pc EXCEPT ![c] = "idle"] /\ req' = [req EXCEPT ![c] = NoRequest]
      /\ UNCHANGED <<buf, disk, held, sem, next, suspect>>
  BY DEF GiveUp, ReturnNull
<1>2. FlushedSoFar' BY <1>1 DEF ContentInv, FlushedSoFar
<1> QED BY <1>1, <1>2, PlaceContent DEF ContentInv, StructInv, TypeOK, Using

\* FF_FlushCache begins with the first descriptor.
LEMMA FlushBeginContent ==
  ASSUME ContentInv, StructInv', NEW c \in Clients, FlushBegin(c)
  PROVE  ContentInv'
<1>1. pc[c] = "idle" /\ pc' = [pc EXCEPT ![c] = "flush"] /\ next' = 1
      /\ UNCHANGED <<buf, disk, req, held, suspect>>
  BY DEF FlushBegin
<1>2. FlushedSoFar' BY <1>1 DEF FlushedSoFar, Buffers
<1>3. req[c] = NoRequest BY <1>1 DEF ContentInv, IdleAsksNothing
<1> QED BY <1>1, <1>2, <1>3, PlaceContent DEF ContentInv, StructInv, TypeOK, Using

\* FF_FlushCache gives the semaphore back.
LEMMA FlushEndContent ==
  ASSUME ContentInv, StructInv', NEW c \in Clients, FlushEnd(c)
  PROVE  ContentInv'
<1>1. sem = c /\ pc' = [pc EXCEPT ![c] = "idle"] /\ sem' = Nobody
      /\ UNCHANGED <<buf, disk, req, held, suspect>>
  BY DEF FlushEnd
<1>2. FlushedSoFar' BY <1>1 DEF FlushedSoFar
<1>3. pc[c] = "flush" BY <1>1 DEF ContentInv, StructInv, SemaphoreOwner
<1>4. req[c] = NoRequest BY <1>3 DEF ContentInv, IdleAsksNothing
<1> QED BY <1>1, <1>2, <1>3, <1>4, PlaceContent DEF ContentInv, StructInv, TypeOK, Using

\* FF_FlushCache flushes one descriptor, or passes by one that is held or clean.
LEMMA FlushBufferContent ==
  ASSUME ContentInv, StructInv', NEW c \in Clients, FlushBuffer(c)
  PROVE  ContentInv'
<1>1. CASE FlushedOne BY <1>1, FlushedContent
<1>2. CASE /\ next \in Buffers /\ (buf[next].handles # 0 \/ ~ buf[next].modified)
           /\ next' = next + 1
           /\ UNCHANGED <<buf, disk, suspect, clientVars, sem, bufBit>>
  <2>1. FlushedSoFar' BY <1>2 DEF ContentInv, FlushedSoFar, Buffers
  <2> QED BY <1>2, <2>1, PlaceContent DEF clientVars
<1> QED BY <1>1, <1>2, FlushBufferIsFlushed DEF ContentInv

\* The sectors that are accessed with FF_BlockRead and FF_BlockWrite alone are not
\* asked for through FF_GetBuffer.
Separate == Cached \cap Direct = {}

\* FF_CreateIOManager leaves an empty cache.
LEMMA InitContent == Init => ContentInv
BY InitStruct, EmptyContent DEF Init

\* So does a restart.
LEMMA PowerLossContent ==
  ASSUME ContentInv, StructInv', PowerLoss
  PROVE  ContentInv'
<1>1. \A b \in Buffers : buf'[b] = EmptyBuffer BY DEF PowerLoss
<1>2. \A b \in Buffers : /\ ~ buf'[b].valid /\ ~ buf'[b].modified /\ buf'[b].mode = "NONE"
  BY <1>1 DEF EmptyBuffer
<1>3. \A c \in Clients : pc'[c] = "idle" /\ req'[c] = NoRequest BY DEF PowerLoss
<1>4. sem' = Nobody BY DEF PowerLoss
<1> QED BY <1>2, <1>3, <1>4 DEF ContentInv, EmptyIsClean, OnlyCached, IdleAsksNothing,
           WriterHasMarked, FlushedSoFar, CleanIsOnDisk

\* Every step preserves the invariant.
LEMMA ContentStep == Separate /\ ContentInv /\ [Next]_vars => ContentInv'
<1> SUFFICES ASSUME Separate, ContentInv, [Next]_vars PROVE ContentInv' OBVIOUS
<1>0. StructInv /\ StructInv' BY StructStep DEF ContentInv
<1>1. ASSUME NEW c \in Clients, NEW s \in Cached, NEW m \in Asked, GetBuffer(c, s, m)
      PROVE ContentInv'
  BY <1>0, <1>1, GetBufferContent, CacheAssumption DEF CacheAssumption
<1>2. ASSUME NEW c \in Clients, GetStep(c) PROVE ContentInv'
  <2>1. CASE HitShared(c) BY <1>0, <2>1, HitSharedIsHit, HitContent
  <2>2. CASE HitFree(c) BY <1>0, <2>2, HitFreeIsHit, HitContent
  <2>3. CASE Yield(c) BY <1>0, <2>3, YieldContent
  <2>4. CASE GiveUp(c) BY <1>0, <2>4, GiveUpContent
  <2>5. ASSUME NEW b \in Buffers, EvictFails(c, b) PROVE ContentInv'
    BY <1>0, <2>5, EvictFailsIsRefused, RefusedContent
  <2>6. ASSUME NEW b \in Buffers, FetchFails(c, b) PROVE ContentInv'
    BY <1>0, <2>6, FetchFailsIsRefused, RefusedContent
  <2>7. ASSUME NEW b \in Buffers, Install(c, b) PROVE ContentInv'
    BY <1>0, <2>7, InstallIsReplaced, ReplacedContent
  <2> QED BY <1>2, <2>1, <2>2, <2>3, <2>4, <2>5, <2>6, <2>7 DEF GetStep
<1>3. ASSUME NEW c \in Clients, WaitStep(c) PROVE ContentInv' BY <1>0, <1>3, WaitStepContent
<1>4. ASSUME NEW c \in Clients, NEW v \in Values, Modify(c, v) PROVE ContentInv'
  BY <1>0, <1>4, ModifyContent
<1>5. ASSUME NEW c \in Clients, ClearSector(c) PROVE ContentInv'
  BY <1>0, <1>5, ClearSectorContent
<1>6. ASSUME NEW c \in Clients, ReleaseBuffer(c) PROVE ContentInv'
  BY <1>0, <1>6, ReleaseBufferContent
<1>7. ASSUME NEW c \in Clients, FlushBegin(c) PROVE ContentInv'
  BY <1>0, <1>7, FlushBeginContent
<1>8. ASSUME NEW c \in Clients, FlushStep(c) PROVE ContentInv'
  BY <1>0, <1>8, FlushBufferContent, FlushEndContent DEF FlushStep
<1>9. ASSUME NEW c \in Clients, NEW s \in Direct, NEW v \in Values, DirectWrite(c, s, v)
      PROVE ContentInv'
  BY <1>0, <1>9, DirectWriteContent DEF Separate
<1>10. CASE PowerLoss BY <1>0, <1>10, PowerLossContent
<1>11. CASE UNCHANGED vars
  <2>1. FlushedSoFar' BY <1>11 DEF ContentInv, FlushedSoFar, vars
  <2> QED BY <1>0, <1>11, <2>1, PlaceContent DEF vars
<1> QED BY <1>1, <1>2, <1>3, <1>4, <1>5, <1>6, <1>7, <1>8, <1>9, <1>10, <1>11 DEF Next

\* The inductive invariant holds when direct and cached sectors do not mix.
THEOREM ContentsHold ==
  ASSUME Separate
  PROVE  Spec => []ContentInv
BY InitContent, ContentStep, PTL DEF Spec

\* A descriptor that is not marked modified has what is on disk, so FF_GetBuffer may
\* take it for another sector without writing it (CleanIsOnDisk).
THEOREM CleanBuffersAreOnDisk ==
  ASSUME Separate
  PROVE  Spec => []CleanIsOnDisk
BY ContentsHold, PTL DEF ContentInv

-----------------------------------------------------------------------------
(* A reader is not disturbed.                                               *)

\* The contents of the buffer a reader has stay as they are.
Undisturbed(c) ==
  Using(c) /\ req[c].mode = "READ" /\ Using(c)'
    => held'[c] = held[c] /\ buf'[held[c]].data = buf[held[c]].data

\* A step that changes no memory disturbs nobody.
LEMMA SameDataUndisturbed ==
  ASSUME StructInv, NEW c \in Clients, held'[c] = held[c],
         \A b \in Buffers : buf'[b].data = buf[b].data
  PROVE  Undisturbed(c)
BY UserHoldsSector DEF Undisturbed

\* A hit changes no memory.
LEMMA HitUndisturbed ==
  ASSUME StructInv, NEW c \in Clients, NEW d \in Clients, NEW b \in Buffers, Hit(d, b)
  PROVE  Undisturbed(c)
<1>1. \A a \in Buffers : buf'[a].data = buf[a].data BY DEF Hit, Untouched
<1>2. CASE c = d BY <1>2 DEF Hit, Undisturbed, Using
<1>3. CASE c # d
  <2>1. held'[c] = held[c] BY <1>3 DEF Hit, Granted, StructInv, TypeOK
  <2> QED BY <1>1, <2>1, SameDataUndisturbed
<1> QED BY <1>2, <1>3

\* A victim that is not held is not the buffer of a reader.
LEMMA VictimUndisturbed ==
  ASSUME StructInv, NEW c \in Clients, NEW d \in Clients, NEW b \in Buffers,
         Refused(d, b) \/ Replaced(d, b)
  PROVE  Undisturbed(c)
<1>1. pc[d] = "get" /\ buf[b].handles = 0 /\ Untouched(b)
      /\ (held' = held \/ held' = [held EXCEPT ![d] = b])
  BY DEF Refused, Replaced, ReturnNull, Granted
<1>2. CASE c = d BY <1>1, <1>2 DEF Undisturbed, Using
<1>3. CASE c # d
  <2> SUFFICES ASSUME Using(c) PROVE held'[c] = held[c] /\ buf'[held[c]] = buf[held[c]]
    BY DEF Undisturbed
  <2>1. held'[c] = held[c] BY <1>1, <1>3 DEF StructInv, TypeOK
  <2>2. held[c] \in Buffers /\ held[c] # b BY <1>1, UserHoldsSector
  <2> QED BY <1>1, <2>1, <2>2 DEF Untouched
<1> QED BY <1>2, <1>3

\* A writer has another buffer than any reader.
LEMMA WrittenUndisturbed ==
  ASSUME StructInv, NEW c \in Clients, NEW d \in Clients, NEW v, Written(d, v)
  PROVE  Undisturbed(c)
<1>1. Using(d) /\ req[d].mode # "READ" /\ Untouched(held[d]) /\ held' = held
  BY DEF Written
<1>2. CASE c = d BY <1>1, <1>2 DEF Undisturbed
<1>3. CASE c # d
  <2> SUFFICES ASSUME Using(c) PROVE buf'[held[c]] = buf[held[c]]
    BY <1>1 DEF Undisturbed
  <2>1. held[c] \in Buffers /\ held[c] # held[d] BY <1>1, <1>3, WriterIsAlone, UserHoldsSector
  <2> QED BY <1>1, <2>1 DEF Untouched
<1> QED BY <1>2, <1>3

\* FF_ReleaseBuffer changes no memory.
LEMMA ReleasedUndisturbed ==
  ASSUME StructInv, NEW c \in Clients, NEW d \in Clients, Released(d)
  PROVE  Undisturbed(c)
<1>1. \A a \in Buffers : buf'[a].data = buf[a].data BY DEF Released, Untouched
<1>2. Proceed(d) /\ held' = [held EXCEPT ![d] = NoBuffer] BY DEF Released
<1>3. CASE c = d BY <1>2, <1>3 DEF Undisturbed, Using, Proceed
<1>4. CASE c # d
  <2>1. held'[c] = held[c] BY <1>2, <1>4 DEF StructInv, TypeOK
  <2> QED BY <1>1, <2>1, SameDataUndisturbed
<1> QED BY <1>3, <1>4

\* FF_FlushCache changes no memory.
LEMMA FlushUndisturbed ==
  ASSUME StructInv, NEW c \in Clients, NEW d \in Clients, FlushBuffer(d)
  PROVE  Undisturbed(c)
<1>1. held' = held BY DEF FlushBuffer, clientVars
<1>2. \A a \in Buffers : buf'[a].data = buf[a].data
  <2> SUFFICES ASSUME NEW a \in Buffers PROVE buf'[a].data = buf[a].data OBVIOUS
  <2>1. CASE buf' = Flushed(next)
    <3>1. buf[a] \in BufferType BY DEF StructInv, TypeOK
    <3>2. CASE a = next
      <4>1. buf'[a] = [buf[a] EXCEPT !.mode = "READ", !.modified = FALSE]
        BY <2>1, <3>2 DEF Flushed
      <4> QED BY <3>1, <4>1 DEF BufferType
    <3>3. CASE a # next
      <4> DEFINE m == buf[a].modified
                        \/ (buf[a].sector = buf[next].sector /\ buf[a].mode = "READ")
      <4>1. buf'[a] = [buf[a] EXCEPT !.modified = m] BY <2>1, <3>3 DEF Flushed
      <4> HIDE DEF m
      <4> QED BY <3>1, <4>1 DEF BufferType
    <3> QED BY <3>2, <3>3
  <2>2. CASE UNCHANGED buf BY <2>2
  <2> QED BY <2>1, <2>2 DEF FlushBuffer
<1> QED BY <1>1, <1>2, SameDataUndisturbed

\* No step disturbs a reader.
LEMMA ReaderStep == StructInv /\ [Next]_vars => \A c \in Clients : Undisturbed(c)
<1> SUFFICES ASSUME StructInv, [Next]_vars, NEW c \in Clients PROVE Undisturbed(c)
  OBVIOUS
<1>1. ASSUME UNCHANGED <<buf, held>> PROVE Undisturbed(c) BY <1>1, SameDataUndisturbed
<1>2. ASSUME NEW d \in Clients, GetStep(d) PROVE Undisturbed(c)
  <2>1. CASE HitShared(d) BY <2>1, HitSharedIsHit, HitUndisturbed
  <2>2. CASE HitFree(d) BY <2>2, HitFreeIsHit, HitUndisturbed
  <2>3. CASE Yield(d) \/ GiveUp(d) BY <1>1, <2>3 DEF Yield, GiveUp, ReturnNull
  <2>4. ASSUME NEW b \in Buffers, EvictFails(d, b) \/ FetchFails(d, b) PROVE Undisturbed(c)
    BY <2>4, EvictFailsIsRefused, FetchFailsIsRefused, VictimUndisturbed
  <2>5. ASSUME NEW b \in Buffers, Install(d, b) PROVE Undisturbed(c)
    BY <2>5, InstallIsReplaced, VictimUndisturbed
  <2> QED BY <1>2, <2>1, <2>2, <2>3, <2>4, <2>5 DEF GetStep
<1>3. ASSUME NEW d \in Clients, NEW v \in Values, Modify(d, v) PROVE Undisturbed(c)
  BY <1>3, ModifyIsWritten, WrittenUndisturbed
<1>4. ASSUME NEW d \in Clients, ClearSector(d) PROVE Undisturbed(c)
  BY <1>4, ClearSectorIsWritten, WrittenUndisturbed
<1>5. ASSUME NEW d \in Clients, ReleaseBuffer(d) PROVE Undisturbed(c)
  BY <1>5, ReleaseBufferIsReleased, ReleasedUndisturbed
<1>6. ASSUME NEW d \in Clients, FlushBuffer(d) PROVE Undisturbed(c) BY <1>6, FlushUndisturbed
<1>7. CASE PowerLoss BY <1>7 DEF PowerLoss, Undisturbed, Using
<1>8. ASSUME NEW d \in Clients,
             \/ \E s \in Cached, m \in Asked : GetBuffer(d, s, m)
             \/ WaitStep(d) \/ FlushBegin(d) \/ FlushEnd(d)
             \/ \E s \in Direct, v \in Values : DirectWrite(d, s, v)
      PROVE  Undisturbed(c)
  BY <1>1, <1>8
  DEF GetBuffer, WaitStep, BufferWait, WaitTimeout, FlushBegin, FlushEnd, DirectWrite, clientVars
<1>9. CASE UNCHANGED vars BY <1>1, <1>9 DEF vars
<1> QED BY <1>2, <1>3, <1>4, <1>5, <1>6, <1>7, <1>8, <1>9 DEF Next, FlushStep

\* A reader's view of its sector does not change under it, whatever the other tasks, the
\* flush and the driver do (ReaderIsUndisturbed).
THEOREM ReadersAreUndisturbed == Spec => ReaderIsUndisturbed
<1>1. StructInv /\ [Next]_vars => [\A c \in Clients : Using(c) /\ req[c].mode = "READ" /\ Using(c)'
         => held'[c] = held[c] /\ buf'[held[c]].data = buf[held[c]].data]_vars
  BY ReaderStep DEF Undisturbed
<1> QED BY <1>1, StructureHolds, PTL DEF Spec, ReaderIsUndisturbed

-----------------------------------------------------------------------------
(* FF_FlushCache makes durable what nobody holds.                           *)

\* A descriptor whose sector nobody uses has no handles.
LEMMA UnusedHasNoHandle ==
  ASSUME StructInv, NEW b \in Buffers, buf[b].valid, Unused(buf[b].sector)
  PROVE  buf[b].handles = 0
<1>1. Holders(b) = {}
  <2> SUFFICES ASSUME NEW c \in Clients, held[c] = b PROVE FALSE BY DEF Holders
  <2>1. Using(c) BY CacheAssumption DEF CacheAssumption, StructInv, HandlesMatchHolders
  <2>2. buf[b].sector = req[c].sector BY <2>1, UserHoldsSector
  <2> QED BY <2>1, <2>2 DEF Unused
<1> QED BY <1>1, FS_EmptySet DEF StructInv, HandlesMatchHolders

\* What a descriptor would show for a sector.
LEMMA ContentIsShown ==
  ASSUME StructInv, NEW s \in Sectors
  PROVE  \/ Match(s) = {} /\ Content(s) = disk[s]
         \/ \E b \in Buffers : buf[b].valid /\ buf[b].sector = s /\ Content(s) = buf[b].data
BY DEF Content, Match

\* When the loop is over every descriptor nobody holds is clean.
LEMMA FlushDone ==
  ASSUME ContentInv, NEW c \in Clients, FlushEnd(c), NEW s \in Sectors, Unused(s)
  PROVE  OnDisk(s) \/ s \in suspect
<1> USE DEF ContentInv
<1>1. CASE Content(s) = disk[s] BY <1>1 DEF OnDisk
<1>2. ASSUME NEW b \in Buffers, buf[b].valid, buf[b].sector = s, Content(s) = buf[b].data
      PROVE  OnDisk(s) \/ s \in suspect
  <2>1. buf[b].handles = 0 BY <1>2, UnusedHasNoHandle
  <2>2. b < next BY CacheAssumption DEF CacheAssumption, FlushEnd, Buffers
  <2>3. sem # Nobody BY CacheAssumption DEF CacheAssumption, FlushEnd
  <2>4. ~ buf[b].modified BY <2>1, <2>2, <2>3 DEF FlushedSoFar
  <2> QED BY <1>2, <2>4 DEF CleanIsOnDisk, OnDisk
<1> QED BY <1>1, <1>2, ContentIsShown

\* When FF_FlushCache returns, every sector nobody holds is on disk, unless the driver
\* failed on it (FlushMakesDurable).
THEOREM FlushIsDurable ==
  ASSUME Separate
  PROVE  Spec => FlushMakesDurable
<1>1. ContentInv /\ [Next]_vars =>
        [\A c \in Clients : FlushEnd(c) =>
           \A s \in Sectors : Unused(s) => OnDisk(s) \/ s \in suspect]_vars
  BY FlushDone
<1> QED BY <1>1, ContentsHold, PTL DEF Spec, FlushMakesDurable

-----------------------------------------------------------------------------
(* With write-through, FF_ReleaseBuffer makes durable what nobody holds.    *)

\* A descriptor that is not held has been written.
WrittenThrough ==
  WriteThrough => \A b \in Buffers :
    buf[b].handles = 0 /\ buf[b].sector \in Partition => ~ buf[b].modified

\* Only a driver error puts a sector of the partition in doubt.
NoDoubt == suspect \cap Partition = {}

DurableInv == ContentInv /\ WrittenThrough /\ NoDoubt

\* FF_GetBuffer marks a buffer only for whoever it gives it to.
LEMMA VictimWrittenThrough ==
  ASSUME StructInv, WrittenThrough, NEW c \in Clients, NEW b \in Buffers,
         Hit(c, b) \/ Refused(c, b) \/ Replaced(c, b)
  PROVE  WrittenThrough'
BY DEF WrittenThrough, Hit, Refused, Replaced, Untouched, SameSector

\* A buffer that is written is held.
LEMMA UserWrittenThrough ==
  ASSUME StructInv, WrittenThrough, NEW c \in Clients, NEW v, Written(c, v)
  PROVE  WrittenThrough'
<1>1. Using(c) BY DEF Written
<1> QED BY <1>1, UserHoldsSector DEF WrittenThrough, Written, Untouched

\* The last handle of a marked buffer goes with a write.
LEMMA ReleasedWrittenThrough ==
  ASSUME StructInv, WrittenThrough, ~ DriverFails, NEW c \in Clients, Released(c)
  PROVE  WrittenThrough'
BY DEF WrittenThrough, Released, Untouched, SameSector

\* FF_FlushCache marks nothing.
LEMMA FlushWrittenThrough ==
  ASSUME ContentInv, WrittenThrough, NEW c \in Clients, FlushBuffer(c)
  PROVE  WrittenThrough'
<1>1. FlushedOne \/ UNCHANGED buf BY FlushBufferIsFlushed DEF ContentInv
<1> QED BY <1>1 DEF WrittenThrough, FlushedOne, Untouched

\* Every step preserves that invariant.
LEMMA DurableStep ==
  ASSUME Separate, ~ DriverFails, DurableInv, [Next]_vars
  PROVE  DurableInv'
<1> USE DEF DurableInv
<1>0. StructInv /\ ContentInv' BY ContentStep DEF ContentInv
<1> DEFINE Goal == WrittenThrough' /\ NoDoubt'
<1>1. ASSUME UNCHANGED <<buf, suspect>> PROVE Goal BY <1>1 DEF WrittenThrough, NoDoubt
<1>2. ASSUME NEW c \in Clients, GetStep(c) PROVE Goal
  <2>1. WrittenThrough'
    <3>1. CASE HitShared(c) BY <1>0, <3>1, HitSharedIsHit, VictimWrittenThrough
    <3>2. CASE HitFree(c) BY <1>0, <3>2, HitFreeIsHit, VictimWrittenThrough
    <3>3. CASE Yield(c) \/ GiveUp(c) BY <3>3 DEF Yield, GiveUp, WrittenThrough
    <3>4. ASSUME NEW b \in Buffers, EvictFails(c, b) PROVE WrittenThrough'
      BY <1>0, <3>4, EvictFailsIsRefused, VictimWrittenThrough
    <3>5. ASSUME NEW b \in Buffers, FetchFails(c, b) PROVE WrittenThrough'
      BY <1>0, <3>5, FetchFailsIsRefused, VictimWrittenThrough
    <3>6. ASSUME NEW b \in Buffers, Install(c, b) PROVE WrittenThrough'
      BY <1>0, <3>6, InstallIsReplaced, VictimWrittenThrough
    <3> QED BY <1>2, <3>1, <3>2, <3>3, <3>4, <3>5, <3>6 DEF GetStep
  <2>2. suspect' = suspect
    BY <1>2 DEF GetStep, HitShared, HitFree, Yield, GiveUp, EvictFails, FetchFails, ReadFails,
                Install
  <2> QED BY <2>1, <2>2 DEF NoDoubt
<1>3. ASSUME NEW c \in Clients, NEW v \in Values, Modify(c, v) PROVE Goal
  BY <1>0, <1>3, ModifyIsWritten, UserWrittenThrough DEF NoDoubt
<1>4. ASSUME NEW c \in Clients, ClearSector(c) PROVE Goal
  <2>1. WrittenThrough' BY <1>0, <1>4, ClearSectorIsWritten, UserWrittenThrough
  <2>2. \/ suspect' = suspect
        \/ suspect' = suspect \cup {req[c].sector} /\ req[c].sector \notin Partition
    BY <1>4 DEF ClearSector, WriteFails
  <2> QED BY <2>1, <2>2 DEF NoDoubt
<1>5. ASSUME NEW c \in Clients, ReleaseBuffer(c) PROVE Goal
  <2>1. Released(c) BY <1>0, <1>5, ReleaseBufferIsReleased
  <2>2. suspect' = suspect BY <2>1 DEF Released
  <2> QED BY <1>0, <2>1, <2>2, ReleasedWrittenThrough DEF NoDoubt
<1>6. ASSUME NEW c \in Clients, FlushBuffer(c) PROVE Goal
  <2>1. \/ suspect' = suspect
        \/ suspect' = suspect \cup {buf[next].sector} /\ buf[next].sector \notin Partition
    BY <1>6 DEF FlushBuffer, WriteFails
  <2> QED BY <1>6, <2>1, FlushWrittenThrough DEF NoDoubt
<1>7. ASSUME PowerLoss PROVE Goal
  <2>1. \A b \in Buffers : buf'[b] = EmptyBuffer BY <1>7 DEF PowerLoss
  <2> QED BY <1>7, <2>1 DEF PowerLoss, EmptyBuffer, WrittenThrough, NoDoubt
<1>8. ASSUME NEW c \in Clients,
             \/ \E s \in Cached, m \in Asked : GetBuffer(c, s, m)
             \/ WaitStep(c) \/ FlushBegin(c) \/ FlushEnd(c)
             \/ \E s \in Direct, v \in Values : DirectWrite(c, s, v)
      PROVE  Goal
  BY <1>1, <1>8
  DEF GetBuffer, WaitStep, BufferWait, WaitTimeout, FlushBegin, FlushEnd, DirectWrite
<1>9. ASSUME UNCHANGED vars PROVE Goal BY <1>1, <1>9 DEF vars
<1> QED BY <1>0, <1>2, <1>3, <1>4, <1>5, <1>6, <1>7, <1>8, <1>9 DEF Next, FlushStep

\* It makes released sectors durable.
LEMMA DurableReleases ==
  ASSUME DurableInv
  PROVE  ReleasedIsDurable
<1> USE DEF DurableInv, ContentInv
<1> SUFFICES ASSUME WriteThrough, NEW s \in Sectors \cap Partition, Unused(s)
             PROVE  OnDisk(s)
  BY DEF ReleasedIsDurable
<1>1. ASSUME NEW b \in Buffers, buf[b].valid, buf[b].sector = s, Content(s) = buf[b].data
      PROVE  OnDisk(s)
  <2>1. buf[b].handles = 0 BY <1>1, UnusedHasNoHandle
  <2>2. ~ buf[b].modified BY <1>1, <2>1 DEF WrittenThrough
  <2> QED BY <1>1, <2>2 DEF CleanIsOnDisk, OnDisk, NoDoubt
<1> QED BY <1>1, ContentIsShown DEF OnDisk

\* It holds of an empty cache.
LEMMA InitDurable == Init => DurableInv
<1> SUFFICES ASSUME Init PROVE DurableInv OBVIOUS
<1>1. ContentInv BY InitContent
<1>2. \A b \in Buffers : ~ buf[b].modified BY DEF Init, EmptyBuffer
<1> QED BY <1>1, <1>2 DEF DurableInv, WrittenThrough, NoDoubt, Init

\* With ffconfigCACHE_WRITE_THROUGH and a driver that does not fail, a power failure loses
\* nothing that FF_ReleaseBuffer was given (ReleasedIsDurable).
THEOREM WriteThroughIsDurable ==
  ASSUME Separate, ~ DriverFails
  PROVE  Spec => []ReleasedIsDurable
<1>1. DurableInv /\ [Next]_vars => DurableInv' BY DurableStep
<1> QED BY <1>1, InitDurable, DurableReleases, PTL DEF Spec

-----------------------------------------------------------------------------
(* The cache implements FFSectorStore.                                      *)

\* The contents a reader would be shown; what a client is doing.
Contents == [s \in Sectors |-> Content(s)]

At(c) ==
  IF Using(c) THEN "using" ELSE IF pc[c] \in {"idle", "flush"} THEN "idle" ELSE "asking"

\* The fields of a user.
LEMMA UserIs ==
  ASSUME NEW c \in Clients
  PROVE  /\ Users[c].at = At(c) /\ Users[c].sector = req[c].sector /\ Users[c].mode = req[c].mode
         /\ Users[c] = [at |-> At(c), sector |-> req[c].sector, mode |-> req[c].mode]
BY DEF Users, At

\* A client is seen to change when its place or its request does.
LEMMA OtherUsersStay ==
  ASSUME NEW d \in Clients, req'[d] = req[d], At(d)' = At(d)
  PROVE  Users'[d] = Users[d]
BY DEF Users, At

\* No client is seen to change.
LEMMA UsersStay ==
  ASSUME \A d \in Clients : req'[d] = req[d] /\ At(d)' = At(d)
  PROVE  Users' = Users
BY DEF Users, At

\* One client is seen to change.
LEMMA OneUserChanges ==
  ASSUME NEW c \in Clients,
         \A d \in Clients \ {c} : req'[d] = req[d] /\ At(d)' = At(d)
  PROVE  Users' = [Users EXCEPT ![c] =
           [at |-> At(c)', sector |-> req'[c].sector, mode |-> req'[c].mode]]
BY DEF Users, At

\* A sector is shown as the descriptor that has it, or else as the disk.
LEMMA DescriptorIsShown ==
  ASSUME StructInv, NEW b \in Buffers, buf[b].valid, NEW s, buf[b].sector = s
  PROVE  Content(s) = buf[b].data
<1>1. b \in Match(s) BY DEF Match
<1>2. \A a \in Match(s) : a = b BY DEF Match, StructInv, OneBufferPerSector
<1> QED BY <1>1, <1>2 DEF Content

\* The same after a step.
LEMMA DescriptorIsShownNext ==
  ASSUME StructInv', NEW b \in Buffers, buf'[b].valid, NEW s, buf'[b].sector = s
  PROVE  Content(s)' = buf'[b].data
<1>1. b \in Match(s)' BY DEF Match
<1>2. \A a \in Match(s)' : a = b BY DEF Match, StructInv, OneBufferPerSector
<1> QED BY <1>1, <1>2 DEF Content

\* A sector no descriptor has is shown as the disk has it.
LEMMA DiskIsShown ==
  ASSUME NEW s \in Sectors, \A b \in Buffers : ~ (buf[b].valid /\ buf[b].sector = s)
  PROVE  Content(s) = disk[s]
BY DEF Content, Match

\* The same after a step.
LEMMA DiskIsShownNext ==
  ASSUME NEW s \in Sectors, \A b \in Buffers : ~ (buf'[b].valid /\ buf'[b].sector = s)
  PROVE  Content(s)' = disk'[s]
BY DEF Content, Match

\* What is shown is the contents of a sector.
LEMMA ContentType == StructInv => Contents \in [Sectors -> Values]
<1> SUFFICES ASSUME StructInv, NEW s \in Sectors PROVE Content(s) \in Values BY DEF Contents
<1> QED BY ContentIsShown DEF StructInv, TypeOK, BufferType

\* The same after a step.
LEMMA ContentTypeNext ==
  ASSUME StructInv'
  PROVE  Contents' \in [Sectors -> Values]
<1> SUFFICES ASSUME NEW s \in Sectors PROVE Content(s)' \in Values BY DEF Contents
<1>1. \/ Content(s)' = disk'[s]
      \/ \E b \in Buffers : Content(s)' = buf'[b].data
  BY DEF Content, Match
<1> QED BY <1>1 DEF StructInv, TypeOK, BufferType

\* What is shown for a sector that descriptor b neither had nor has does not change
\* with it.
LEMMA ContentFrame ==
  ASSUME StructInv, StructInv', NEW b \in Buffers, Untouched(b), NEW s \in Sectors,
         ~ (buf[b].valid /\ buf[b].sector = s), ~ (buf'[b].valid /\ buf'[b].sector = s),
         disk'[s] = disk[s]
  PROVE  Content(s)' = Content(s)
<1>1. CASE \E a \in Buffers : buf[a].valid /\ buf[a].sector = s
  <2>1. PICK a \in Buffers : buf[a].valid /\ buf[a].sector = s BY <1>1
  <2>2. buf'[a] = buf[a] BY <2>1 DEF Untouched
  <2> QED BY <2>1, <2>2, DescriptorIsShown, DescriptorIsShownNext
<1>2. CASE \A a \in Buffers : ~ (buf[a].valid /\ buf[a].sector = s)
  <2>1. \A a \in Buffers : ~ (buf'[a].valid /\ buf'[a].sector = s) BY <1>2 DEF Untouched
  <2> QED BY <1>2, <2>1, DiskIsShown, DiskIsShownNext
<1> QED BY <1>1, <1>2

\* The sector of a descriptor nobody holds is in no use; a used one is cached.
LEMMA UnheldIsFree ==
  ASSUME StructInv, NEW b \in Buffers, buf[b].valid, buf[b].handles = 0
  PROVE  Store!Free(buf[b].sector)
<1> SUFFICES ASSUME NEW c \in Clients, Using(c), req[c].sector = buf[b].sector PROVE FALSE
  BY UserIs DEF Store!Free, Store!Users, At
<1>1. held[c] = b BY UserHoldsSector DEF StructInv, OneBufferPerSector
<1> QED BY <1>1, UserHoldsSector

\* A sector that no descriptor has is in no use.
LEMMA UncachedIsFree ==
  ASSUME StructInv, NEW s \in Sectors, \A b \in Buffers : ~ (buf[b].valid /\ buf[b].sector = s)
  PROVE  Store!Free(s)
<1> SUFFICES ASSUME NEW c \in Clients, Using(c), req[c].sector = s PROVE FALSE
  BY UserIs DEF Store!Free, Store!Users, At
<1> QED BY UserHoldsSector

\* The users of a sector, in terms of the cache.
LEMMA StoreUsers ==
  ASSUME NEW s
  PROVE  Store!Users(s) = {c \in Clients : Using(c) /\ req[c].sector = s}
BY UserIs DEF Store!Users, At

\* A step that changes neither contents nor users is not seen.
Unseen == UNCHANGED <<Contents, disk, Users, suspect>>

\* Contents depend on the descriptors and the disk.
LEMMA SameContents ==
  ASSUME UNCHANGED <<buf, disk>>
  PROVE  Contents' = Contents
BY DEF Contents, Content, Match

\* Contents that are the same for every sector are the same.
LEMMA ContentsStay ==
  ASSUME \A s \in Sectors : Content(s)' = Content(s)
  PROVE  Contents' = Contents
BY DEF Contents

\* GetBuffer is Ask.
LEMMA AskIsImplemented ==
  ASSUME StructInv, NEW c \in Clients, NEW s \in Cached, NEW m \in Modes, GetBuffer(c, s, m)
  PROVE  Store!Ask(c, s, m)
<1>1. /\ pc[c] = "idle" /\ pc' = [pc EXCEPT ![c] = "get"]
      /\ req' = [req EXCEPT ![c] = [sector |-> s, mode |-> m]]
      /\ UNCHANGED <<buf, disk, suspect>>
  BY DEF GetBuffer
<1>2. Contents' = Contents BY <1>1, SameContents
<1>3. /\ At(c) = "idle" /\ At(c)' = "asking" /\ req'[c].sector = s /\ req'[c].mode = m
      /\ \A d \in Clients \ {c} : req'[d] = req[d] /\ At(d)' = At(d)
  BY <1>1 DEF At, Using, StructInv, TypeOK
<1>4. Users' = [Users EXCEPT ![c] = [at |-> "asking", sector |-> s, mode |-> m]]
  BY <1>3, OneUserChanges
<1> QED BY <1>1, <1>2, <1>3, <1>4, UserIs DEF Store!Ask, Contents

\* A buffer is granted: the user of sector s is c from now on.
LEMMA GrantedUser ==
  ASSUME StructInv, NEW c \in Clients, NEW b \in Buffers, pc[c] = "get", Granted(c, b)
  PROVE  /\ Users[c].at = "asking" /\ Users' = [Users EXCEPT ![c].at = "using"]
         /\ Users[c].sector = req[c].sector /\ Users[c].mode = req[c].mode
<1>1. pc' = [pc EXCEPT ![c] = "have"] /\ req' = req BY DEF Granted
<1>2. /\ At(c) = "asking" /\ At(c)' = "using"
      /\ \A d \in Clients \ {c} : req'[d] = req[d] /\ At(d)' = At(d)
  BY <1>1 DEF At, Using, StructInv, TypeOK
<1>3. Users' = [Users EXCEPT ![c] =
        [at |-> "using", sector |-> req[c].sector, mode |-> req[c].mode]]
  BY <1>1, <1>2, OneUserChanges
<1>4. Users[c] = [at |-> "asking", sector |-> req[c].sector, mode |-> req[c].mode]
  BY <1>2, UserIs
<1>5. [Users[c] EXCEPT !.at = "using"] =
        [at |-> "using", sector |-> req[c].sector, mode |-> req[c].mode]
  BY <1>4
<1>6. Users' = [Users EXCEPT ![c].at = "using"] BY <1>3, <1>5
<1> QED BY <1>4, <1>6

\* What a hit shows is what was shown.
LEMMA SameDataSameContents ==
  ASSUME StructInv, StructInv', NEW b \in Buffers, Untouched(b), SameSector(b),
         buf'[b].data = buf[b].data \/ ~ buf[b].valid, NEW s \in Sectors,
         disk'[s] = disk[s] \/ (buf[b].valid /\ buf[b].sector = s)
  PROVE  Content(s)' = Content(s)
<1>1. CASE buf[b].valid /\ buf[b].sector = s
  BY <1>1, DescriptorIsShown, DescriptorIsShownNext DEF SameSector
<1>2. CASE ~ (buf[b].valid /\ buf[b].sector = s) BY <1>2, ContentFrame DEF SameSector
<1> QED BY <1>1, <1>2

\* A hit is Grant, beside readers or alone.
LEMMA HitIsImplemented ==
  ASSUME StructInv, StructInv', NEW c \in Clients, NEW b \in Buffers, Hit(c, b)
  PROVE  Store!Grant(c)
<1> DEFINE s == req[c].sector
<1>1. \A t \in Sectors : Content(t)' = Content(t) BY SameDataSameContents DEF Hit
<1>2. Contents' = Contents /\ disk' = disk /\ suspect' = suspect
  BY <1>1, ContentsStay DEF Hit
<1>3. \A d \in Store!Users(s) : req[c].mode = "READ" /\ Users[d].mode = "READ"
  <2> SUFFICES ASSUME NEW d \in Clients, Using(d), req[d].sector = s
               PROVE  req[c].mode = "READ" /\ req[d].mode = "READ"
    BY StoreUsers, UserIs
  <2>1. held[d] = b BY UserHoldsSector DEF Hit, StructInv, OneBufferPerSector
  <2>2. buf[b].handles # 0 /\ buf[b].mode = RdWr(req[d].mode) BY <2>1, UserHoldsSector
  <2> QED BY <2>2 DEF Hit, RdWr
<1>4. /\ Users[c].at = "asking" /\ Users' = [Users EXCEPT ![c].at = "using"]
      /\ Users[c].sector = s /\ Users[c].mode = req[c].mode
  BY GrantedUser DEF Hit
<1>5. s \in Sectors /\ Contents \in [Sectors -> Values] /\ disk \in [Sectors -> Values]
  BY ContentType DEF StructInv, TypeOK
<1>6. Contents' \in [Sectors -> Values] /\ \A t \in Sectors : Contents'[t] = Contents[t]
  BY <1>2, <1>5
<1> QED BY <1>2, <1>3, <1>4, <1>5, <1>6
        DEF Store!Grant, Store!Kept, Store!Synced, Contents

\* A client that is given NULL, or gives its buffer back, is idle.
LEMMA IdleUser ==
  ASSUME StructInv, NEW c \in Clients,
         pc'[c] = "idle", req' = [req EXCEPT ![c] = NoRequest],
         \A d \in Clients \ {c} : pc'[d] = pc[d] \/ (pc[d] = "blocked" /\ pc'[d] = "get")
  PROVE  Users' = [Users EXCEPT ![c] = Store!Idle]
<1>1. /\ At(c)' = "idle" /\ req'[c] = NoRequest
      /\ \A d \in Clients \ {c} : req'[d] = req[d] /\ At(d)' = At(d)
  BY DEF At, Using, StructInv, TypeOK
<1>2. Users' = [Users EXCEPT ![c] =
        [at |-> "idle", sector |-> NoRequest.sector, mode |-> NoRequest.mode]]
  BY <1>1, OneUserChanges
<1> QED BY <1>2 DEF Store!Idle

\* FF_GetBuffer returns NULL to the user.
LEMMA RefusedUser ==
  ASSUME StructInv, NEW c \in Clients, pc[c] = "get", ReturnNull(c)
  PROVE  Users[c].at = "asking" /\ Users' = [Users EXCEPT ![c] = Store!Idle]
<1>1. At(c) = "asking" BY DEF At, Using
<1>2. /\ pc'[c] = "idle" /\ req' = [req EXCEPT ![c] = NoRequest]
      /\ \A d \in Clients \ {c} : pc'[d] = pc[d]
  BY DEF ReturnNull, StructInv, TypeOK
<1> QED BY <1>1, <1>2, IdleUser, UserIs

\* Giving up is Refuse.
LEMMA GiveUpIsImplemented ==
  ASSUME StructInv, NEW c \in Clients, GiveUp(c)
  PROVE  Store!Refuse(c)
<1>1. Users[c].at = "asking" /\ Users' = [Users EXCEPT ![c] = Store!Idle]
  BY RefusedUser DEF GiveUp
<1>2. UNCHANGED <<buf, disk, suspect>> BY DEF GiveUp
<1>3. Contents' = Contents BY <1>2, SameContents
<1>4. Contents \in [Sectors -> Values] /\ disk \in [Sectors -> Values] BY ContentType DEF StructInv, TypeOK
<1>5. Contents' \in [Sectors -> Values] /\ \A t \in Sectors : Contents'[t] = Contents[t]
  BY <1>3, <1>4
<1> QED BY <1>1, <1>2, <1>4, <1>5
        DEF Store!Refuse, Store!Kept, Store!Synced, Store!Doubted, Contents

\* The disk takes over a sector in no use.
LEMMA SyncedBy ==
  ASSUME StructInv, NEW b \in Buffers, buf[b].handles = 0, buf[b].modified => buf[b].valid,
         disk' \in [Sectors -> Values],
         \A s \in Sectors : \/ disk'[s] = disk[s]
                            \/ s = buf[b].sector /\ buf[b].modified /\ disk'[s] = buf[b].data
  PROVE  Store!Synced
<1> SUFFICES ASSUME NEW s \in Sectors, disk'[s] # disk[s]
             PROVE  Store!Free(s) /\ disk'[s] = Contents[s]
  BY DEF Store!Synced, Contents
<1>1. s = buf[b].sector /\ buf[b].valid /\ disk'[s] = buf[b].data OBVIOUS
<1> QED BY <1>1, UnheldIsFree, DescriptorIsShown DEF Contents

\* A failed transfer is Refuse: the victim was in no use.
LEMMA RefusedIsImplemented ==
  ASSUME ContentInv, StructInv', NEW c \in Clients, NEW b \in Buffers, Refused(c, b)
  PROVE  Store!Refuse(c)
<1> USE DEF ContentInv
<1>1. Users[c].at = "asking" /\ Users' = [Users EXCEPT ![c] = Store!Idle]
  BY RefusedUser DEF Refused
<1>2. buf[b].modified => buf[b].valid BY DEF EmptyIsClean
<1>3. Store!Synced BY <1>2, SyncedBy DEF Refused
<1>4. Store!Doubted
  <2>1. suspect' = suspect \/ (buf[b].valid /\ suspect' = suspect \cup {buf[b].sector})
    BY DEF Refused
  <2>2. buf[b].valid => Store!Free(buf[b].sector) BY UnheldIsFree DEF Refused
  <2>3. buf[b].sector \in Sectors BY DEF StructInv, TypeOK, BufferType
  <2> QED BY <2>1, <2>2, <2>3 DEF Store!Doubted
<1>5. ASSUME NEW s \in Sectors PROVE Content(s)' = Content(s) \/ s \in suspect'
  <2>1. CASE buf[b].valid /\ buf[b].sector = s /\ s \notin suspect'
    <3>1. buf'[b].data = buf[b].data BY <2>1 DEF Refused
    <3> QED BY <2>1, <3>1, SameDataSameContents DEF Refused
  <2>2. CASE ~ (buf[b].valid /\ buf[b].sector = s)
    BY <1>2, <2>2, ContentFrame DEF Refused, SameSector
  <2> QED BY <2>1, <2>2
<1>6. Contents' \in [Sectors -> Values] BY ContentTypeNext
<1> QED BY <1>1, <1>3, <1>4, <1>5, <1>6
        DEF Store!Refuse, Store!Kept, Contents

\* A miss is Grant: the victim's sector is shown as the disk has it from now on.
LEMMA ReplacedIsImplemented ==
  ASSUME ContentInv, StructInv', NEW c \in Clients, NEW b \in Buffers, Replaced(c, b)
  PROVE  Store!Grant(c)
<1> USE DEF ContentInv
<1> SUFFICES ASSUME NEW s, s = req[c].sector PROVE Store!Grant(c) OBVIOUS
<1>1. /\ Users[c].at = "asking" /\ Users' = [Users EXCEPT ![c].at = "using"]
      /\ Users[c].sector = s /\ Users[c].mode = req[c].mode
  BY GrantedUser DEF Replaced
<1>2. buf[b].modified => buf[b].valid BY DEF EmptyIsClean
<1>3. Store!Synced BY <1>2, SyncedBy DEF Replaced
<1>4. s \in Sectors /\ \A a \in Buffers : ~ (buf[a].valid /\ buf[a].sector = s)
  BY DEF Replaced, Match, StructInv, TypeOK
<1>5. Store!Users(s) = {} BY <1>4, UncachedIsFree DEF Store!Free
<1>6. Content(s) = disk[s] /\ disk'[s] = disk[s] BY <1>2, <1>4, DiskIsShown DEF Replaced
<1>7. Content(s)' = buf'[b].data BY DescriptorIsShownNext DEF Replaced
<1>8. Content(s)' = IF req[c].mode = "WR_ONLY" THEN Zero ELSE Content(s)
  BY <1>6, <1>7 DEF Replaced
<1>9. ASSUME NEW t \in Sectors \ {s} PROVE Content(t)' = Content(t) \/ t \in suspect'
  <2>1. CASE buf[b].valid /\ buf[b].sector = t
    <3>1. Content(t) = buf[b].data BY <2>1, DescriptorIsShown
    <3>2. \A a \in Buffers : ~ (buf'[a].valid /\ buf'[a].sector = t)
      BY <2>1 DEF Replaced, Untouched, StructInv, OneBufferPerSector
    <3>3. Content(t)' = disk'[t] BY <3>2, DiskIsShownNext
    <3>4. disk'[t] = buf[b].data \/ t \in suspect
      BY <2>1 DEF Replaced, CleanIsOnDisk
    <3> QED BY <3>1, <3>3, <3>4 DEF Replaced
  <2>2. CASE ~ (buf[b].valid /\ buf[b].sector = t)
    BY <1>2, <2>2, ContentFrame DEF Replaced
  <2> QED BY <2>1, <2>2
<1>10. Contents' \in [Sectors -> Values] BY ContentTypeNext
<1>11. suspect' = suspect BY DEF Replaced
<1>12. Store!Kept(IF req[c].mode = "WR_ONLY" THEN {s} ELSE {})
  BY <1>8, <1>9, <1>10 DEF Store!Kept, Contents
<1> QED BY <1>1, <1>3, <1>4, <1>5, <1>8, <1>11, <1>12 DEF Store!Grant, Contents

\* A user writes its sector: that is what the sector shows, and no other changes.
LEMMA WrittenContents ==
  ASSUME StructInv, StructInv', NEW c \in Clients, NEW v, Written(c, v), NEW s, s = req[c].sector,
         \A t \in Sectors \ {s} : disk'[t] = disk[t]
  PROVE  Contents' = [Contents EXCEPT ![s] = v]
<1>1. Using(c) /\ held[c] \in Buffers /\ s \in Sectors BY DEF Written, StructInv, TypeOK
<1>2. buf'[held[c]].valid /\ buf'[held[c]].sector = s /\ buf'[held[c]].data = v
  BY DEF Written, SameSector
<1>3. Content(s)' = v BY <1>1, <1>2, DescriptorIsShownNext
<1>4. ASSUME NEW t \in Sectors \ {s} PROVE Content(t)' = Content(t)
  BY <1>1, ContentFrame DEF Written, SameSector
<1> QED BY <1>1, <1>3, <1>4 DEF Contents

\* The user that writes stays a user.
LEMMA WriterUser ==
  ASSUME StructInv, NEW c \in Clients, NEW v, Written(c, v), pc' \in {pc, [pc EXCEPT ![c] = "cleared"]}
  PROVE  /\ Users[c].at = "using" /\ Users[c].mode = req[c].mode
         /\ Users[c].sector = req[c].sector /\ Users' = Users
<1>1. Using(c) /\ req' = req BY DEF Written
<1>2. At(c) = "using" BY <1>1 DEF At
<1>3. \A d \in Clients : At(d)' = At(d) BY <1>1 DEF At, Using, StructInv, TypeOK
<1> QED BY <1>1, <1>2, <1>3, UserIs, UsersStay

\* A store into the buffer is Store.
LEMMA ModifyIsImplemented ==
  ASSUME StructInv, StructInv', NEW c \in Clients, NEW v \in Values, Modify(c, v)
  PROVE  Store!Store(c)
<1>1. Written(c, v) /\ pc' = pc /\ disk' = disk /\ suspect' = suspect BY ModifyIsWritten
<1>2. Contents' = [Contents EXCEPT ![req[c].sector] = v] BY <1>1, WrittenContents
<1> QED BY <1>1, <1>2, WriterUser DEF Store!Store, Contents, Written

\* FF_ClearCluster's store is Store.
LEMMA ClearSectorIsImplemented ==
  ASSUME StructInv, StructInv', NEW c \in Clients, ClearSector(c)
  PROVE  Store!Store(c)
<1> SUFFICES ASSUME NEW s, s = req[c].sector PROVE Store!Store(c) OBVIOUS
<1>1. /\ Written(c, Zero) /\ req[c].mode = "WR_ONLY" /\ pc' = [pc EXCEPT ![c] = "cleared"]
      /\ disk' \in {disk, [disk EXCEPT ![s] = Zero]}
      /\ suspect' \in {suspect, suspect \cup {s}}
  BY ClearSectorIsWritten
<1>2. \A t \in Sectors \ {s} : disk'[t] = disk[t] BY <1>1 DEF StructInv, TypeOK
<1>3. Contents' = [Contents EXCEPT ![s] = Zero] BY <1>1, <1>2, WrittenContents
<1>4. Zero \in Values BY CacheAssumption DEF CacheAssumption
<1> QED BY <1>1, <1>3, <1>4, WriterUser DEF Store!Store, Contents

\* FF_ReleaseBuffer is Return.
LEMMA ReleaseIsImplemented ==
  ASSUME StructInv, StructInv', NEW c \in Clients, ReleaseBuffer(c)
  PROVE  Store!Return(c)
<1> SUFFICES ASSUME NEW s, s = req[c].sector, NEW b, b = held[c] PROVE Store!Return(c) OBVIOUS
<1>1. Released(c) BY ReleaseBufferIsReleased
<1>2. /\ b \in Buffers /\ Untouched(b) /\ SameSector(b) /\ buf[b].valid /\ buf[b].sector = s
      /\ buf'[b].data = buf[b].data /\ suspect' = suspect
      /\ disk' \in {disk, [disk EXCEPT ![s] = buf[b].data]}
      /\ Using(c) /\ Proceed(c) /\ req' = [req EXCEPT ![c] = NoRequest]
  BY <1>1 DEF Released
<1>3. s \in Sectors /\ disk \in [Sectors -> Values] BY DEF StructInv, TypeOK
<1>4. \A t \in Sectors : disk'[t] = disk[t] \/ t = s BY <1>2, <1>3
<1>5. \A t \in Sectors : Content(t)' = Content(t) BY <1>2, <1>4, SameDataSameContents
<1>6. Contents' = Contents BY <1>5, ContentsStay
<1>7. Contents[s] = buf[b].data BY <1>2, <1>3, DescriptorIsShown DEF Contents
<1>8. At(c) = "using" BY <1>2 DEF At
<1>9. /\ pc'[c] = "idle"
      /\ \A d \in Clients \ {c} : pc'[d] = pc[d] \/ (pc[d] = "blocked" /\ pc'[d] = "get")
  BY <1>2 DEF Proceed, Blocked
<1>10. Users' = [Users EXCEPT ![c] = Store!Idle] BY <1>2, <1>9, IdleUser
<1> QED BY <1>2, <1>6, <1>7, <1>8, <1>10, UserIs DEF Store!Return, Contents

\* A round of FF_FlushCache is Sync, or is not seen.
LEMMA FlushIsImplemented ==
  ASSUME ContentInv, StructInv', NEW c \in Clients, FlushBuffer(c)
  PROVE  Store!Sync \/ Unseen
<1> USE DEF ContentInv
<1>1. CASE FlushedOne
  <2> SUFFICES ASSUME NEW b, b = next PROVE Store!Sync OBVIOUS
  <2>1. /\ b \in Buffers /\ Untouched(b) /\ SameSector(b) /\ buf[b].valid
        /\ buf[b].handles = 0 /\ buf'[b].data = buf[b].data /\ buf[b].modified
        /\ disk' \in [Sectors -> Values]
        /\ disk' \in {disk, [disk EXCEPT ![buf[b].sector] = buf[b].data]}
        /\ suspect' \in {suspect, suspect \cup {buf[b].sector}}
        /\ pc' = pc /\ req' = req
    BY <1>1 DEF FlushedOne, clientVars
  <2>2. buf[b].sector \in Sectors /\ disk \in [Sectors -> Values]
    BY <2>1 DEF StructInv, TypeOK, BufferType
  <2>3. \A s \in Sectors : \/ disk'[s] = disk[s]
                           \/ s = buf[b].sector /\ buf[b].modified /\ disk'[s] = buf[b].data
    BY <2>1, <2>2
  <2>4. Store!Synced BY <2>1, <2>3, SyncedBy
  <2>5. \A s \in Sectors : Content(s)' = Content(s) BY <2>1, <2>3, SameDataSameContents
  <2>6. Store!Kept({}) BY <2>5, ContentTypeNext DEF Store!Kept, Contents
  <2>7. Store!Doubted BY <2>1, <2>2, UnheldIsFree DEF Store!Doubted
  <2>8. Users' = Users BY <2>1, UsersStay DEF At, Using
  <2> QED BY <2>4, <2>6, <2>7, <2>8 DEF Store!Sync
<1>2. CASE UNCHANGED <<buf, disk, suspect, clientVars>>
  BY <1>2, SameContents, UsersStay DEF Unseen, clientVars, At, Using
<1> QED BY <1>1, <1>2, FlushBufferIsFlushed

\* A write past the cache is Overwrite of a sector in no use, or is not seen.
LEMMA DirectWriteIsImplemented ==
  ASSUME Separate, ContentInv, StructInv', NEW c \in Clients, NEW s \in Direct,
         NEW v \in Values, DirectWrite(c, s, v)
  PROVE  Store!Overwrite(s) \/ Unseen
<1> USE DEF ContentInv
<1>1. UNCHANGED <<buf, pc, req, suspect>> BY DEF DirectWrite, clientVars
<1>2. Users' = Users BY <1>1, UsersStay DEF At, Using
<1>3. CASE disk' = disk BY <1>1, <1>2, <1>3, SameContents DEF Unseen
<1>4. CASE disk' = [disk EXCEPT ![s] = v]
  <2>1. s \in Sectors /\ s \notin Cached /\ disk \in [Sectors -> Values]
    BY DEF Separate, Sectors, StructInv, TypeOK
  <2>2. \A b \in Buffers : ~ (buf[b].valid /\ buf[b].sector = s) BY <2>1 DEF OnlyCached
  <2>3. Store!Free(s) BY <2>1, <2>2, UncachedIsFree
  <2>4. Content(s)' = v BY <1>1, <1>4, <2>1, <2>2, DiskIsShownNext
  <2>5. ASSUME NEW t \in Sectors \ {s} PROVE Content(t)' = Content(t)
    <3>1. buf' = buf /\ disk'[t] = disk[t] BY <1>1, <1>4, <2>1
    <3>2. ASSUME NEW b \in Buffers, buf[b].valid, buf[b].sector = t
          PROVE  Content(t)' = Content(t)
      BY <3>1, <3>2, DescriptorIsShown, DescriptorIsShownNext
    <3>3. CASE \A b \in Buffers : ~ (buf[b].valid /\ buf[b].sector = t)
      BY <3>1, <3>3, DiskIsShown, DiskIsShownNext
    <3> QED BY <3>2, <3>3
  <2>6. Contents' = [Contents EXCEPT ![s] = v] BY <2>1, <2>4, <2>5 DEF Contents
  <2> QED BY <1>1, <1>2, <1>4, <2>3, <2>6 DEF Store!Overwrite, Contents
<1> QED BY <1>3, <1>4 DEF DirectWrite, WriteFails

\* A restart is PowerFail.
LEMMA PowerLossIsImplemented ==
  ASSUME StructInv, PowerLoss
  PROVE  Store!PowerFail
<1>1. disk' = disk /\ suspect' = suspect BY DEF PowerLoss
<1>2. \A b \in Buffers : ~ buf'[b].valid BY DEF PowerLoss, EmptyBuffer
<1>3. \A s \in Sectors : Content(s)' = disk[s] BY <1>1, <1>2, DiskIsShownNext
<1>4. Contents' = disk BY <1>3 DEF Contents, StructInv, TypeOK
<1>5. \A c \in Clients : pc'[c] = "idle" /\ req'[c] = NoRequest BY DEF PowerLoss
<1>6. Users' = [c \in Clients |-> Store!Idle] BY <1>5 DEF Users, Using, Store!Idle
<1> QED BY <1>1, <1>4, <1>6 DEF Store!PowerFail, Contents

\* Waiting, and the begin and end of FF_FlushCache, are not seen.
LEMMA QuietIsUnseen ==
  ASSUME ContentInv, NEW c \in Clients,
         Yield(c) \/ WaitStep(c) \/ FlushBegin(c) \/ FlushEnd(c)
  PROVE  Unseen
<1> USE DEF ContentInv
<1>1. UNCHANGED <<buf, disk, req, suspect>>
  BY DEF Yield, WaitStep, BufferWait, WaitTimeout, FlushBegin, FlushEnd
<1>2. \/ pc[c] \in {"get", "sleep", "blocked"}
         /\ pc' \in {[pc EXCEPT ![c] = p] : p \in {"get", "sleep", "blocked"}}
      \/ pc[c] \in {"idle", "flush"}
         /\ pc' \in {[pc EXCEPT ![c] = p] : p \in {"idle", "flush"}}
  BY DEF Yield, Attempt, WaitStep, BufferWait, WaitTimeout, FlushBegin, FlushEnd,
         StructInv, SemaphoreOwner
<1>3. \A d \in Clients : At(d)' = At(d) BY <1>2 DEF At, Using, StructInv, TypeOK
<1> QED BY <1>1, <1>3, SameContents, UsersStay DEF Unseen

\* An empty cache over a disk is a store of its contents.
LEMMA InitIsImplemented == Init => Store!Init
<1> SUFFICES ASSUME Init PROVE Store!Init OBVIOUS
<1>1. \A b \in Buffers : ~ buf[b].valid BY DEF Init, EmptyBuffer
<1>2. \A s \in Sectors : Content(s) = disk[s] BY <1>1, DiskIsShown
<1>3. Contents = disk /\ disk \in [Sectors -> Values] BY <1>2 DEF Contents, Init
<1>4. Users = [c \in Clients |-> Store!Idle] BY DEF Init, Users, Using, Store!Idle
<1> QED BY <1>3, <1>4 DEF Store!Init, Contents, Init

\* What is not seen is a stuttering step.
LEMMA UnseenStutters == Unseen => UNCHANGED Store!vars
BY DEF Unseen, Store!vars, Contents

\* Every step of the cache is a step of the store, or is not seen there.
LEMMA StepIsImplemented ==
  Separate /\ ContentInv /\ StructInv' /\ [Next]_vars => [Store!Next]_(Store!vars)
<1> SUFFICES ASSUME Separate, ContentInv, StructInv', [Next]_vars
             PROVE  [Store!Next]_(Store!vars)
  OBVIOUS
<1>0. StructInv BY DEF ContentInv
<1>1. ASSUME NEW c \in Clients, NEW s \in Cached, NEW m \in Asked, GetBuffer(c, s, m)
      PROVE  Store!Next
  <2>1. m \in Modes /\ s \in Sectors BY CacheAssumption DEF CacheAssumption, Sectors
  <2> QED BY <1>0, <1>1, <2>1, AskIsImplemented DEF Store!Next
<1>2. ASSUME NEW c \in Clients, GetStep(c) PROVE Store!Next \/ Unseen
  <2>1. CASE HitShared(c) BY <1>0, <2>1, HitSharedIsHit, HitIsImplemented DEF Store!Next
  <2>2. CASE HitFree(c) BY <1>0, <2>2, HitFreeIsHit, HitIsImplemented DEF Store!Next
  <2>3. CASE Yield(c) BY <2>3, QuietIsUnseen
  <2>4. CASE GiveUp(c) BY <1>0, <2>4, GiveUpIsImplemented DEF Store!Next
  <2>5. ASSUME NEW b \in Buffers, EvictFails(c, b) PROVE Store!Next
    BY <1>0, <2>5, EvictFailsIsRefused, RefusedIsImplemented DEF Store!Next
  <2>6. ASSUME NEW b \in Buffers, FetchFails(c, b) PROVE Store!Next
    BY <1>0, <2>6, FetchFailsIsRefused, RefusedIsImplemented DEF Store!Next
  <2>7. ASSUME NEW b \in Buffers, Install(c, b) PROVE Store!Next
    BY <1>0, <2>7, InstallIsReplaced, ReplacedIsImplemented DEF Store!Next
  <2> QED BY <1>2, <2>1, <2>2, <2>3, <2>4, <2>5, <2>6, <2>7 DEF GetStep
<1>3. ASSUME NEW c \in Clients, WaitStep(c) PROVE Unseen BY <1>3, QuietIsUnseen
<1>4. ASSUME NEW c \in Clients, NEW v \in Values, Modify(c, v) PROVE Store!Next
  BY <1>0, <1>4, ModifyIsImplemented DEF Store!Next
<1>5. ASSUME NEW c \in Clients, ClearSector(c) PROVE Store!Next
  BY <1>0, <1>5, ClearSectorIsImplemented DEF Store!Next
<1>6. ASSUME NEW c \in Clients, ReleaseBuffer(c) PROVE Store!Next
  BY <1>0, <1>6, ReleaseIsImplemented DEF Store!Next
<1>7. ASSUME NEW c \in Clients, FlushBegin(c) PROVE Unseen BY <1>7, QuietIsUnseen
<1>8. ASSUME NEW c \in Clients, FlushStep(c) PROVE Store!Next \/ Unseen
  BY <1>8, FlushIsImplemented, QuietIsUnseen DEF FlushStep, Store!Next
<1>9. ASSUME NEW c \in Clients, NEW s \in Direct, NEW v \in Values, DirectWrite(c, s, v)
      PROVE  Store!Next \/ Unseen
  BY <1>9, DirectWriteIsImplemented DEF Store!Next
<1>10. CASE PowerLoss BY <1>0, <1>10, PowerLossIsImplemented DEF Store!Next
<1>11. ASSUME UNCHANGED vars PROVE Unseen
  BY <1>11, SameContents, UsersStay DEF vars, Unseen, At, Using
<1> QED BY <1>1, <1>2, <1>3, <1>4, <1>5, <1>6, <1>7, <1>8, <1>9, <1>10, <1>11, UnseenStutters
        DEF Next

\* The cache implements the sector store: shared readers, exclusive writers, contents that
\* change only by the writer, and a disk that only takes over sectors in no use
\* (ImplementsStore).
THEOREM CacheImplementsStore ==
  ASSUME Separate
  PROVE  Spec => ImplementsStore
<1>1. ContentInv => StructInv BY DEF ContentInv
<1> QED BY <1>1, InitIsImplemented, StepIsImplemented, ContentsHold, PTL
        DEF Spec, ImplementsStore, Store!Spec
=============================================================================
