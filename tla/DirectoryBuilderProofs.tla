----------------------- MODULE DirectoryBuilderProofs -----------------------
(***************************************************************************)
(* What holds of DirectoryBuilder for every set of servers, contents,      *)
(* orders and files, every lifetime and every bound on failures: the       *)
(* types, then the outbox and the revision, the order of checkpoints and   *)
(* aliases, the refinement of DirectoryPromise, nudges, what a generation  *)
(* is, the rollback window, acknowledged cohorts, and the rows behind an   *)
(* artifact.  All rest on TypeInvariant and on a description of what a     *)
(* step may do to D1, to the buckets and to what the operation works on.   *)
(***************************************************************************)
EXTENDS DirectoryBuilder, FiniteSetTheorems, NaturalsInduction,
        WellFoundedInduction, SequenceTheorems, TLAPS

-----------------------------------------------------------------------------
(* Values *)

(* Minimum picks the least element of a set of naturals. *)
LEMMA MinimumOfNaturals ==
  ASSUME NEW S, S \subseteq Nat, S # {}
  PROVE  Minimum(S) \in S /\ \A x \in S : Minimum(S) <= x
<1> DEFINE R == OpToRel(<, Nat)
<1>1. PICK m \in S : \A y \in S : ~ (<<y, m>> \in R)
  <2> HIDE DEF R
  <2>1. IsWellFoundedOn(R, Nat)
    BY NatLessThanWellFounded DEF R
  <2> QED BY <2>1, WFMin
<1>2. R = {ss \in Nat \X Nat : ss[1] < ss[2]}
  BY DEF OpToRel
<1>3. \A y \in S : m <= y
  <2> HIDE DEF R
  <2> TAKE y \in S
  <2>1. y \in Nat /\ m \in Nat
    OBVIOUS
  <2>2. y < m => <<y, m>> \in R
    BY <1>2, <2>1
  <2> QED BY <1>1, <2>1, <2>2
<1> QED BY <1>3 DEF Minimum

(* Maximum picks the greatest element of a bounded set of naturals. *)
LEMMA MaximumOfBounded ==
  ASSUME NEW n \in Nat, NEW S, S \subseteq 0..n, S # {}
  PROVE  Maximum(S) \in S /\ \A x \in S : x <= Maximum(S)
<1> DEFINE T == {n - x : x \in S}
<1>0. \A x \in S : x \in Int /\ 0 <= x /\ x <= n
  OBVIOUS
<1>1. T \subseteq Nat /\ T # {}
  <2>1. \A x \in S : n - x \in Nat
    BY <1>0
  <2> QED BY <2>1
<1>2. Minimum(T) \in T /\ \A y \in T : Minimum(T) <= y
  BY <1>1, MinimumOfNaturals
<1>3. PICK m \in S : Minimum(T) = n - m
  BY <1>2
<1>4. \A x \in S : x <= m
  <2> TAKE x \in S
  <2>1. n - x \in T
    OBVIOUS
  <2>2. Minimum(T) <= n - x
    BY <1>2, <2>1
  <2> QED BY <1>0, <1>3, <2>2
<1> QED BY <1>4 DEF Maximum

(* A time rounded down to the expiry quantum is a natural number. *)
LEMMA QuantumFloorType ==
  ASSUME NEW t \in Nat
  PROVE  QuantumFloor(t) \in Nat
BY ConstantsAssumption DEF QuantumFloor

(* The head of a non-empty sequence is one of its elements. *)
LEMMA HeadIsElement ==
  ASSUME NEW S, NEW s \in Seq(S), s # <<>>
  PROVE  Head(s) \in S
BY HeadTailProperties

(* A sequence of more than one element has a non-empty tail. *)
LEMMA TailOfLonger ==
  ASSUME NEW S, NEW s \in Seq(S), Len(s) > 1
  PROVE  Tail(s) \in Seq(S) /\ Tail(s) # <<>>
<1>1. s # <<>> /\ Len(s) \in Nat
  BY EmptySeq, LenProperties
<1>2. Tail(s) \in Seq(S) /\ Len(Tail(s)) = Len(s) - 1
  BY <1>1, HeadTailProperties
<1>3. Len(Tail(s)) # 0
  BY <1>1, <1>2
<1> QED BY <1>2, <1>3, EmptySeq

-----------------------------------------------------------------------------
(* The inductive type invariant *)

Building == {"immutable", "recheck", "head", "put", "verify", "recheckVerified",
             "commit", "commitCheck", "purge"}
Decided == Building \cup
  {"match", "matchRecheck", "matchCommit", "matchPurge", "reserve", "schedule"}
Looping == {"match", "immutable", "head", "put", "verify"}

(* A listed server has presence. *)
EntriesBacked == \A s \in Server : entry[s] # NoValue => lastSeen[s] \in Nat

(* What the operation has read, and what is left of its loop *)
Equipped ==
  /\ pc \in Decided => model \in Model /\ base \in Checkpoint
  /\ pc \in Looping => todo # <<>>

(* A build works on a pending build. *)
Reserved == pc \in Building => pending \in Pending

D1OK == D1TypeOK /\ EntriesBacked
OpOK == OperationTypeOK /\ Equipped

(* The clock never goes back behind the start. *)
ClockOK == now \in Nat /\ Epoch <= now

TypeInv == /\ ClockOK /\ D1OK /\ ObjectTypeOK /\ BucketTypeOK /\ OpOK
           /\ FailureTypeOK /\ Reserved

USE DEF d1Vars, doVars, wakeVars, r2Vars, runVars, readVars, opVars, faultVars

(* The expiry of a model, of whatever rows were read, is a natural number. *)
LEMMA ModelExpiryType ==
  ASSUME NEW t \in Nat, NEW e, NEW seen,
         \A s \in Server : e[s] # NoValue => seen[s] \in Nat
  PROVE  ModelExpiry(t, e, seen) \in Nat
<1> DEFINE T == {t + ArtifactLifetime} \cup
                {seen[s] + ListingTtl : s \in {x \in Server : e[x] # NoValue}}
<1>1. T \subseteq Nat /\ T # {}
  BY ConstantsAssumption
<1>2. Minimum(T) \in Nat
  <2> HIDE DEF T
  <2> QED BY <1>1, MinimumOfNaturals
<1> QED BY <1>2, QuantumFloorType DEF ModelExpiry

(* The largest generation the aliases show is a generation. *)
LEMMA PublicGenerationType ==
  ASSUME BucketTypeOK
  PROVE  PublicGeneration \in Generation
<1> DEFINE S == {ObservedGeneration(alias[f]) : f \in Format}
<1>1. S \subseteq 0..MaxGeneration
  BY ConstantsAssumption
     DEF BucketTypeOK, ObservedGeneration, IsObject, AliasValue, Object, Generation
<1>2. Format # {}
  <2>1. ObjectOrder \in Seq(STRING) /\ ObjectOrder # <<>>
    BY ConstantsAssumption
  <2>2. 1 \in 1..Len(ObjectOrder)
    BY <2>1, EmptySeq, LenProperties
  <2> QED BY <2>2 DEF Format
<1>3. S # {}
  BY <1>2
<1>4. Maximum(S) \in S
  <2> HIDE DEF S
  <2> QED BY <1>1, <1>3, MaximumOfBounded, ConstantsAssumption
<1> QED BY <1>1, <1>4 DEF PublicGeneration, Generation

(* Both orders list files of a generation, and at least one. *)
LEMMA OrdersAreSequences ==
  /\ ObjectOrder \in Seq(Format) /\ ObjectOrder # <<>>
  /\ AliasOrder \in Seq(Format) /\ AliasOrder # <<>>
<1>1. ObjectOrder \in Seq(STRING)
  BY ConstantsAssumption
<1>2. Range(ObjectOrder) = Format
  BY <1>1, LenProperties DEF Range, Format
<1> QED BY <1>1, <1>2, SeqOfRange, ConstantsAssumption

(* What a model shows is a content. *)
LEMMA ContentType ==
  ASSUME NEW e \in [Server -> Version \cup {NoValue}], NEW o \in Order
  PROVE  Content(e, o) \in ContentValue
BY DEF Content, ContentValue

-----------------------------------------------------------------------------
(* How a step ends: what each outcome leaves of the running operation *)

(* Going on to another await: the operation has what it needs there. *)
LEMMA ContinueType ==
  ASSUME OpOK, NEW label \in Label, NEW rest \in Seq(Format),
         NEW tag \in AliasValue, Continue(label, rest, tag),
         label \in Looping => rest # <<>>,
         label \in Decided => model \in Model /\ base \in Checkpoint
  PROVE  OpOK' /\ pc' = label
BY DEF OpOK, OperationTypeOK, Equipped, Continue

(* The end of a build: what it worked on is forgotten, pruning follows. *)
LEMMA FinishType ==
  ASSUME OpOK, Finish
  PROVE  OpOK' /\ pc' = "prune"
BY EmptySeq DEF OpOK, OperationTypeOK, Equipped, Finish, LeaveBuild, AliasValue,
                Label, Building, Decided, Looping

(* An exception ends the build the same way. *)
LEMMA ThrowType ==
  ASSUME OpOK, Throw
  PROVE  OpOK' /\ pc' = "prune"
BY EmptySeq DEF OpOK, OperationTypeOK, Equipped, Throw, LeaveBuild, AliasValue,
                Label, Building, Decided, Looping

(* A superseded build starts again, or gives up after its last attempt. *)
LEMMA SupersedeType ==
  ASSUME OpOK, Supersede
  PROVE  OpOK' /\ pc' \in {"read", "prune"}
<1>1. CASE attempt + 1 < MaxAttempts
  BY <1>1, EmptySeq
  DEF OpOK, OperationTypeOK, Equipped, Supersede, LeaveBuild, AliasValue,
      Label, Building, Decided, Looping
<1>2. CASE ~(attempt + 1 < MaxAttempts)
  BY <1>2, ThrowType DEF Supersede
<1> QED BY <1>1, <1>2

(* The next file of a loop, or what follows the loop *)
LEMMA NextFileType ==
  ASSUME OpOK, NEW label \in Decided, NEW after \in Decided,
         NEW rest \in Seq(Format), pc \in Decided, todo # <<>>,
         after \in Looping => rest # <<>>, NextFile(label, after, rest)
  PROVE  OpOK' /\ pc' \in {label, after}
<1>0. /\ label \in Label /\ after \in Label /\ NoValue \in AliasValue
      /\ model \in Model /\ base \in Checkpoint
  BY DEF OpOK, Equipped, Decided, Building, Label, AliasValue
<1>1. CASE Len(todo) > 1
  <2>1. Tail(todo) \in Seq(Format) /\ Tail(todo) # <<>>
    <3>1. todo \in Seq(Format)
      BY DEF OpOK, OperationTypeOK
    <3> QED BY <1>1, <3>1, TailOfLonger
  <2>3. Continue(label, Tail(todo), NoValue)
    BY <1>1 DEF NextFile
  <2> QED BY <1>0, <2>1, <2>3, ContinueType
<1>2. CASE ~(Len(todo) > 1)
  <2>1. Continue(after, rest, NoValue)
    BY <1>2 DEF NextFile
  <2> QED BY <1>0, <2>1, ContinueType
<1> QED BY <1>1, <1>2

(* The file a loop treats next is a file of the generation. *)
LEMMA HeadOfTodo ==
  ASSUME OperationTypeOK, todo # <<>>
  PROVE  Head(todo) \in Format
<1>1. todo \in Seq(Format)
  BY DEF OperationTypeOK
<1> QED BY <1>1, HeadIsElement

-----------------------------------------------------------------------------
(* What the transactions and the builder's values are *)

(* D1 after expiry: what leaves the presence leaves the directory. *)
LEMMA ExpireType ==
  ASSUME D1OK, NEW cutoff \in Int, NEW at \in Nat,
         ExpireDirectoryEntries(cutoff, at)
  PROVE  D1OK'
<1> USE DEF ExpireDirectoryEntries, D1OK, D1TypeOK
<1>1. revision' \in Nat /\ updatedAt' \in Nat /\ outbox' \subseteq Nat
  <2>1. CASE RaiseRevision(at)
    BY <2>1 DEF RaiseRevision, Larger
  <2>2. CASE UNCHANGED <<revision, updatedAt, outbox>>
    BY <2>2
  <2> QED BY <2>1, <2>2
<1>2. entry' \in [Server -> Version \cup {NoValue}]
  <2>1. entry' = [s \in Server |-> IF s \in Expired(cutoff) THEN NoValue ELSE entry[s]]
    OBVIOUS
  <2>2. entry \in [Server -> Version \cup {NoValue}]
    OBVIOUS
  <2> QED BY <2>1, <2>2, Zenon
<1>5. lastSeen' \in [Server -> Nat \cup {NoValue}]
  <2>1. lastSeen' = [s \in Server |->
                       IF s \in Expired(cutoff) THEN NoValue ELSE lastSeen[s]]
    OBVIOUS
  <2>2. lastSeen \in [Server -> Nat \cup {NoValue}]
    OBVIOUS
  <2> QED BY <2>1, <2>2, Zenon
<1>3. order' \in Order /\ ckpt' \in Checkpoint /\ history' \subseteq Generation
  OBVIOUS
<1>4. EntriesBacked'
  BY DEF EntriesBacked
<1> QED BY <1>1, <1>2, <1>3, <1>4, <1>5

(* The cutoff of an expiry is an integer. *)
LEMMA ExpiryCutoffType ==
  ASSUME NEW t \in Nat
  PROVE  ExpiryCutoff(t) \in Int
BY ConstantsAssumption DEF ExpiryCutoff, Larger

(* D1 after a checkpoint: rows and revision stay. *)
LEMMA CommitType ==
  ASSUME D1OK, NEW c \in Checkpoint, CommitPublication(c)
  PROVE  D1OK'
BY DEF D1OK, EntriesBacked, D1TypeOK, CommitPublication, NewestHistory, Checkpoint

(* A pending build becomes a checkpoint. *)
LEMMA CheckpointOfType ==
  ASSUME NEW p \in Pending, NEW t \in Nat
  PROVE  CheckpointOf(p, t) \in Checkpoint
BY DEF Pending, Checkpoint, CheckpointOf

(* A pending build has objects. *)
LEMMA ObjectOfType ==
  ASSUME NEW p \in Pending
  PROVE  ObjectOf(p) \in Object
BY DEF Pending, Object, ObjectOf

(* Storing one immutable file keeps the buckets well-typed. *)
LEMMA StoreType ==
  ASSUME BucketTypeOK, NEW f \in Format, NEW object \in Object, Store(f, object)
  PROVE  /\ stored' \subseteq Format \X Object
         /\ flight' \in Request \cup {NoValue} => BucketTypeOK'
BY DEF Store, BucketTypeOK

(* Replacing one alias *)
LEMMA AliasType ==
  ASSUME BucketTypeOK, NEW f \in Format, NEW x \in AliasValue,
         alias' = [alias EXCEPT ![f] = x], UNCHANGED <<stored, cache>>,
         flight' \in Request \cup {NoValue}
  PROVE  BucketTypeOK'
BY DEF BucketTypeOK

(* A purge, successful or not, keeps the buckets well-typed and at most clears
   the pending build. *)
LEMMA PurgeType ==
  ASSUME BucketTypeOK, FailureTypeOK, NEW gen, PurgeGeneration(gen)
  PROVE  BucketTypeOK' /\ pending' \in {pending, NoValue} /\ UNCHANGED high
         /\ FailureTypeOK'
<1>1. BucketTypeOK'
  BY DEF BucketTypeOK, PurgeGeneration, PurgeCache, Fault
<1>2. pending' \in {pending, NoValue} /\ UNCHANGED high
  BY DEF PurgeGeneration
<1>3. FailureTypeOK'
  BY DEF PurgeGeneration, PurgeCache, Fault, FailureTypeOK
<1> QED BY <1>1, <1>2, <1>3

-----------------------------------------------------------------------------
(* Type correctness *)

(* What a step leaves alone keeps its type. *)
LEMMA Untouched ==
  /\ D1OK /\ UNCHANGED d1Vars => D1OK'
  /\ ObjectTypeOK /\ UNCHANGED <<doVars, wakeVars>> => ObjectTypeOK'
  /\ BucketTypeOK /\ UNCHANGED r2Vars => BucketTypeOK'
  /\ OpOK /\ UNCHANGED opVars => OpOK'
  /\ FailureTypeOK /\ UNCHANGED faultVars => FailureTypeOK'
  /\ ClockOK /\ UNCHANGED now => ClockOK'
<1>1. D1OK /\ UNCHANGED d1Vars => D1OK'
  BY DEF D1OK, D1TypeOK, EntriesBacked
<1>2. ObjectTypeOK /\ UNCHANGED <<doVars, wakeVars>> => ObjectTypeOK'
  BY DEF ObjectTypeOK
<1>3. BucketTypeOK /\ UNCHANGED r2Vars => BucketTypeOK'
  BY DEF BucketTypeOK
<1>4. OpOK /\ UNCHANGED opVars => OpOK'
  BY DEF OpOK, OperationTypeOK, Equipped
<1>5. FailureTypeOK /\ UNCHANGED faultVars => FailureTypeOK'
  BY DEF FailureTypeOK
<1>6. ClockOK /\ UNCHANGED now => ClockOK'
  BY DEF ClockOK
<1> QED BY <1>1, <1>2, <1>3, <1>4, <1>5, <1>6

(* The initial state: an empty directory, or one with rows but no artifact *)
LEMMA TypeInvInit == Init => TypeInv
<1> SUFFICES ASSUME Init PROVE TypeInv
  OBVIOUS
<1>1. revision \in Nat
  <2>1. IsFiniteSet({s \in Server : entry[s] # NoValue})
    BY ConstantsAssumption, FS_Subset
  <2> QED BY <2>1, FS_CardinalityType DEF Init
<1>0. MaxGeneration \in Nat /\ Epoch \in Nat /\ 0 \in Generation
  <2>1. MaxGeneration \in Nat /\ Epoch \in Nat
    BY ConstantsAssumption
  <2> QED BY <2>1 DEF Generation
<1>2. D1OK
  <2>1. /\ updatedAt \in {0, Epoch} /\ entry \in [Server -> Version \cup {NoValue}]
        /\ lastSeen = [s \in Server |-> IF entry[s] = NoValue THEN NoValue ELSE Epoch]
        /\ outbox \subseteq {revision} /\ order \in Order
        /\ ckpt = NoCheckpoint /\ history = {}
    BY DEF Init
  <2>2. NoCheckpoint \in Checkpoint
    BY <1>0 DEF NoCheckpoint, Checkpoint
  <2>3. D1TypeOK
    BY <1>0, <1>1, <2>1, <2>2 DEF D1TypeOK
  <2>4. EntriesBacked
    BY <1>0, <2>1 DEF EntriesBacked
  <2> QED BY <2>3, <2>4 DEF D1OK
<1>3. ObjectTypeOK
  BY <1>0 DEF Init, ObjectTypeOK
<1>4. BucketTypeOK
  <2>1. /\ stored = {} /\ alias = [f \in Format |-> NoValue]
        /\ cache = [f \in Representation |-> NoValue] /\ flight = NoValue
    BY DEF Init
  <2>2. stored \subseteq Format \X Object
    BY <2>1
  <2>3. alias \in [Format -> AliasValue]
    BY <2>1 DEF AliasValue
  <2>4. cache \in [Representation -> Object \cup {NoValue}]
    BY <2>1
  <2>5. flight \in Request \cup {NoValue}
    BY <2>1
  <2> QED BY <2>2, <2>3, <2>4, <2>5 DEF BucketTypeOK
<1>5. OpOK
  <2>1. /\ pc = "idle" /\ trigger = NoValue /\ opNow = 0 /\ attempt = 0
        /\ failed = FALSE /\ model = NoValue /\ base = NoValue
        /\ todo = <<>> /\ etag = NoValue /\ publishedAt = 0
    BY DEF Init
  <2>2. OperationTypeOK
    BY <2>1, EmptySeq DEF OperationTypeOK, Label, AliasValue
  <2>3. Equipped
    BY <2>1 DEF Equipped, Decided, Building, Looping
  <2> QED BY <2>2, <2>3 DEF OpOK
<1>6. FailureTypeOK
  BY DEF Init, FailureTypeOK
<1>7. ClockOK /\ Reserved
  BY <1>0 DEF Init, ClockOK, Reserved, Building
<1> QED BY <1>2, <1>3, <1>4, <1>5, <1>6, <1>7 DEF TypeInv

(* Starting, expiring, reading and deciding *)
LEMMA ReadSteps ==
  ASSUME TypeInv,
         \/ \E t \in {"cron", "alarm"} : Start(t)
         \/ ExpireRows \/ ReadModel \/ ReadCheckpoint \/ Decide
  PROVE  TypeInv'
<1>0. /\ ClockOK /\ D1OK /\ ObjectTypeOK /\ BucketTypeOK /\ OpOK
      /\ FailureTypeOK /\ opNow \in Nat /\ NoValue \in AliasValue
      /\ updatedAt \in Nat
  BY DEF TypeInv, OpOK, OperationTypeOK, D1OK, D1TypeOK, AliasValue
<1>1. CASE \E t \in {"cron", "alarm"} : Start(t)
  <2>1. OpOK' /\ pc' = "expire"
    BY <1>0, <1>1 DEF Start, OpOK, OperationTypeOK, Equipped, Label, Decided,
                      Building, Looping, ClockOK
  <2>2. ObjectTypeOK'
    BY <1>0, <1>1 DEF Start, ObjectTypeOK
  <2>3. UNCHANGED <<now, d1Vars, r2Vars, faultVars>>
    BY <1>1 DEF Start
  <2> QED BY <1>0, <2>1, <2>2, <2>3, Untouched DEF TypeInv, Reserved, Building
<1>2. CASE ExpireRows
  <2>1. OpOK' /\ pc' = "read"
    <3>1. Continue("read", <<>>, NoValue)
      BY <1>2 DEF ExpireRows
    <3> QED BY <1>0, <3>1, ContinueType, EmptySeq DEF Label, Decided, Building, Looping
  <2>2. D1OK'
    BY <1>0, <1>2, ExpireType, ExpiryCutoffType DEF ExpireRows
  <2>3. UNCHANGED <<now, doVars, wakeVars, r2Vars, faultVars>>
    BY <1>2 DEF ExpireRows
  <2> QED BY <1>0, <2>1, <2>2, <2>3, Untouched DEF TypeInv, Reserved, Building
<1>3. CASE ReadModel
  <2> DEFINE at == Larger(opNow, updatedAt)
             until == ModelExpiry(at, entry, lastSeen)
  <2>1. at \in Nat
    BY <1>0 DEF Larger
  <2>2. until \in Nat
    BY <1>0, <2>1, ModelExpiryType DEF D1OK, EntriesBacked
  <2>3. Content(entry, order) \in ContentValue
    BY <1>0, ContentType DEF D1OK, D1TypeOK
  <2>4. OpOK' /\ pc' \in {"read", "prune"}
    <3>1. CASE until <= at
      <4>1. Throw
        BY <1>3, <3>1 DEF ReadModel
      <4> QED BY <1>0, <4>1, ThrowType
    <3>2. CASE ~(until <= at)
      <4> HIDE DEF at, until
      <4>1. /\ model' = [rev |-> revision, content |-> Content(entry, order),
                         generatedAt |-> at, expiresAt |-> until,
                         dirty |-> outbox # {}]
            /\ UNCHANGED <<pc, runVars, base, todo, etag, publishedAt>>
            /\ pc = "read"
        BY <1>3, <3>2 DEF ReadModel, at, until
      <4>2. model' \in Model
        BY <1>0, <2>1, <2>2, <2>3, <4>1 DEF Model, D1OK, D1TypeOK
      <4> QED BY <1>0, <4>1, <4>2 DEF OpOK, OperationTypeOK, Equipped, Decided,
                                      Building, Looping
    <3> QED BY <3>1, <3>2
  <2>5. UNCHANGED <<now, d1Vars, doVars, wakeVars, r2Vars, faultVars>>
    BY <1>3 DEF ReadModel
  <2> QED BY <1>0, <2>4, <2>5, Untouched DEF TypeInv, Reserved, Building
<1>4. CASE ReadCheckpoint
  <2>1. OpOK' /\ pc' = "read"
    BY <1>0, <1>4 DEF ReadCheckpoint, OpOK, OperationTypeOK, Equipped, Decided,
                      Building, Looping, D1OK, D1TypeOK
  <2>2. UNCHANGED <<now, d1Vars, doVars, wakeVars, r2Vars, faultVars>>
    BY <1>4 DEF ReadCheckpoint
  <2> QED BY <1>0, <2>1, <2>2, Untouched DEF TypeInv, Reserved, Building
<1>5. CASE Decide
  <2>1. model \in Model /\ base \in Checkpoint
    BY <1>0, <1>5 DEF Decide, OpOK, OperationTypeOK
  <2>2. OpOK' /\ pc' \in {"prune", "match", "reserve"}
    <3>1. Throw \/ Continue("match", ObjectOrder, NoValue)
                \/ Continue("reserve", <<>>, NoValue)
      BY <1>5 DEF Decide
    <3>2. CASE Throw
      BY <1>0, <3>2, ThrowType
    <3>3. CASE Continue("match", ObjectOrder, NoValue)
      BY <1>0, <2>1, <3>3, ContinueType, OrdersAreSequences DEF Label
    <3>4. CASE Continue("reserve", <<>>, NoValue)
      BY <1>0, <2>1, <3>4, ContinueType, EmptySeq DEF Label, Looping
    <3> QED BY <3>1, <3>2, <3>3, <3>4
  <2>3. ObjectTypeOK'
    <3>1. high' \in {high, Larger(high, base.gen)}
          /\ UNCHANGED <<pending, wakeVars>>
      BY <1>5 DEF Decide
    <3>2. Larger(high, base.gen) \in {high, base.gen}
      BY DEF Larger
    <3> QED BY <1>0, <2>1, <3>1, <3>2 DEF ObjectTypeOK, Checkpoint
  <2>4. UNCHANGED <<now, d1Vars, r2Vars, faultVars>>
    BY <1>5 DEF Decide
  <2> QED BY <1>0, <2>2, <2>3, <2>4, Untouched DEF TypeInv, Reserved, Building
<1> QED BY <1>1, <1>2, <1>3, <1>4, <1>5

(* A directory found unchanged: matching its aliases, acknowledging, purging *)
LEMMA MatchSteps ==
  ASSUME TypeInv, MatchAlias \/ MatchRecheck \/ MatchCommit \/ MatchPurge
  PROVE  TypeInv'
<1>0. /\ ClockOK /\ D1OK /\ ObjectTypeOK /\ BucketTypeOK /\ OpOK
      /\ FailureTypeOK /\ pc \in Decided
      /\ model \in Model /\ base \in Checkpoint /\ NoValue \in AliasValue
  BY DEF TypeInv, OpOK, Equipped, AliasValue, Decided, MatchAlias, MatchRecheck,
         MatchCommit, MatchPurge
<1>1. CASE MatchAlias
  <2>1. OpOK' /\ pc' \in {"match", "matchRecheck", "reserve"}
    <3>1. CASE NextFile("match", "matchRecheck", <<>>)
      <4>1. todo # <<>>
        BY <1>0, <1>1 DEF OpOK, Equipped, Looping, MatchAlias
      <4> QED BY <1>0, <3>1, <4>1, NextFileType, EmptySeq DEF Decided, Looping
    <3>2. CASE Continue("reserve", <<>>, NoValue)
      BY <1>0, <3>2, ContinueType, EmptySeq DEF Label, Looping
    <3> QED BY <1>1, <3>1, <3>2 DEF MatchAlias
  <2>2. UNCHANGED <<now, d1Vars, doVars, wakeVars, r2Vars, faultVars>>
    BY <1>1 DEF MatchAlias
  <2> QED BY <1>0, <2>1, <2>2, Untouched DEF TypeInv, Reserved, Building
<1>2. CASE MatchRecheck
  <2>1. OpOK' /\ pc' \in {"read", "prune", "matchCommit", "matchPurge"}
    <3>1. CASE Supersede
      BY <1>0, <3>1, SupersedeType
    <3>2. CASE Continue(IF model.dirty THEN "matchCommit" ELSE "matchPurge",
                        <<>>, NoValue)
      BY <1>0, <3>2, ContinueType, EmptySeq DEF Label, Looping
    <3> QED BY <1>2, <3>1, <3>2 DEF MatchRecheck
  <2>2. UNCHANGED <<now, d1Vars, doVars, wakeVars, r2Vars, faultVars>>
    BY <1>2 DEF MatchRecheck
  <2> QED BY <1>0, <2>1, <2>2, Untouched DEF TypeInv, Reserved, Building
<1>3. CASE MatchCommit
  <2>1. UNCHANGED <<now, doVars, wakeVars, r2Vars, faultVars>>
    BY <1>3 DEF MatchCommit
  <2>2. CASE CommitPublication(base) /\ Continue("matchPurge", <<>>, NoValue)
    <3>1. OpOK' /\ pc' = "matchPurge"
      BY <1>0, <2>2, ContinueType, EmptySeq DEF Label, Looping
    <3>2. D1OK'
      BY <1>0, <2>2, CommitType
    <3> QED BY <1>0, <2>1, <3>1, <3>2, Untouched DEF TypeInv, Reserved, Building
  <2>3. CASE Throw /\ UNCHANGED d1Vars
    <3>1. OpOK' /\ pc' = "prune"
      BY <1>0, <2>3, ThrowType
    <3> QED BY <1>0, <2>1, <2>3, <3>1, Untouched DEF TypeInv, Reserved, Building
  <2> QED BY <1>3, <2>2, <2>3 DEF MatchCommit
<1>4. CASE MatchPurge
  <2>1. OpOK' /\ pc' = "prune"
    BY <1>0, <1>4, FinishType DEF MatchPurge
  <2>2. BucketTypeOK' /\ FailureTypeOK' /\ pending' \in {pending, NoValue}
        /\ UNCHANGED high
    <3>1. CASE PurgeGeneration(base.gen)
      BY <1>0, <3>1, PurgeType
    <3>2. CASE UNCHANGED <<doVars, r2Vars, faultVars>>
      BY <1>0, <3>2, Untouched
    <3> QED BY <1>4, <3>1, <3>2 DEF MatchPurge
  <2>3. ObjectTypeOK'
    BY <1>0, <1>4, <2>2 DEF MatchPurge, ObjectTypeOK
  <2>4. UNCHANGED <<now, d1Vars>>
    BY <1>4 DEF MatchPurge
  <2> QED BY <1>0, <2>1, <2>2, <2>3, <2>4, Untouched DEF TypeInv, Reserved, Building
<1> QED BY <1>1, <1>2, <1>3, <1>4

(* Reserving a generation, storing its files and replacing the aliases *)
LEMMA BuildSteps ==
  ASSUME TypeInv,
         Reserve \/ PutImmutable \/ Recheck \/ AliasHead \/ PutAlias \/ VerifyAlias
  PROVE  TypeInv'
<1>0. /\ ClockOK /\ D1OK /\ ObjectTypeOK /\ BucketTypeOK /\ OpOK
      /\ FailureTypeOK /\ Reserved /\ pc \in Decided
      /\ model \in Model /\ base \in Checkpoint /\ NoValue \in AliasValue
  BY DEF TypeInv, OpOK, Equipped, AliasValue, Decided, Building, Reserve,
         PutImmutable, Recheck, AliasHead, PutAlias, VerifyAlias
<1>1. ASSUME pc \in Building
      PROVE  pending \in Pending /\ ObjectOf(pending) \in Object
  BY <1>0, <1>1, ObjectOfType DEF Reserved
<1>2. ASSUME pc \in Looping
      PROVE  todo # <<>> /\ todo \in Seq(Format) /\ Head(todo) \in Format
  BY <1>0, <1>2, HeadOfTodo DEF OpOK, OperationTypeOK, Equipped
<1>3. ASSUME AbandonPending, UNCHANGED wakeVars PROVE ObjectTypeOK'
  BY <1>0, <1>3 DEF AbandonPending, ObjectTypeOK
<1>4. CASE Reserve
  <2>1. UNCHANGED <<now, d1Vars, wakeVars, r2Vars, faultVars>>
    BY <1>4 DEF Reserve
  <2>2. CASE Continue("immutable", ObjectOrder, NoValue)
    <3>1. OpOK' /\ pc' = "immutable"
      BY <1>0, <2>2, ContinueType, OrdersAreSequences DEF Label
    <3>2. CASE PendingReusable /\ UNCHANGED doVars
      <4>1. pending' \in Pending
        BY <1>0, <3>2 DEF PendingReusable, ObjectTypeOK
      <4> QED BY <1>0, <2>1, <3>1, <3>2, <4>1, Untouched DEF TypeInv, Reserved
    <3>3. CASE /\ NewGeneration <= MaxGeneration /\ high' = NewGeneration
               /\ pending' = [rev |-> model.rev, gen |-> NewGeneration,
                              content |-> model.content,
                              generatedAt |-> model.generatedAt,
                              expiresAt |-> model.expiresAt]
      <4>1. PublicGeneration \in Generation /\ MaxGeneration \in Nat
        BY <1>0, PublicGenerationType, ConstantsAssumption DEF TypeInv
      <4>2. NewGeneration \in Generation
        BY <1>0, <3>3, <4>1
        DEF NewGeneration, Larger, Generation, ObjectTypeOK, Checkpoint
      <4>3. pending' \in Pending
        BY <1>0, <3>3, <4>2 DEF Pending, Model
      <4>4. ObjectTypeOK'
        BY <1>0, <2>1, <3>3, <4>2, <4>3 DEF ObjectTypeOK
      <4> QED BY <1>0, <2>1, <3>1, <4>3, <4>4, Untouched DEF TypeInv, Reserved
    <3>4. Continue("immutable", ObjectOrder, NoValue) => ~Throw
      BY DEF Continue, Throw
    <3> QED BY <1>4, <2>2, <3>2, <3>3, <3>4 DEF Reserve
  <2>3. CASE Throw /\ UNCHANGED doVars
    <3>1. OpOK' /\ pc' = "prune"
      BY <1>0, <2>3, ThrowType
    <3> QED BY <1>0, <2>1, <2>3, <3>1, Untouched DEF TypeInv, Reserved, Building
  <2> QED BY <1>4, <2>2, <2>3 DEF Reserve
<1>5. CASE PutImmutable
  <2>0. pc \in Looping /\ pc \in Building
    BY <1>5 DEF PutImmutable, Looping, Building
  <2>1. UNCHANGED <<now, d1Vars, wakeVars, faultVars>>
    BY <1>5 DEF PutImmutable
  <2>2. CASE AbandonPending /\ Supersede /\ UNCHANGED r2Vars
    <3>1. OpOK' /\ pc' \in {"read", "prune"}
      BY <1>0, <2>2, SupersedeType
    <3>2. ObjectTypeOK'
      BY <1>3, <2>1, <2>2
    <3> QED BY <1>0, <2>1, <2>2, <3>1, <3>2, Untouched DEF TypeInv, Reserved, Building
  <2>3. CASE /\ Store(Head(todo), ObjectOf(pending)) /\ UNCHANGED flight
             /\ NextFile("immutable", "recheck", <<>>) /\ UNCHANGED doVars
    <3>1. OpOK' /\ pc' \in {"immutable", "recheck"}
      BY <1>0, <1>2, <2>0, <2>3, NextFileType, EmptySeq DEF Decided, Building, Looping
    <3>2. BucketTypeOK'
      BY <1>0, <1>1, <1>2, <2>0, <2>3, StoreType DEF BucketTypeOK
    <3> QED BY <1>0, <1>1, <2>0, <2>1, <2>3, <3>1, <3>2, Untouched DEF TypeInv, Reserved
  <2> QED BY <1>5, <2>2, <2>3 DEF PutImmutable
<1>6. CASE Recheck
  <2>1. UNCHANGED <<now, d1Vars, r2Vars, faultVars>> /\ pc \in Building
    BY <1>6 DEF Recheck, Building
  <2>2. CASE AbandonPending /\ Supersede /\ UNCHANGED wakeVars
    <3>1. OpOK' /\ pc' \in {"read", "prune"}
      BY <1>0, <2>2, SupersedeType
    <3>2. ObjectTypeOK'
      BY <1>3, <2>2
    <3> QED BY <1>0, <2>1, <3>1, <3>2, Untouched DEF TypeInv, Reserved, Building
  <2>3. CASE AbandonPending /\ Finish /\ alarm' = "later"
             /\ UNCHANGED <<nudged, nudging, nudgeDue>>
    <3>1. OpOK' /\ pc' = "prune"
      BY <1>0, <2>3, FinishType
    <3>2. ObjectTypeOK'
      BY <1>0, <2>3 DEF AbandonPending, ObjectTypeOK
    <3> QED BY <1>0, <2>1, <3>1, <3>2, Untouched DEF TypeInv, Reserved, Building
  <2>4. CASE Continue("head", AliasOrder, NoValue) /\ UNCHANGED <<doVars, wakeVars>>
    <3>1. OpOK' /\ pc' = "head"
      BY <1>0, <2>4, ContinueType, OrdersAreSequences DEF Label
    <3> QED BY <1>0, <1>1, <2>1, <2>4, <3>1, Untouched DEF TypeInv, Reserved
  <2> QED BY <1>6, <2>2, <2>3, <2>4 DEF Recheck
<1>7. CASE AliasHead
  <2>0. pc \in Looping /\ pc \in Building
    BY <1>7 DEF AliasHead, Looping, Building
  <2>1. UNCHANGED <<now, d1Vars, wakeVars, r2Vars, faultVars>>
    BY <1>7 DEF AliasHead
  <2>2. CASE AbandonPending /\ (Throw \/ Supersede)
    <3>1. OpOK' /\ pc' \in {"read", "prune"}
      BY <1>0, <2>2, ThrowType, SupersedeType
    <3>2. ObjectTypeOK'
      BY <1>3, <2>1, <2>2
    <3> QED BY <1>0, <2>1, <3>1, <3>2, Untouched DEF TypeInv, Reserved, Building
  <2>3. CASE NextFile("head", "verify", ObjectOrder) /\ UNCHANGED doVars
    <3>1. OpOK' /\ pc' \in {"head", "verify"}
      BY <1>0, <1>2, <2>0, <2>3, NextFileType, OrdersAreSequences DEF Decided, Building
    <3> QED BY <1>0, <1>1, <2>0, <2>1, <2>3, <3>1, Untouched DEF TypeInv, Reserved
  <2>4. CASE Continue("put", todo, alias[Head(todo)]) /\ UNCHANGED doVars
    <3>1. alias[Head(todo)] \in AliasValue
      BY <1>0, <1>2, <2>0 DEF BucketTypeOK
    <3>2. OpOK' /\ pc' = "put"
      BY <1>0, <1>2, <2>0, <2>4, <3>1, ContinueType DEF Label
    <3> QED BY <1>0, <1>1, <2>0, <2>1, <2>4, <3>2, Untouched DEF TypeInv, Reserved
  <2> QED BY <1>7, <2>2, <2>3, <2>4 DEF AliasHead
<1>8. CASE PutAlias
  <2>0. pc \in Looping /\ pc \in Building
    BY <1>8 DEF PutAlias, Looping, Building
  <2>1. UNCHANGED <<now, d1Vars, wakeVars, stored, cache, flight, faultVars>>
    BY <1>8 DEF PutAlias
  <2>2. BucketTypeOK'
    <3>1. CASE alias' = [alias EXCEPT ![Head(todo)] = ObjectOf(pending)]
      <4>1. flight' \in Request \cup {NoValue} /\ ObjectOf(pending) \in AliasValue
        BY <1>0, <1>1, <2>0, <2>1 DEF BucketTypeOK, AliasValue
      <4> QED BY <1>0, <1>2, <2>0, <2>1, <3>1, <4>1, AliasType
    <3>2. CASE UNCHANGED alias
      BY <1>0, <2>1, <3>2, Untouched
    <3> QED BY <1>8, <3>1, <3>2 DEF PutAlias
  <2>3. CASE NextFile("head", "verify", ObjectOrder) /\ UNCHANGED doVars
    <3>1. OpOK' /\ pc' \in {"head", "verify"}
      BY <1>0, <1>2, <2>0, <2>3, NextFileType, OrdersAreSequences DEF Decided, Building
    <3> QED BY <1>0, <1>1, <2>0, <2>1, <2>2, <2>3, <3>1, Untouched DEF TypeInv, Reserved
  <2>4. CASE AbandonPending /\ Supersede
    <3>1. OpOK' /\ pc' \in {"read", "prune"}
      BY <1>0, <2>4, SupersedeType
    <3>2. ObjectTypeOK'
      BY <1>3, <2>1, <2>4
    <3> QED BY <1>0, <2>1, <2>2, <3>1, <3>2, Untouched DEF TypeInv, Reserved, Building
  <2>5. CASE Throw /\ UNCHANGED doVars
    <3>1. OpOK' /\ pc' = "prune"
      BY <1>0, <2>5, ThrowType
    <3> QED BY <1>0, <2>1, <2>2, <2>5, <3>1, Untouched DEF TypeInv, Reserved, Building
  <2> QED BY <1>8, <2>3, <2>4, <2>5 DEF PutAlias
<1>9. CASE VerifyAlias
  <2>0. pc \in Looping /\ pc \in Building
    BY <1>9 DEF VerifyAlias, Looping, Building
  <2>1. UNCHANGED <<now, d1Vars, wakeVars, r2Vars, faultVars>>
    BY <1>9 DEF VerifyAlias
  <2>2. CASE NextFile("verify", "recheckVerified", <<>>) /\ UNCHANGED doVars
    <3>1. OpOK' /\ pc' \in {"verify", "recheckVerified"}
      BY <1>0, <1>2, <2>0, <2>2, NextFileType, EmptySeq DEF Decided, Building, Looping
    <3> QED BY <1>0, <1>1, <2>0, <2>1, <2>2, <3>1, Untouched DEF TypeInv, Reserved
  <2>3. CASE AbandonPending /\ Supersede
    <3>1. OpOK' /\ pc' \in {"read", "prune"}
      BY <1>0, <2>3, SupersedeType
    <3>2. ObjectTypeOK'
      BY <1>3, <2>1, <2>3
    <3> QED BY <1>0, <2>1, <3>1, <3>2, Untouched DEF TypeInv, Reserved, Building
  <2> QED BY <1>9, <2>2, <2>3 DEF VerifyAlias
<1> QED BY <1>4, <1>5, <1>6, <1>7, <1>8, <1>9

(* Acknowledging, purging, scheduling and pruning *)
LEMMA EndSteps ==
  ASSUME TypeInv,
         RecheckVerified \/ Commit \/ CommitCheck \/ Purge \/ Schedule \/ Prune
  PROVE  TypeInv'
<1>0. /\ ClockOK /\ D1OK /\ ObjectTypeOK /\ BucketTypeOK /\ OpOK
      /\ FailureTypeOK /\ Reserved /\ NoValue \in AliasValue /\ publishedAt \in Nat
  BY DEF TypeInv, OpOK, OperationTypeOK, AliasValue
<1>1. ASSUME pc \in Building
      PROVE  /\ pending \in Pending /\ CheckpointOf(pending, publishedAt) \in Checkpoint
             /\ model \in Model /\ base \in Checkpoint
  BY <1>0, <1>1, CheckpointOfType DEF Reserved, OpOK, Equipped, Decided
<1>3. ASSUME AbandonPending, UNCHANGED wakeVars PROVE ObjectTypeOK'
  BY <1>0, <1>3 DEF AbandonPending, ObjectTypeOK
<1>4. ASSUME NEW label \in Building \cup {"schedule"}, label \notin Looping,
             pc \in Building, Continue(label, <<>>, NoValue)
      PROVE  OpOK' /\ pc' = label
  BY <1>0, <1>1, <1>4, ContinueType, EmptySeq, ZenonT(60) DEF Label, Building
<1>5. CASE RecheckVerified
  <2>1. UNCHANGED <<now, d1Vars, wakeVars, r2Vars, faultVars>> /\ pc \in Building
    BY <1>5 DEF RecheckVerified, Building
  <2>2. CASE AbandonPending /\ (Throw \/ Supersede)
    <3>1. OpOK' /\ pc' \in {"read", "prune"}
      BY <1>0, <2>2, ThrowType, SupersedeType
    <3> QED BY <1>0, <1>3, <2>1, <2>2, <3>1, Untouched DEF TypeInv, Reserved, Building
  <2>3. CASE /\ pc' = "commit" /\ publishedAt' = now
             /\ UNCHANGED <<doVars, runVars, readVars, todo, etag>>
    <3>1. OpOK'
      BY <1>0, <1>1, <2>1, <2>3
      DEF OpOK, OperationTypeOK, Equipped, Looping, Label, ClockOK
    <3> QED BY <1>0, <1>1, <2>1, <2>3, <3>1, Untouched DEF TypeInv, Reserved
  <2> QED BY <1>5, <2>2, <2>3 DEF RecheckVerified
<1>6. CASE Commit
  <2>1. UNCHANGED <<now, doVars, wakeVars, r2Vars>> /\ pc \in Building
    BY <1>6 DEF Commit, Building
  <2>2. OpOK' /\ pc' \in {"purge", "commitCheck"}
    BY <1>4, <1>6, <2>1 DEF Commit, Building, Looping
  <2>3. D1OK'
    BY <1>0, <1>1, <1>6, <2>1, CommitType, Untouched DEF Commit
  <2>4. FailureTypeOK'
    BY <1>0, <1>6 DEF Commit, Fault, FailureTypeOK
  <2> QED BY <1>0, <1>1, <2>1, <2>2, <2>3, <2>4, Untouched DEF TypeInv, Reserved
<1>7. CASE CommitCheck
  <2>1. UNCHANGED <<now, d1Vars, wakeVars, r2Vars, faultVars>> /\ pc \in Building
    BY <1>7 DEF CommitCheck, Building
  <2>2. CASE AbandonPending /\ Supersede
    <3>1. OpOK' /\ pc' \in {"read", "prune"}
      BY <1>0, <2>2, SupersedeType
    <3> QED BY <1>0, <1>3, <2>1, <2>2, <3>1, Untouched DEF TypeInv, Reserved, Building
  <2>3. CASE Continue("purge", <<>>, NoValue) /\ UNCHANGED doVars
    <3>1. OpOK' /\ pc' = "purge"
      BY <1>4, <2>1, <2>3 DEF Building, Looping
    <3> QED BY <1>0, <1>1, <2>1, <2>3, <3>1, Untouched DEF TypeInv, Reserved
  <2>4. CASE Throw /\ UNCHANGED doVars
    <3>1. OpOK' /\ pc' = "prune"
      BY <1>0, <2>4, ThrowType
    <3> QED BY <1>0, <2>1, <2>4, <3>1, Untouched DEF TypeInv, Reserved, Building
  <2> QED BY <1>7, <2>2, <2>3, <2>4 DEF CommitCheck
<1>8. CASE Purge
  <2>1. UNCHANGED <<now, d1Vars>> /\ pc \in Building
    BY <1>8 DEF Purge, Building
  <2>2. BucketTypeOK' /\ FailureTypeOK' /\ pending' \in {pending, NoValue}
        /\ UNCHANGED high
    BY <1>0, <1>8, PurgeType DEF Purge
  <2>3. ObjectTypeOK'
    BY <1>0, <1>8, <2>2 DEF Purge, ObjectTypeOK
  <2>4. OpOK' /\ pc' = "schedule"
    BY <1>4, <1>8, <2>1 DEF Purge, Looping
  <2> QED BY <1>0, <2>1, <2>2, <2>3, <2>4, Untouched DEF TypeInv, Reserved, Building
<1>9. CASE Schedule
  <2>1. OpOK' /\ pc' = "prune"
    BY <1>0, <1>9, FinishType DEF Schedule
  <2>2. ObjectTypeOK'
    BY <1>0, <1>9 DEF Schedule, ObjectTypeOK
  <2>3. UNCHANGED <<now, d1Vars, r2Vars, faultVars>>
    BY <1>9 DEF Schedule
  <2> QED BY <1>0, <2>1, <2>2, <2>3, Untouched DEF TypeInv, Reserved, Building
<1>10. CASE Prune
  <2>1. OpOK' /\ pc' = "idle"
    BY <1>0, <1>10 DEF Prune, OpOK, OperationTypeOK, Equipped, Label, Decided,
                       Building, Looping
  <2>2. ObjectTypeOK'
    BY <1>0, <1>10 DEF Prune, ObjectTypeOK, HonorConcurrentNudge
  <2>3. BucketTypeOK'
    BY <1>0, <1>10 DEF Prune, BucketTypeOK
  <2>4. UNCHANGED <<now, d1Vars, faultVars>>
    BY <1>10 DEF Prune
  <2> QED BY <1>0, <2>1, <2>2, <2>3, <2>4, Untouched DEF TypeInv, Reserved, Building
<1> QED BY <1>5, <1>6, <1>7, <1>8, <1>9, <1>10

(* Failed calls, crashes, late requests and lost state *)
LEMMA FailureSteps ==
  ASSUME TypeInv, Failure
  PROVE  TypeInv'
<1>0. /\ ClockOK /\ D1OK /\ ObjectTypeOK /\ BucketTypeOK /\ OpOK
      /\ FailureTypeOK /\ Reserved /\ NoValue \in AliasValue /\ opNow \in Nat
      /\ publishedAt \in Nat /\ etag \in AliasValue
  BY DEF TypeInv, OpOK, OperationTypeOK, AliasValue
<1>1. ASSUME pc \in Building
      PROVE  /\ pending \in Pending /\ ObjectOf(pending) \in Object
             /\ CheckpointOf(pending, publishedAt) \in Checkpoint
             /\ ObjectOf(pending) \in AliasValue
  BY <1>0, <1>1, CheckpointOfType, ObjectOfType DEF Reserved, AliasValue
<1>2. ASSUME pc \in Looping PROVE Head(todo) \in Format
  BY <1>0, <1>2, HeadOfTodo DEF OpOK, Equipped
<1>3. CASE CallFails
  <2>1. OpOK' /\ pc' = "prune"
    BY <1>0, <1>3, ThrowType DEF CallFails
  <2>2. UNCHANGED <<now, doVars, wakeVars>>
    BY <1>3 DEF CallFails
  <2>3. FailureTypeOK'
    BY <1>0, <1>3 DEF CallFails, Fault, FailureTypeOK
  <2>4. D1OK' /\ BucketTypeOK'
    <3>1. CASE UNCHANGED <<d1Vars, r2Vars>>
      BY <1>0, <3>1, Untouched
    <3>2. CASE ExpireDirectoryEntries(ExpiryCutoff(opNow), opNow) /\ UNCHANGED r2Vars
      BY <1>0, <3>2, ExpireType, ExpiryCutoffType, Untouched
    <3>3. CASE pc = "matchCommit" /\ CommitPublication(base) /\ UNCHANGED r2Vars
      <4>1. base \in Checkpoint
        BY <1>0, <3>3 DEF OpOK, Equipped, Decided
      <4> QED BY <1>0, <3>3, <4>1, CommitType, Untouched
    <3>4. CASE pc = "immutable" /\ Store(Head(todo), ObjectOf(pending))
               /\ UNCHANGED <<d1Vars, flight>>
      <4>1. Head(todo) \in Format /\ ObjectOf(pending) \in Object
        BY <1>1, <1>2, <3>4 DEF Building, Looping
      <4>2. BucketTypeOK'
        BY <1>0, <3>4, <4>1, StoreType DEF BucketTypeOK
      <4> QED BY <1>0, <3>4, <4>2, Untouched
    <3>5. CASE pc = "put" /\ alias' = [alias EXCEPT ![Head(todo)] = ObjectOf(pending)]
               /\ UNCHANGED <<d1Vars, stored, cache, flight>>
      <4>1. /\ Head(todo) \in Format /\ ObjectOf(pending) \in AliasValue
            /\ flight' \in Request \cup {NoValue}
        BY <1>0, <1>1, <1>2, <3>5 DEF Building, Looping, BucketTypeOK
      <4>2. BucketTypeOK'
        BY <1>0, <3>5, <4>1, AliasType
      <4> QED BY <1>0, <3>5, <4>2, Untouched
    <3> QED BY <1>3, <3>1, <3>2, <3>3, <3>4, <3>5 DEF CallFails
  <2> QED BY <1>0, <2>1, <2>2, <2>3, <2>4, Untouched DEF TypeInv, Reserved, Building
<1>4. CASE Crash
  <2>1. OpOK' /\ pc' = "idle"
    BY <1>0, <1>4, EmptySeq DEF Crash, OpOK, OperationTypeOK, Equipped, Label,
                                Decided, Building, Looping
  <2>2. flight' \in Request \cup {NoValue}
    <3>1. OpenRequest \in Request \cup {NoValue}
      <4>1. CASE pc = "immutable"
        BY <1>1, <1>2, <4>1 DEF OpenRequest, Request, Building, Looping
      <4>2. CASE pc = "put"
        BY <1>0, <1>1, <1>2, <4>2 DEF OpenRequest, Request, Building, Looping
      <4>3. CASE pc = "commit"
        BY <1>1, <4>3 DEF OpenRequest, Request, Building
      <4>4. CASE pc \notin {"immutable", "put", "commit"}
        BY <4>4 DEF OpenRequest
      <4> QED BY <4>1, <4>2, <4>3, <4>4
    <3> QED BY <1>0, <1>4, <3>1 DEF Crash, BucketTypeOK
  <2>3. BucketTypeOK'
    BY <1>0, <1>4, <2>2 DEF Crash, BucketTypeOK
  <2>4. ObjectTypeOK'
    BY <1>0, <1>4 DEF Crash, ObjectTypeOK
  <2>5. FailureTypeOK'
    BY <1>0, <1>4 DEF Crash, FailureTypeOK
  <2>6. UNCHANGED <<now, d1Vars>>
    BY <1>4 DEF Crash
  <2> QED BY <1>0, <2>1, <2>3, <2>4, <2>5, <2>6, Untouched DEF TypeInv, Reserved, Building
<1>5. CASE Land
  <2>1. UNCHANGED <<now, doVars, wakeVars, opVars, faultVars>>
        /\ flight \in Request /\ flight' \in Request \cup {NoValue}
    BY <1>0, <1>5 DEF Land, BucketTypeOK
  <2>2. D1OK' /\ BucketTypeOK'
    <3>1. CASE /\ flight.kind = "store"
               /\ Store(flight.file, flight.object) /\ UNCHANGED d1Vars
      <4>1. flight.file \in Format /\ flight.object \in Object
        BY <2>1, <3>1 DEF Request
      <4> QED BY <1>0, <2>1, <3>1, <4>1, StoreType, Untouched
    <3>2. CASE /\ flight.kind = "put"
               /\ alias' = [alias EXCEPT ![flight.file] = flight.object]
               /\ UNCHANGED <<d1Vars, stored, cache>>
      <4>1. flight.file \in Format /\ flight.object \in AliasValue
        BY <2>1, <3>2 DEF Request, AliasValue
      <4> QED BY <1>0, <2>1, <3>2, <4>1, AliasType, Untouched
    <3>3. CASE /\ flight.kind = "commit" /\ CommitPublication(flight.checkpoint)
               /\ UNCHANGED <<stored, alias, cache>>
      <4>1. flight.checkpoint \in Checkpoint
        BY <2>1, <3>3 DEF Request
      <4>2. BucketTypeOK'
        BY <1>0, <2>1, <3>3 DEF BucketTypeOK
      <4> QED BY <1>0, <3>3, <4>1, <4>2, CommitType
    <3>4. CASE UNCHANGED <<d1Vars, stored, alias, cache>>
      BY <1>0, <2>1, <3>4, Untouched DEF BucketTypeOK
    <3> QED BY <1>5, <3>1, <3>2, <3>3, <3>4 DEF Land
  <2> QED BY <1>0, <2>1, <2>2, Untouched DEF TypeInv, Reserved
<1>6. CASE \E f \in Format : LoseAlias(f)
  <2>1. PICK f \in Format : LoseAlias(f)
    BY <1>6
  <2>2. /\ UNCHANGED <<now, d1Vars, doVars, wakeVars, stored, cache, flight, opVars>>
        /\ FailureTypeOK'
    BY <1>0, <2>1 DEF LoseAlias, FailureTypeOK
  <2>3. BucketTypeOK'
    <3>1. PICK x \in {NoValue, Corrupt} : alias' = [alias EXCEPT ![f] = x]
      BY <2>1 DEF LoseAlias
    <3>2. x \in AliasValue /\ flight' \in Request \cup {NoValue}
      BY <1>0, <2>2 DEF AliasValue, BucketTypeOK
    <3> QED BY <1>0, <2>2, <3>1, <3>2, AliasType
  <2> QED BY <1>0, <2>2, <2>3, Untouched DEF TypeInv, Reserved
<1>7. CASE ResetStorage
  <2>1. UNCHANGED <<now, d1Vars, r2Vars, opVars>> /\ pc = "idle"
    BY <1>7 DEF ResetStorage
  <2>2. ObjectTypeOK'
    <3>1. 0 \in Generation
      BY ConstantsAssumption DEF Generation
    <3> QED BY <1>0, <1>7, <3>1 DEF ResetStorage, ObjectTypeOK
  <2>3. FailureTypeOK'
    BY <1>0, <1>7 DEF ResetStorage, FailureTypeOK
  <2> QED BY <1>0, <2>1, <2>2, <2>3, Untouched DEF TypeInv, Reserved, Building
<1> QED BY <1>3, <1>4, <1>5, <1>6, <1>7 DEF Failure

(* Publications, hourly cleanup, ranking, nudges, readers and the clock *)
LEMMA EnvironmentSteps ==
  ASSUME TypeInv, Environment
  PROVE  TypeInv'
<1>0. /\ ClockOK /\ D1OK /\ ObjectTypeOK /\ BucketTypeOK /\ OpOK
      /\ FailureTypeOK /\ Reserved
  BY DEF TypeInv
<1>1. ASSUME NEW s \in Server, NEW v \in Version \cup {NoValue},
             NEW at \in (now - MaxSkew)..(now + MaxSkew), Publish(s, v, at)
      PROVE  TypeInv'
  <2>1. at \in Nat
    <3>1. Epoch \in Nat /\ MaxSkew \in 0..Epoch
      BY ConstantsAssumption
    <3> QED BY <1>0, <3>1 DEF ClockOK
  <2>2. UNCHANGED <<now, order, ckpt, history, doVars, nudged, nudging, alarm,
                    r2Vars, opVars, faultVars>>
    BY <1>1 DEF Publish
  <2>3. ObjectTypeOK'
    <3>1. nudgeDue' \in {nudgeDue, Nudges} /\ Nudges \in BOOLEAN
      BY <1>1, ConstantsAssumption DEF Publish
    <3> QED BY <1>0, <2>2, <3>1 DEF ObjectTypeOK
  <2>4. D1OK'
    <3>1. revision' \in Nat /\ updatedAt' \in Nat /\ outbox' \subseteq Nat
      <4>1. CASE RaiseRevision(at)
        BY <1>0, <2>1, <4>1 DEF RaiseRevision, Larger, D1OK, D1TypeOK
      <4>2. CASE UNCHANGED <<revision, updatedAt, outbox>>
        BY <1>0, <4>2 DEF D1OK, D1TypeOK
      <4> QED BY <1>1, <4>1, <4>2 DEF Publish
    <3>2. entry' = [entry EXCEPT ![s] = v] /\ lastSeen' = [lastSeen EXCEPT ![s] = at]
      BY <1>1 DEF Publish
    <3>3. D1TypeOK'
      BY <1>0, <2>1, <2>2, <3>1, <3>2 DEF D1OK, D1TypeOK
    <3>4. EntriesBacked'
      BY <1>0, <2>1, <3>2 DEF D1OK, D1TypeOK, EntriesBacked
    <3> QED BY <3>3, <3>4 DEF D1OK
  <2> QED BY <1>0, <2>2, <2>3, <2>4, Untouched DEF TypeInv, Reserved
<1>2. CASE HourlyExpiry
  <2>1. UNCHANGED <<now, doVars, wakeVars, r2Vars, opVars, faultVars>>
    BY <1>2 DEF HourlyExpiry
  <2>2. D1OK'
    <3>1. now \in Nat /\ now - ListingTtl \in Int
      BY <1>0, ConstantsAssumption DEF ClockOK
    <3> QED BY <1>0, <1>2, <3>1, ExpireType DEF HourlyExpiry
  <2> QED BY <1>0, <2>1, <2>2, Untouched DEF TypeInv, Reserved
<1>3. CASE \E o \in Order : Rerank(o)
  <2>1. /\ UNCHANGED <<now, revision, updatedAt, entry, lastSeen, outbox, ckpt,
                       history, doVars, wakeVars, r2Vars, opVars, faultVars>>
        /\ order' \in Order
    BY <1>3 DEF Rerank
  <2>2. D1OK'
    BY <1>0, <2>1 DEF D1OK, D1TypeOK, EntriesBacked
  <2> QED BY <1>0, <2>1, <2>2, Untouched DEF TypeInv, Reserved
<1>4. CASE NudgePut \/ NudgeArm
  <2>1. UNCHANGED <<now, d1Vars, doVars, r2Vars, opVars, faultVars>>
    BY <1>4 DEF NudgePut, NudgeArm
  <2>2. ObjectTypeOK'
    BY <1>0, <1>4 DEF NudgePut, NudgeArm, ObjectTypeOK
  <2> QED BY <1>0, <2>1, <2>2, Untouched DEF TypeInv, Reserved
<1>5. ASSUME NEW f \in Representation, ReaderFill(f) PROVE TypeInv'
  <2>1. /\ UNCHANGED <<now, d1Vars, doVars, wakeVars, stored, alias, flight, opVars,
                       faultVars>>
        /\ cache' = [cache EXCEPT ![f] = alias[f]] /\ IsObject(alias[f])
    BY <1>5 DEF ReaderFill
  <2>2. alias[f] \in Object
    BY <1>0, <2>1, ConstantsAssumption DEF BucketTypeOK, AliasValue, IsObject
  <2>3. BucketTypeOK'
    BY <1>0, <2>1, <2>2 DEF BucketTypeOK
  <2> QED BY <1>0, <2>1, <2>3, Untouched DEF TypeInv, Reserved
<1>6. CASE Tick
  <2>1. UNCHANGED <<d1Vars, doVars, wakeVars, r2Vars, opVars, faultVars>>
    BY <1>6 DEF Tick
  <2>2. ClockOK'
    <3>1. Epoch \in Nat
      BY ConstantsAssumption
    <3> QED BY <1>0, <1>6, <3>1 DEF Tick, ClockOK
  <2> QED BY <1>0, <2>1, <2>2, Untouched DEF TypeInv, Reserved
<1> QED BY <1>1, <1>2, <1>3, <1>4, <1>5, <1>6 DEF Environment

(* A step keeps the strengthened type invariant. *)
LEMMA TypeInvStep == TypeInv /\ [Next]_vars => TypeInv'
<1> SUFFICES ASSUME TypeInv, [Next]_vars PROVE TypeInv'
  OBVIOUS
<1>1. CASE BuilderStep
  BY <1>1, ReadSteps, MatchSteps, BuildSteps, EndSteps DEF BuilderStep
<1>2. CASE Failure
  BY <1>2, FailureSteps
<1>3. CASE Environment
  BY <1>3, EnvironmentSteps
<1>4. CASE UNCHANGED vars
  BY <1>4, Untouched DEF TypeInv, Reserved, vars
<1> QED BY <1>1, <1>2, <1>3, <1>4 DEF Next

(* The strengthened type invariant holds in every behavior. *)
LEMMA TypeInvariant == Spec => []TypeInv
BY TypeInvInit, TypeInvStep, PTL DEF Spec

(* Every variable always holds a value of its type: in particular no          *)
(* interleaving leaves a build without the pending build, model, checkpoint   *)
(* or file it works on.                                                       *)
THEOREM TypeCorrect == Spec => []TypeOK
<1>1. TypeInv => TypeOK
  BY DEF TypeInv, TypeOK, ClockOK, D1OK, OpOK
<1> QED BY <1>1, TypeInvariant, PTL

-----------------------------------------------------------------------------
(* What a step does to D1 *)

(* The checkpoints someone may still be trying to commit *)
Candidate(c) ==
  \/ pc = "matchCommit" /\ c = base
  \/ pc = "commit" /\ c = CheckpointOf(pending, publishedAt)
  \/ flight # NoValue /\ flight.kind = "commit" /\ c = flight.checkpoint

D1Untouched == UNCHANGED <<revision, entry, outbox, ckpt, history>>
D1Raised(at) == RaiseRevision(at) /\ UNCHANGED <<ckpt, history>>
D1Committed(c) == c \in Checkpoint /\ Candidate(c) /\ CanCommit(c) /\ CommitPublication(c)

(* A transaction of expireDirectoryEntries that drops no listed server leaves *)
(* the listing as it was.                                                     *)
LEMMA ExpiryRaisesOrKeeps ==
  ASSUME TypeInv, NEW cutoff, NEW at, ExpireDirectoryEntries(cutoff, at)
  PROVE  D1Untouched \/ D1Raised(at)
<1>1. CASE \E s \in Expired(cutoff) : entry[s] # NoValue
  BY <1>1 DEF ExpireDirectoryEntries, D1Raised
<1>2. CASE ~ \E s \in Expired(cutoff) : entry[s] # NoValue
  <2>1. /\ entry' = [s \in Server |-> IF s \in Expired(cutoff) THEN NoValue ELSE entry[s]]
        /\ UNCHANGED <<revision, outbox, ckpt, history>>
    BY <1>2 DEF ExpireDirectoryEntries
  <2>2. entry \in [Server -> Version \cup {NoValue}]
    BY DEF TypeInv, D1OK, D1TypeOK
  <2>3. entry' = entry
    BY <1>2, <2>1, <2>2
  <2> QED BY <2>1, <2>3 DEF D1Untouched
<1> QED BY <1>1, <1>2

(* A publication whose content is already public changes nothing visible. *)
LEMMA PublishRaisesOrKeeps ==
  ASSUME TypeInv, NEW s \in Server, NEW v \in Version \cup {NoValue}, NEW at,
         Publish(s, v, at)
  PROVE  D1Untouched \/ D1Raised(at)
<1>1. CASE VisibleContentChanged(s, v, at)
  BY <1>1 DEF Publish, D1Raised
<1>2. CASE ~VisibleContentChanged(s, v, at)
  <2>1. /\ entry' = [entry EXCEPT ![s] = v]
        /\ UNCHANGED <<revision, outbox, ckpt, history>>
    BY <1>2 DEF Publish
  <2>2. entry \in [Server -> Version \cup {NoValue}] /\ entry[s] = v
    BY <1>2 DEF TypeInv, D1OK, D1TypeOK, VisibleContentChanged
  <2>3. entry' = entry
    BY <2>1, <2>2
  <2> QED BY <2>1, <2>3 DEF D1Untouched
<1> QED BY <1>1, <1>2

(* Only publications, expiry and the commit of a candidate write D1.          *)
LEMMA D1Step ==
  ASSUME TypeInv, [Next]_vars
  PROVE  \/ D1Untouched
         \/ \E at : D1Raised(at)
         \/ \E c : D1Committed(c)
<1>0. /\ pc = "matchCommit" => base \in Checkpoint
      /\ pc = "commit" => CheckpointOf(pending, publishedAt) \in Checkpoint
      /\ flight # NoValue /\ flight.kind = "commit" => flight.checkpoint \in Checkpoint
  <2>1. pc = "matchCommit" => base \in Checkpoint
    BY DEF TypeInv, OpOK, Equipped, Decided
  <2>2. pc = "commit" => CheckpointOf(pending, publishedAt) \in Checkpoint
    BY CheckpointOfType DEF TypeInv, OpOK, OperationTypeOK, Reserved, Building
  <2>3. flight # NoValue /\ flight.kind = "commit" => flight.checkpoint \in Checkpoint
    BY DEF TypeInv, BucketTypeOK, Request
  <2> QED BY <2>1, <2>2, <2>3
<1>1. CASE BuilderStep
  <2>1. CASE ExpireRows
    BY <2>1, ExpiryRaisesOrKeeps DEF ExpireRows
  <2>2. CASE MatchCommit
    BY <1>0, <2>2 DEF MatchCommit, D1Untouched, D1Committed, Candidate
  <2>3. CASE Commit
    BY <1>0, <2>3 DEF Commit, D1Untouched, D1Committed, Candidate
  <2>4. CASE ~(ExpireRows \/ MatchCommit \/ Commit)
    BY <1>1, <2>4
    DEF D1Untouched, BuilderStep, Start, ReadModel, ReadCheckpoint, Decide, MatchAlias,
        MatchRecheck, MatchPurge, Reserve, PutImmutable, Recheck, AliasHead, PutAlias,
        VerifyAlias, RecheckVerified, CommitCheck, Purge, Schedule, Prune
  <2> QED BY <2>1, <2>2, <2>3, <2>4
<1>2. CASE Failure
  <2>1. CASE CallFails
    <3>1. CASE UNCHANGED d1Vars
      BY <3>1 DEF D1Untouched
    <3>2. CASE ExpireDirectoryEntries(ExpiryCutoff(opNow), opNow)
      BY <3>2, ExpiryRaisesOrKeeps
    <3>3. CASE pc = "matchCommit" /\ CanCommit(base) /\ CommitPublication(base)
      BY <1>0, <3>3 DEF D1Committed, Candidate
    <3> QED BY <2>1, <3>1, <3>2, <3>3 DEF CallFails
  <2>2. CASE Land
    <3>1. CASE UNCHANGED d1Vars
      BY <3>1 DEF D1Untouched
    <3>2. CASE /\ flight # NoValue /\ flight.kind = "commit"
               /\ CanCommit(flight.checkpoint) /\ CommitPublication(flight.checkpoint)
      BY <1>0, <3>2 DEF D1Committed, Candidate
    <3> QED BY <2>2, <3>1, <3>2 DEF Land
  <2>3. CASE ~(CallFails \/ Land)
    BY <1>2, <2>3 DEF Failure, Crash, LoseAlias, ResetStorage, D1Untouched
  <2> QED BY <2>1, <2>2, <2>3
<1>3. CASE Environment
  <2>1. CASE HourlyExpiry
    BY <2>1, ExpiryRaisesOrKeeps DEF HourlyExpiry
  <2>2. ASSUME NEW s \in Server, NEW v \in Version \cup {NoValue}, NEW at,
               Publish(s, v, at)
        PROVE  D1Untouched \/ D1Raised(at)
    BY <2>2, PublishRaisesOrKeeps
  <2>3. CASE (\E o \in Order : Rerank(o)) \/ NudgePut \/ NudgeArm
             \/ (\E f \in Representation : ReaderFill(f)) \/ Tick
    BY <2>3 DEF Rerank, NudgePut, NudgeArm, ReaderFill, Tick, D1Untouched
  <2> QED BY <1>3, <2>1, <2>2, <2>3 DEF Environment
<1>4. CASE UNCHANGED vars
  BY <1>4 DEF vars, D1Untouched
<1> QED BY <1>1, <1>2, <1>3, <1>4 DEF Next

-----------------------------------------------------------------------------
(* What a step does to the buckets and the CDN *)

(* Who writes the private bucket *)
LEMMA StoredSource ==
  ASSUME [Next]_vars
  PROVE  \/ UNCHANGED stored
         \/ Prune
         \/ pc = "immutable" /\ Store(Head(todo), ObjectOf(pending))
         \/ /\ flight # NoValue /\ flight.kind = "store"
            /\ Store(flight.file, flight.object)
<1>1. CASE BuilderStep
  BY <1>1
  DEF BuilderStep, Start, ExpireRows, ReadModel, ReadCheckpoint, Decide,
      MatchAlias, MatchRecheck, MatchCommit, MatchPurge, PurgeGeneration, Reserve,
      PutImmutable, Recheck, AliasHead, PutAlias, VerifyAlias, RecheckVerified,
      Commit, CommitCheck, Purge, Schedule
<1>2. CASE Failure
  BY <1>2 DEF Failure, CallFails, Crash, Land, LoseAlias, ResetStorage
<1>3. CASE Environment \/ UNCHANGED vars
  BY <1>3 DEF Environment, Publish, HourlyExpiry, Rerank, NudgePut, NudgeArm,
              ReaderFill, Tick, vars
<1> QED BY <1>1, <1>2, <1>3 DEF Next

(* Who writes the public aliases *)
LEMMA AliasSource ==
  ASSUME [Next]_vars
  PROVE  \/ UNCHANGED alias
         \/ pc = "put" /\ EtagMatches(Head(todo), etag)
            /\ alias' = [alias EXCEPT ![Head(todo)] = ObjectOf(pending)]
         \/ /\ flight # NoValue /\ flight.kind = "put"
            /\ EtagMatches(flight.file, flight.etag)
            /\ alias' = [alias EXCEPT ![flight.file] = flight.object]
         \/ \E g \in Format : LoseAlias(g)
<1>1. CASE BuilderStep
  BY <1>1
  DEF BuilderStep, Start, ExpireRows, ReadModel, ReadCheckpoint, Decide,
      MatchAlias, MatchRecheck, MatchCommit, MatchPurge, PurgeGeneration, Reserve,
      PutImmutable, Store, Recheck, AliasHead, PutAlias, VerifyAlias,
      RecheckVerified, Commit, CommitCheck, Purge, Schedule, Prune
<1>2. CASE Failure
  BY <1>2 DEF Failure, CallFails, Store, Crash, Land, ResetStorage
<1>3. CASE Environment \/ UNCHANGED vars
  BY <1>3 DEF Environment, Publish, HourlyExpiry, Rerank, NudgePut, NudgeArm,
              ReaderFill, Tick, vars
<1> QED BY <1>1, <1>2, <1>3 DEF Next

(* Who fills and empties the CDN *)
LEMMA CacheSource ==
  ASSUME [Next]_vars
  PROVE  \/ UNCHANGED cache
         \/ PurgeCache
         \/ \E g \in Representation : ReaderFill(g)
<1>1. CASE BuilderStep
  BY <1>1
  DEF BuilderStep, Start, ExpireRows, ReadModel, ReadCheckpoint, Decide,
      MatchAlias, MatchRecheck, MatchCommit, MatchPurge, PurgeGeneration, Reserve,
      PutImmutable, Store, Recheck, AliasHead, PutAlias, VerifyAlias,
      RecheckVerified, Commit, CommitCheck, Purge, Schedule, Prune
<1>2. CASE Failure
  BY <1>2 DEF Failure, CallFails, Store, Crash, Land, LoseAlias, ResetStorage
<1>3. CASE Environment \/ UNCHANGED vars
  BY <1>3 DEF Environment, Publish, HourlyExpiry, Rerank, NudgePut, NudgeArm,
              Tick, vars
<1> QED BY <1>1, <1>2, <1>3 DEF Next

-----------------------------------------------------------------------------
(* The outbox *)

(* The outbox at the start, and after each kind of step *)
LEMMA OutboxStep ==
  /\ Init => OutboxCoversUnpublished
  /\ TypeInv /\ OutboxCoversUnpublished /\ [Next]_vars => OutboxCoversUnpublished'
<1>1. Init => OutboxCoversUnpublished
  <2> SUFFICES ASSUME Init PROVE OutboxCoversUnpublished
    OBVIOUS
  <2>1. revision \in Nat
    BY TypeInvInit DEF TypeInv, D1OK, D1TypeOK
  <2>2. ckpt.rev = 0 /\ outbox = IF revision = 0 THEN {} ELSE {revision}
    BY DEF Init, NoCheckpoint
  <2> QED BY <2>1, <2>2 DEF OutboxCoversUnpublished
<1>2. ASSUME TypeInv, OutboxCoversUnpublished, [Next]_vars
      PROVE  OutboxCoversUnpublished'
  <2>0. revision \in Nat /\ ckpt.rev \in Nat
    BY <1>2 DEF TypeInv, D1OK, D1TypeOK, Checkpoint
  <2>1. CASE D1Untouched
    BY <1>2, <2>1 DEF D1Untouched, OutboxCoversUnpublished
  <2>2. ASSUME NEW at, D1Raised(at) PROVE OutboxCoversUnpublished'
    BY <1>2, <2>0, <2>2 DEF D1Raised, RaiseRevision, OutboxCoversUnpublished
  <2>3. ASSUME NEW c, D1Committed(c) PROVE OutboxCoversUnpublished'
    <3>1. ckpt' = c /\ revision' = revision /\ c.rev = revision
      BY <2>3 DEF D1Committed, CanCommit, CommitPublication
    <3>2. outbox' = {}
      <4>1. outbox' = {r \in outbox : r > c.rev} /\ outbox \subseteq {revision}
        BY <1>2, <2>3 DEF D1Committed, CommitPublication, OutboxCoversUnpublished
      <4>2. \A r \in outbox : ~(r > c.rev)
        BY <2>0, <3>1, <4>1
      <4> QED BY <4>1, <4>2
    <3> QED BY <2>0, <3>1, <3>2 DEF OutboxCoversUnpublished
  <2> QED BY <1>2, <2>1, <2>2, <2>3, D1Step
<1> QED BY <1>1, <1>2

(* A visible change waits in the outbox exactly until a checkpoint at its     *)
(* revision, whatever order publications, expiry and commits come in, and     *)
(* whether a commit fails, is retried or lands after its builder crashed.     *)
THEOREM OutboxCorrect == Spec => []OutboxCoversUnpublished
BY TypeInvariant, OutboxStep, PTL DEF Spec

-----------------------------------------------------------------------------
(* The order of checkpoints *)

(* A committed checkpoint is newer, or is the one already there. *)
LEMMA CheckpointAdvances ==
  ASSUME TypeInv, [Next]_vars
  PROVE  ckpt' # ckpt => ckpt'.gen > ckpt.gen /\ ckpt'.rev >= ckpt.rev
<1>1. ckpt \in Checkpoint
  BY DEF TypeInv, D1OK, D1TypeOK
<1>2. ASSUME NEW c, D1Committed(c), ckpt' # ckpt
      PROVE  ckpt'.gen > ckpt.gen /\ ckpt'.rev >= ckpt.rev
  BY <1>1, <1>2
  DEF D1Committed, CanCommit, CommitPublication, Checkpoint, Generation
<1>3. D1Untouched \/ (\E at : D1Raised(at)) => ckpt' = ckpt
  BY DEF D1Untouched, D1Raised
<1> QED BY <1>2, <1>3, D1Step

-----------------------------------------------------------------------------
(* The order of aliases *)

(* A conditional put was prepared on an older object than the one it writes.  *)
PutIsNewer ==
  /\ pc = "put" => ObservedGeneration(etag) < pending.gen
  /\ flight # NoValue /\ flight.kind = "put" =>
       ObservedGeneration(flight.etag) < flight.object.gen

(* A put in preparation or in flight is newer than the alias it saw. *)
LEMMA PutIsNewerInvariant == Spec => []PutIsNewer
<1>1. Init => PutIsNewer
  BY DEF Init, PutIsNewer
<1>2. ASSUME TypeInv, PutIsNewer, [Next]_vars
      PROVE  PutIsNewer'
  <2>1. CASE BuilderStep
    <3>1. flight' = flight
      BY <2>1
      DEF BuilderStep, Start, ExpireRows, ReadModel, ReadCheckpoint, Decide,
          MatchAlias, MatchRecheck, MatchCommit, MatchPurge, PurgeGeneration, Reserve,
          PutImmutable, Recheck, AliasHead, PutAlias, VerifyAlias, RecheckVerified,
          Commit, CommitCheck, Purge, Schedule, Prune
    <3>2. CASE AliasHead
      <4>1. pc' = "put" => /\ pending' = pending
                           /\ ObservedGeneration(etag') < pending.gen
        <5>1. CASE Throw \/ Supersede
          BY <5>1 DEF Throw, Supersede
        <5>2. CASE NextFile("head", "verify", ObjectOrder)
          BY <5>2 DEF NextFile, Continue
        <5>3. CASE /\ ObservedGeneration(alias[Head(todo)]) < pending.gen
                   /\ Continue("put", todo, alias[Head(todo)]) /\ UNCHANGED doVars
          BY <5>3 DEF Continue
        <5> QED BY <3>2, <5>1, <5>2, <5>3 DEF AliasHead
      <4> QED BY <1>2, <3>1, <4>1 DEF PutIsNewer
    <3>3. CASE ~AliasHead
      <4>1. pc' # "put"
        BY <2>1, <3>3
        DEF BuilderStep, Start, ExpireRows, ReadModel, ReadCheckpoint, Decide,
            MatchAlias, MatchRecheck, MatchCommit, MatchPurge, Reserve,
            PutImmutable, Recheck, PutAlias, VerifyAlias, RecheckVerified,
            Commit, CommitCheck, Purge, Schedule, Prune,
            Throw, Supersede, Finish, NextFile, Continue
      <4> QED BY <1>2, <3>1, <4>1 DEF PutIsNewer
    <3> QED BY <3>2, <3>3
  <2>2. CASE Failure
    <3>1. CASE CallFails
      <4>1. pc' = "prune" /\ flight' = flight
        BY <3>1 DEF CallFails, Throw, Store
      <4> QED BY <1>2, <4>1 DEF PutIsNewer
    <3>2. CASE Crash
      <4>1. pc' = "idle" /\ flight' \in {flight, OpenRequest}
        BY <3>2 DEF Crash
      <4>2. CASE pc = "put" /\ flight' = OpenRequest
        <5>1. flight' = [kind |-> "put", file |-> Head(todo),
                         object |-> ObjectOf(pending), etag |-> etag]
          BY <4>2 DEF OpenRequest
        <5> QED BY <1>2, <4>1, <4>2, <5>1 DEF PutIsNewer, ObjectOf
      <4>3. CASE pc # "put" /\ flight' = OpenRequest
        <5>1. flight' # NoValue => flight'.kind # "put"
          BY <4>3 DEF OpenRequest
        <5> QED BY <1>2, <4>1, <5>1 DEF PutIsNewer
      <4>4. CASE flight' = flight
        BY <1>2, <4>1, <4>4 DEF PutIsNewer
      <4> QED BY <4>1, <4>2, <4>3, <4>4
    <3>3. CASE Land
      BY <1>2, <3>3 DEF Land, PutIsNewer
    <3>4. CASE \E f \in Format : LoseAlias(f)
      BY <1>2, <3>4 DEF LoseAlias, PutIsNewer
    <3>5. CASE ResetStorage
      BY <1>2, <3>5 DEF ResetStorage, PutIsNewer
    <3> QED BY <2>2, <3>1, <3>2, <3>3, <3>4, <3>5 DEF Failure
  <2>3. CASE Environment
    BY <1>2, <2>3 DEF Environment, Publish, HourlyExpiry, Rerank, NudgePut, NudgeArm,
                      ReaderFill, Tick, PutIsNewer
  <2>4. CASE UNCHANGED vars
    BY <1>2, <2>4 DEF vars, PutIsNewer
  <2> QED BY <1>2, <2>1, <2>2, <2>3, <2>4 DEF Next
<1> QED BY <1>1, <1>2, TypeInvariant, PTL DEF Spec

(* No step takes an alias back to an older generation: the conditional put    *)
(* succeeds only on the object its generation was compared with.              *)
LEMMA AliasAdvances ==
  ASSUME TypeInv, PutIsNewer, [Next]_vars, NEW f \in Format, alias'[f] \in Object
  PROVE  alias'[f].gen >= ObservedGeneration(alias[f])
<1>0. alias \in [Format -> AliasValue]
  BY DEF TypeInv, BucketTypeOK
<1>1. alias[f] \in AliasValue /\ ObservedGeneration(alias[f]) \in Nat
  BY <1>0, ConstantsAssumption, SMTT(40)
  DEF ObservedGeneration, IsObject, AliasValue, Object, Generation
<1>2. CASE UNCHANGED alias
  <2>1. IsObject(alias[f]) /\ alias[f] \in Object
    BY <1>2, ValuesAssumption DEF IsObject
  <2> QED BY <1>1, <1>2, <2>1 DEF ObservedGeneration
<1>3. ASSUME NEW g, NEW object, NEW tag, object.gen \in Nat,
             alias' = [alias EXCEPT ![g] = object], EtagMatches(g, tag),
             ObservedGeneration(tag) < object.gen
      PROVE  alias'[f].gen >= ObservedGeneration(alias[f])
  <2>1. CASE f = g
    BY <1>0, <1>1, <1>3, <2>1 DEF EtagMatches
  <2>2. CASE f # g
    <3>1. alias'[f] = alias[f]
      BY <1>0, <1>3, <2>2
    <3>2. IsObject(alias[f]) /\ alias[f] \in Object
      BY <3>1, ValuesAssumption DEF IsObject
    <3> QED BY <1>1, <3>1, <3>2 DEF ObservedGeneration
  <2> QED BY <2>1, <2>2
<1>4. CASE pc = "put" /\ EtagMatches(Head(todo), etag)
           /\ alias' = [alias EXCEPT ![Head(todo)] = ObjectOf(pending)]
  <2>1. ObjectOf(pending).gen \in Nat /\ ObjectOf(pending).gen = pending.gen
    BY <1>4, ConstantsAssumption
    DEF TypeInv, Reserved, Building, Pending, Generation, ObjectOf
  <2> QED BY <1>3, <1>4, <2>1 DEF PutIsNewer
<1>5. CASE /\ flight # NoValue /\ flight.kind = "put"
           /\ EtagMatches(flight.file, flight.etag)
           /\ alias' = [alias EXCEPT ![flight.file] = flight.object]
  <2>1. flight.object.gen \in Nat
    BY <1>5, ConstantsAssumption
    DEF TypeInv, BucketTypeOK, Request, Object, Generation
  <2> QED BY <1>3, <1>5, <2>1 DEF PutIsNewer
<1>6. CASE \E g \in Format : LoseAlias(g)
  <2>1. PICK g \in Format, x \in {NoValue, Corrupt} : alias' = [alias EXCEPT ![g] = x]
    BY <1>6 DEF LoseAlias
  <2>2. f # g
    BY <1>0, <2>1, ValuesAssumption
  <2>3. alias'[f] = alias[f]
    BY <1>0, <2>1, <2>2
  <2>4. IsObject(alias[f]) /\ alias[f] \in Object
    BY <2>3, ValuesAssumption DEF IsObject
  <2> QED BY <1>1, <2>3, <2>4 DEF ObservedGeneration
<1> QED BY <1>2, <1>4, <1>5, <1>6, AliasSource

(* A public alias is never taken back to an older generation by the builder   *)
(* or by a put that outlived the crash of the builder that sent it.           *)
THEOREM AliasesAreMonotone == Spec => AliasMonotone
<1>1. TypeInv /\ PutIsNewer /\ [Next]_vars
      => [\A f \in Format : alias'[f] \in Object
            => alias'[f].gen >= ObservedGeneration(alias[f])]_vars
  BY AliasAdvances
<1> QED BY <1>1, TypeInvariant, PutIsNewerInvariant, PTL DEF Spec, AliasMonotone

-----------------------------------------------------------------------------
(* Refinement of DirectoryPromise *)

(* What is known of the listing at the revision a value was read at: the      *)
(* revision is not ahead of D1, and while D1 is still at it the value shows   *)
(* exactly the servers D1 lists.                                              *)
Knows(rev, content) ==
  rev \in Nat /\ rev <= revision /\ (rev = revision => content.shown = entry)

(* The same of a value that a step writes, or leaves alone. *)
KnowsNext(rev, content) ==
  rev \in Nat /\ rev <= revision' /\ (rev = revision' => content.shown = entry')

Knowledge ==
  /\ model # NoValue => Knows(model.rev, model.content)
  /\ pending # NoValue => Knows(pending.rev, pending.content)
  /\ base # NoValue /\ base.gen > 0 => Knows(base.rev, base.content)
  /\ ckpt.gen > 0 => Knows(ckpt.rev, ckpt.content)
  /\ flight # NoValue /\ flight.kind = "commit" /\ flight.checkpoint.gen > 0 =>
       Knows(flight.checkpoint.rev, flight.checkpoint.content)

(* D1 lists other servers only at a new revision, so knowledge lasts. *)
LEMMA KnowledgeLasts ==
  ASSUME TypeInv, [Next]_vars, NEW rev, NEW content, Knows(rev, content)
  PROVE  KnowsNext(rev, content)
<1>0. revision \in Nat
  BY DEF TypeInv, D1OK, D1TypeOK
<1>1. D1Untouched \/ (\E at : D1Raised(at)) \/ \E c : D1Committed(c)
  BY D1Step
<1>2. CASE D1Untouched \/ \E c : D1Committed(c)
  BY <1>2 DEF Knows, KnowsNext, D1Untouched, D1Committed, CommitPublication
<1>3. CASE \E at : D1Raised(at)
  <2>1. revision' = revision + 1
    BY <1>3 DEF D1Raised, RaiseRevision
  <2> QED BY <1>0, <2>1 DEF Knows, KnowsNext
<1> QED BY <1>1, <1>2, <1>3

(* Where the values that carry a revision come from *)
LEMMA ModelSource ==
  ASSUME TypeInv, [Next]_vars
  PROVE  \/ model' \in {model, NoValue}
         \/ /\ model'.rev = revision /\ model'.content = Content(entry, order)
            /\ model'.expiresAt =
                 ModelExpiry(Larger(opNow, updatedAt), entry, lastSeen)
            /\ UNCHANGED <<now, revision, entry, lastSeen>>
<1>1. CASE BuilderStep
  BY <1>1
  DEF BuilderStep, Start, ExpireRows, ReadModel, ReadCheckpoint, Decide,
      MatchAlias, MatchRecheck, MatchCommit, MatchPurge, Reserve, PutImmutable,
      Recheck, AliasHead, PutAlias, VerifyAlias, RecheckVerified, Commit,
      CommitCheck, Purge, Schedule, Prune, Throw, Supersede, Finish, LeaveBuild,
      NextFile, Continue
<1>2. CASE Failure
  BY <1>2 DEF Failure, CallFails, Throw, LeaveBuild, Crash, Land, LoseAlias,
              ResetStorage
<1>3. CASE Environment \/ UNCHANGED vars
  BY <1>3 DEF Environment, Publish, HourlyExpiry, Rerank, NudgePut, NudgeArm,
              ReaderFill, Tick, vars
<1> QED BY <1>1, <1>2, <1>3 DEF Next

(* The checkpoint an attempt works from is the one it had, none, or the
   committed one. *)
LEMMA BaseSource ==
  ASSUME TypeInv, [Next]_vars
  PROVE  base' \in {base, NoValue, ckpt}
<1>1. CASE BuilderStep
  BY <1>1
  DEF BuilderStep, Start, ExpireRows, ReadModel, ReadCheckpoint, Decide,
      MatchAlias, MatchRecheck, MatchCommit, MatchPurge, Reserve, PutImmutable,
      Recheck, AliasHead, PutAlias, VerifyAlias, RecheckVerified, Commit,
      CommitCheck, Purge, Schedule, Prune, Throw, Supersede, Finish, LeaveBuild,
      NextFile, Continue
<1>2. CASE Failure
  BY <1>2 DEF Failure, CallFails, Throw, LeaveBuild, Crash, Land, LoseAlias,
              ResetStorage
<1>3. CASE Environment \/ UNCHANGED vars
  BY <1>3 DEF Environment, Publish, HourlyExpiry, Rerank, NudgePut, NudgeArm,
              ReaderFill, Tick, vars
<1> QED BY <1>1, <1>2, <1>3 DEF Next

(* A pending build is the old one, none, or one of the model just read. *)
LEMMA PendingSource ==
  ASSUME TypeInv, [Next]_vars
  PROVE  \/ pending' \in {pending, NoValue}
         \/ /\ model \in Model /\ pending'.rev = model.rev
            /\ pending'.content = model.content
            /\ pending'.expiresAt = model.expiresAt
            /\ pending'.gen = NewGeneration /\ high' = NewGeneration
            /\ base \in Checkpoint /\ UNCHANGED <<now, d1Vars, r2Vars>>
<1>1. CASE Reserve
  <2>1. model \in Model /\ base \in Checkpoint
    BY <1>1 DEF TypeInv, OpOK, Equipped, Decided, Reserve
  <2>2. CASE PendingReusable /\ UNCHANGED doVars
    BY <2>2
  <2>3. CASE /\ high' = NewGeneration
             /\ pending' = [rev |-> model.rev, gen |-> NewGeneration,
                            content |-> model.content,
                            generatedAt |-> model.generatedAt,
                            expiresAt |-> model.expiresAt]
    <3>1. UNCHANGED <<now, d1Vars, r2Vars>>
      BY <1>1 DEF Reserve
    <3> QED BY <2>1, <2>3, <3>1
  <2>4. CASE Throw /\ UNCHANGED doVars
    BY <2>4
  <2> QED BY <1>1, <2>2, <2>3, <2>4 DEF Reserve
<1>2. CASE BuilderStep /\ ~Reserve
  BY <1>2
  DEF BuilderStep, Start, ExpireRows, ReadModel, ReadCheckpoint, Decide,
      MatchAlias, MatchRecheck, MatchCommit, MatchPurge, PurgeGeneration,
      PutImmutable, Recheck, AliasHead, PutAlias, VerifyAlias, RecheckVerified,
      Commit, CommitCheck, Purge, Schedule, Prune, AbandonPending
<1>3. CASE Failure
  BY <1>3 DEF Failure, CallFails, Crash, Land, LoseAlias, ResetStorage
<1>4. CASE Environment \/ UNCHANGED vars
  BY <1>4 DEF Environment, Publish, HourlyExpiry, Rerank, NudgePut, NudgeArm,
              ReaderFill, Tick, vars
<1> QED BY <1>1, <1>2, <1>3, <1>4 DEF Next

(* A request in flight is the old one, none, or the one that was open. *)
LEMMA FlightSource ==
  ASSUME TypeInv, [Next]_vars
  PROVE  \/ flight' \in {flight, NoValue}
         \/ LateRequests /\ flight' = OpenRequest
<1>1. CASE BuilderStep
  BY <1>1
  DEF BuilderStep, Start, ExpireRows, ReadModel, ReadCheckpoint, Decide,
      MatchAlias, MatchRecheck, MatchCommit, MatchPurge, PurgeGeneration, Reserve,
      PutImmutable, Recheck, AliasHead, PutAlias, VerifyAlias, RecheckVerified,
      Commit, CommitCheck, Purge, Schedule, Prune
<1>2. CASE Failure
  BY <1>2 DEF Failure, CallFails, Store, Crash, Land, LoseAlias, ResetStorage
<1>3. CASE Environment \/ UNCHANGED vars
  BY <1>3 DEF Environment, Publish, HourlyExpiry, Rerank, NudgePut, NudgeArm,
              ReaderFill, Tick, vars
<1> QED BY <1>1, <1>2, <1>3 DEF Next

(* A candidate checkpoint with a generation shows the listing it was read at. *)
LEMMA CandidateKnows ==
  ASSUME TypeInv, Knowledge, NEW c, Candidate(c), c.gen > 0
  PROVE  Knows(c.rev, c.content)
<1>1. CASE pc = "matchCommit" /\ c = base
  <2>1. base # NoValue
    BY <1>1, ValuesAssumption DEF TypeInv, OpOK, Equipped, Decided
  <2> QED BY <1>1, <2>1 DEF Knowledge
<1>2. CASE pc = "commit" /\ c = CheckpointOf(pending, publishedAt)
  <2>1. pending # NoValue
    BY <1>2, ValuesAssumption DEF TypeInv, Reserved, Building
  <2>2. c.rev = pending.rev /\ c.content = pending.content
    BY <1>2 DEF CheckpointOf
  <2> QED BY <2>1, <2>2 DEF Knowledge
<1>3. CASE flight # NoValue /\ flight.kind = "commit" /\ c = flight.checkpoint
  BY <1>3 DEF Knowledge
<1> QED BY <1>1, <1>2, <1>3 DEF Candidate

(* What the builder, D1 or a request in flight knows is of a past revision, or
   of the current one and then shows what D1 shows. *)
LEMMA KnowledgeInvariant == Spec => []Knowledge
<1>1. Init => Knowledge
  BY DEF Init, Knowledge, NoCheckpoint
<1>2. ASSUME TypeInv, Knowledge, [Next]_vars PROVE Knowledge'
  <2>0. ckpt \in Checkpoint /\ revision \in Nat
    BY <1>2 DEF TypeInv, D1OK, D1TypeOK
  <2>1. model' # NoValue => KnowsNext(model'.rev, model'.content)
    <3>1. CASE model' \in {model, NoValue}
      BY <1>2, <3>1, KnowledgeLasts DEF Knowledge
    <3>2. CASE /\ model'.rev = revision /\ model'.content = Content(entry, order)
               /\ UNCHANGED <<revision, entry>>
      BY <2>0, <3>2 DEF KnowsNext, Content
    <3> QED BY <1>2, <3>1, <3>2, ModelSource
  <2>2. pending' # NoValue => KnowsNext(pending'.rev, pending'.content)
    <3>1. CASE pending' \in {pending, NoValue}
      BY <1>2, <3>1, KnowledgeLasts DEF Knowledge
    <3>2. CASE /\ model \in Model /\ pending'.rev = model.rev
               /\ pending'.content = model.content
      <4>1. model # NoValue
        BY <3>2, ValuesAssumption
      <4> QED BY <1>2, <3>2, <4>1, KnowledgeLasts DEF Knowledge
    <3> QED BY <1>2, <3>1, <3>2, PendingSource
  <2>3. base' # NoValue /\ base'.gen > 0 => KnowsNext(base'.rev, base'.content)
    BY <1>2, BaseSource, KnowledgeLasts DEF Knowledge
  <2>4. ckpt'.gen > 0 => KnowsNext(ckpt'.rev, ckpt'.content)
    <3>1. CASE D1Untouched \/ \E at : D1Raised(at)
      <4>1. ckpt' = ckpt
        BY <3>1 DEF D1Untouched, D1Raised
      <4> QED BY <1>2, <4>1, KnowledgeLasts DEF Knowledge
    <3>2. ASSUME NEW c, D1Committed(c), c.gen > 0
          PROVE  KnowsNext(ckpt'.rev, ckpt'.content)
      <4>1. ckpt' = c /\ Knows(c.rev, c.content)
        BY <1>2, <3>2, CandidateKnows DEF D1Committed, CommitPublication
      <4> QED BY <1>2, <4>1, KnowledgeLasts
    <3>3. \A c : D1Committed(c) => ckpt' = c
      BY DEF D1Committed, CommitPublication
    <3> QED BY <1>2, <3>1, <3>2, <3>3, D1Step
  <2>5. flight' # NoValue /\ flight'.kind = "commit" /\ flight'.checkpoint.gen > 0
        => KnowsNext(flight'.checkpoint.rev, flight'.checkpoint.content)
    <3>1. CASE flight' \in {flight, NoValue}
      BY <1>2, <3>1, KnowledgeLasts DEF Knowledge
    <3>2. CASE flight' = OpenRequest /\ pc = "commit"
      <4>1. flight'.checkpoint = CheckpointOf(pending, publishedAt)
        BY <3>2 DEF OpenRequest
      <4>2. Candidate(flight'.checkpoint)
        BY <3>2, <4>1 DEF Candidate
      <4> QED BY <1>2, <4>2, CandidateKnows, KnowledgeLasts
    <3>3. CASE flight' = OpenRequest /\ pc # "commit"
      BY <3>3 DEF OpenRequest
    <3> QED BY <1>2, <3>1, <3>2, <3>3, FlightSource
  <2> QED BY <2>1, <2>2, <2>3, <2>4, <2>5 DEF Knowledge, Knows, KnowsNext
<1> QED BY <1>1, <1>2, TypeInvariant, PTL DEF Spec

(* The mapped initial state: nothing shown, and a change waiting exactly if   *)
(* some server is listed.                                                     *)
LEMMA PromiseInitMaps == Init => Promise!PromiseInit
<1> SUFFICES ASSUME Init PROVE Promise!PromiseInit
  OBVIOUS
<1> DEFINE Listed == {s \in Server : entry[s] # NoValue}
<1>1. /\ entry \in [Server -> Version \cup {NoValue}] /\ ckpt.gen = 0
      /\ revision = Cardinality(Listed)
      /\ outbox = IF revision = 0 THEN {} ELSE {revision}
  BY DEF Init, NoCheckpoint
<1>2. Cardinality(Listed) = 0 <=> Listed = {}
  <2>1. IsFiniteSet(Listed)
    BY ConstantsAssumption, FS_Subset
  <2> HIDE DEF Listed
  <2> QED BY <2>1, FS_EmptySet
<1>3. Listed = {} <=> entry = [s \in Server |-> NoValue]
  BY <1>1
<1>4. (outbox # {}) = (entry # [s \in Server |-> NoValue])
  <2> HIDE DEF Listed
  <2> QED BY <1>1, <1>2, <1>3
<1> QED BY <1>1, <1>4 DEF Promise!PromiseInit

(* Raising the revision maps to Change; a checkpoint that moves maps to        *)
(* Acknowledge; every other step, and a repeated commit, maps to a stutter.   *)
LEMMA PromiseStepMaps ==
  ASSUME TypeInv, Knowledge, OutboxCoversUnpublished, [Next]_vars
  PROVE  [Promise!PromiseNext]_(Promise!promiseVars)
<1>0. /\ revision \in Nat /\ ckpt \in Checkpoint
      /\ entry' \in [Server -> Version \cup {NoValue}]
  BY TypeInvStep DEF TypeInv, D1OK, D1TypeOK
<1>1. CASE D1Untouched
  BY <1>1 DEF D1Untouched, Promise!promiseVars
<1>2. CASE \E at : D1Raised(at)
  <2>1. ckpt' = ckpt /\ outbox' # {}
    BY <1>2 DEF D1Raised, RaiseRevision
  <2>2. Promise!Change
    BY <1>0, <2>1 DEF Promise!Change
  <2> QED BY <2>2 DEF Promise!PromiseNext
<1>3. ASSUME NEW c, D1Committed(c)
      PROVE  [Promise!PromiseNext]_(Promise!promiseVars)
  <2>1. /\ ckpt' = c /\ c.rev = revision /\ UNCHANGED <<revision, entry>>
        /\ outbox' = {r \in outbox : r > c.rev}
        /\ c \in Checkpoint /\ (ckpt.gen < c.gen \/ ckpt = c)
    BY <1>3 DEF D1Committed, CanCommit, CommitPublication
  <2>2. outbox' = {}
    <3>1. outbox \subseteq {revision}
      BY DEF OutboxCoversUnpublished
    <3>2. \A r \in outbox : ~(r > c.rev)
      BY <1>0, <2>1, <3>1
    <3> QED BY <2>1, <3>2
  <2>3. CASE ckpt = c
    <3>1. outbox = {}
      BY <1>0, <2>1, <2>3 DEF OutboxCoversUnpublished, Checkpoint
    <3> QED BY <2>1, <2>2, <2>3, <3>1 DEF Promise!promiseVars
  <2>4. CASE ckpt.gen < c.gen
    <3>1. c.gen > 0
      BY <1>0, <2>1, <2>4, ConstantsAssumption DEF Checkpoint, Generation
    <3>2. c.content.shown = entry
      BY <1>3, <2>1, <3>1, CandidateKnows DEF D1Committed, Knows
    <3>3. Promise!Acknowledge
      BY <2>1, <2>2, <3>1, <3>2 DEF Promise!Acknowledge
    <3> QED BY <3>3 DEF Promise!PromiseNext
  <2> QED BY <2>1, <2>3, <2>4
<1> QED BY <1>1, <1>2, <1>3, D1Step

(* The pipeline implements the abstract directory: nothing is acknowledged    *)
(* but the listing of that moment, and a change is never forgotten.           *)
THEOREM PromiseImplemented == Spec => ImplementsPromise
<1>1. TypeInv /\ Knowledge /\ OutboxCoversUnpublished /\ [Next]_vars
      => [Promise!PromiseNext]_(Promise!promiseVars)
  BY PromiseStepMaps
<1> QED BY <1>1, PromiseInitMaps, TypeInvariant, KnowledgeInvariant, OutboxCorrect, PTL
        DEF Spec, ImplementsPromise, Promise!PromiseSpec

-----------------------------------------------------------------------------
(* Nudges *)

(* A count of failures that is zero was zero before. *)
LEMMA FailuresCounted ==
  ASSUME TypeInv, [Next]_vars
  PROVE  /\ crashes' = 0 => crashes = 0
         /\ losses' = 0 => losses = 0
<1>1. crashes \in Nat /\ losses \in Nat
  BY DEF TypeInv, FailureTypeOK
<1>2. CASE BuilderStep
  BY <1>2
  DEF BuilderStep, Start, ExpireRows, ReadModel, ReadCheckpoint, Decide, MatchAlias,
      MatchRecheck, MatchCommit, MatchPurge, PurgeGeneration, Fault, Reserve,
      PutImmutable, Recheck, AliasHead, PutAlias, VerifyAlias, RecheckVerified,
      Commit, CommitCheck, Purge, Schedule, Prune
<1>3. CASE Failure
  BY <1>1, <1>3 DEF Failure, CallFails, Fault, Crash, Land, LoseAlias, ResetStorage
<1>4. CASE Environment \/ UNCHANGED vars
  BY <1>4 DEF Environment, Publish, HourlyExpiry, Rerank, NudgePut, NudgeArm,
              ReaderFill, Tick, vars
<1> QED BY <1>2, <1>3, <1>4 DEF Next

(* Who sets the alarm or the flag, or makes the builder idle: an operation may
   schedule what it likes while it runs, but only its end makes it idle. *)
LEMMA IdleSource ==
  ASSUME TypeInv, [Next]_vars, pc' = "idle", crashes' = 0
  PROVE  \/ pc = "idle" /\ UNCHANGED <<nudged, nudging, alarm>>
         \/ Prune
         \/ NudgePut \/ NudgeArm
         \/ ResetStorage
<1>1. CASE BuilderStep
  BY <1>1
  DEF BuilderStep, Start, ExpireRows, ReadModel, ReadCheckpoint, Decide,
      MatchAlias, MatchRecheck, MatchCommit, MatchPurge, Reserve, PutImmutable,
      Recheck, AliasHead, PutAlias, VerifyAlias, RecheckVerified, Commit,
      CommitCheck, Purge, Schedule, Throw, Supersede, Finish, NextFile, Continue
<1>2. CASE Failure
  <2>1. crashes \in Nat
    BY DEF TypeInv, FailureTypeOK
  <2> QED BY <1>2, <2>1 DEF Failure, CallFails, Throw, Crash, Land, LoseAlias
<1>3. CASE Environment \/ UNCHANGED vars
  BY <1>3 DEF Environment, Publish, HourlyExpiry, Rerank, ReaderFill, Tick, vars
<1> QED BY <1>1, <1>2, <1>3 DEF Next

(* While the object is idle, a nudge that came since the last operation        *)
(* started leaves the alarm due at once: the operation that was running, which *)
(* may have scheduled a later alarm, has honoured it at its end, a nudge that  *)
(* came after it has set the alarm itself, and nothing else moves the alarm.   *)
THEOREM NudgesAreHonored == Spec => []NudgeNotDelayed
<1>1. Init => NudgeNotDelayed
  BY DEF Init, NudgeNotDelayed
<1>2. ASSUME TypeInv, NudgeNotDelayed, [Next]_vars
      PROVE  NudgeNotDelayed'
  <2> SUFFICES ASSUME pc' = "idle", nudged', ~nudging', crashes' = 0
               PROVE  alarm' = "soon"
    BY DEF NudgeNotDelayed
  <2>0. crashes = 0
    BY <1>2, FailuresCounted
  <2>1. CASE pc = "idle" /\ UNCHANGED <<nudged, nudging, alarm>>
    BY <1>2, <2>0, <2>1 DEF NudgeNotDelayed
  <2>2. CASE Prune
    BY <2>2 DEF Prune, HonorConcurrentNudge
  <2>3. CASE NudgePut \/ NudgeArm \/ ResetStorage
    BY <2>3 DEF NudgePut, NudgeArm, ResetStorage
  <2> QED BY <1>2, <2>0, <2>1, <2>2, <2>3, IdleSource
<1> QED BY <1>1, <1>2, TypeInvariant, PTL DEF Spec

-----------------------------------------------------------------------------
(* Rounding to the quantum *)

(* A time lies in its quantum. *)
LEMMA QuantumOf ==
  ASSUME NEW t \in Nat
  PROVE  /\ t \div Quantum \in Nat
         /\ (t \div Quantum) * Quantum <= t
         /\ t < (t \div Quantum) * Quantum + Quantum
BY ConstantsAssumption

(* The quantum of a time is the last one that begins by then. *)
LEMMA QuantumIsLast ==
  ASSUME NEW t \in Nat, NEW k \in Nat, k * Quantum <= t
  PROVE  k * Quantum <= QuantumFloor(t)
<1>1. Quantum \in Nat /\ Quantum > 0 /\ t \div Quantum \in Nat
  BY QuantumOf, ConstantsAssumption
<1>2. CASE k <= t \div Quantum
  BY <1>1, <1>2 DEF QuantumFloor
<1>3. CASE k >= (t \div Quantum) + 1
  <2>1. k * Quantum >= ((t \div Quantum) + 1) * Quantum
    BY <1>1, <1>3
  <2>2. ((t \div Quantum) + 1) * Quantum = (t \div Quantum) * Quantum + Quantum
    BY <1>1
  <2> QED BY <1>1, <2>1, <2>2, QuantumOf
<1> QED BY <1>1, <1>2, <1>3

(* A later time is in the same quantum or a later one. *)
LEMMA QuantumMonotone ==
  ASSUME NEW a \in Nat, NEW b \in Nat, a <= b
  PROVE  QuantumFloor(a) <= QuantumFloor(b)
<1>1. a \div Quantum \in Nat /\ (a \div Quantum) * Quantum <= a
  BY QuantumOf
<1>2. (a \div Quantum) * Quantum <= b
  BY <1>1, ConstantsAssumption
<1> QED BY <1>1, <1>2, QuantumIsLast DEF QuantumFloor

(* By how much a delay can carry a time beyond the begin of its quantum. *)
LEMMA QuantumDelay ==
  ASSUME NEW t \in Nat, NEW delay \in Nat, NEW k \in Nat, t < k * Quantum + Quantum
  PROVE  QuantumFloor(t + delay) <= k * Quantum + QuantumFloor(delay + Quantum - 1)
<1> DEFINE m == (t + delay) \div Quantum
<1>1. /\ Quantum \in Nat /\ Quantum > 0 /\ m \in Nat
      /\ m * Quantum <= t + delay /\ QuantumFloor(t + delay) = m * Quantum
  BY QuantumOf, ConstantsAssumption DEF QuantumFloor
<1>2. QuantumFloor(delay + Quantum - 1) \in Nat
  BY <1>1, QuantumFloorType
<1> HIDE DEF m
<1>3. CASE m <= k
  <2>1. m * Quantum <= k * Quantum
    BY <1>1, <1>3
  <2> QED BY <1>1, <1>2, <2>1
<1>4. CASE m > k
  <2>1. m - k \in Nat /\ (m - k) * Quantum = m * Quantum - k * Quantum
    BY <1>1, <1>4
  <2>2. k * Quantum \in Nat
    BY <1>1
  <2>3. (m - k) * Quantum <= delay + Quantum - 1
    BY <1>1, <2>1, <2>2
  <2>4. delay + Quantum - 1 \in Nat
    BY <1>1
  <2>5. (m - k) * Quantum <= QuantumFloor(delay + Quantum - 1)
    BY <2>1, <2>3, <2>4, QuantumIsLast
  <2> QED BY <1>1, <1>2, <2>1, <2>2, <2>5
<1> QED BY <1>1, <1>3, <1>4

(* A model expires no later than the row of any server it lists. *)
LEMMA ModelExpiryBound ==
  ASSUME NEW t \in Nat, NEW e, NEW seen, NEW s \in Server,
         \A x \in Server : e[x] # NoValue => seen[x] \in Nat, e[s] # NoValue
  PROVE  ModelExpiry(t, e, seen) <= QuantumFloor(seen[s] + ListingTtl)
<1> DEFINE T == {t + ArtifactLifetime} \cup
                {seen[x] + ListingTtl : x \in {y \in Server : e[y] # NoValue}}
<1>1. T \subseteq Nat /\ T # {} /\ seen[s] + ListingTtl \in T
  BY ConstantsAssumption
<1>2. Minimum(T) \in Nat /\ Minimum(T) <= seen[s] + ListingTtl
  <2> HIDE DEF T
  <2> QED BY <1>1, MinimumOfNaturals
<1>3. QuantumFloor(Minimum(T)) <= QuantumFloor(seen[s] + ListingTtl)
  <2> HIDE DEF T
  <2> QED BY <1>1, <1>2, QuantumMonotone
<1> QED BY <1>3 DEF ModelExpiry

-----------------------------------------------------------------------------
(* The versions of a file *)

(* The version that a request of a crashed builder may still write *)
Requested(f, x) ==
  /\ flight # NoValue /\ flight.kind \in {"store", "put"}
  /\ flight.file = f /\ flight.object = x

(* What the buckets and the CDN hold of a file, or may still be given *)
Copy(f, x) ==
  \/ <<f, x>> \in stored
  \/ x = alias[f]
  \/ f \in Representation /\ x = cache[f]
  \/ Requested(f, x)

(* What is kept of a file is an object, and one of its copies. *)
LEMMA KeptIsCopy ==
  ASSUME TypeInv, NEW f \in Format, NEW x \in Kept(f)
  PROVE  x \in Object /\ Copy(f, x)
<1>0. BucketTypeOK
  BY DEF TypeInv
<1>1. CASE x \in {o[2] : o \in {y \in stored : y[1] = f}}
  <2>1. PICK o \in stored : o[1] = f /\ o[2] = x
    BY <1>1
  <2>2. o \in Format \X Object
    BY <1>0 DEF BucketTypeOK
  <2>3. o = <<f, x>> /\ x \in Object
    BY <2>1, <2>2
  <2> QED BY <2>1, <2>3 DEF Copy
<1>2. CASE x = alias[f] /\ IsObject(x)
  BY <1>0, <1>2 DEF BucketTypeOK, AliasValue, IsObject, Copy
<1>3. CASE f \in Representation /\ x = cache[f] /\ IsObject(x)
  BY <1>0, <1>3 DEF BucketTypeOK, IsObject, Copy
<1> QED BY <1>1, <1>2, <1>3 DEF Kept

(* A copy is as old as the step before, or of the pending build whose file is *)
(* written by this step or by a request that it leaves behind.                *)
LEMMA CopySource ==
  ASSUME TypeInv, [Next]_vars, NEW f \in Format, NEW x \in Object, Copy(f, x)'
  PROVE  \/ Copy(f, x)
         \/ pc \in {"immutable", "put"} /\ x = ObjectOf(pending)
<1>0. /\ BucketTypeOK /\ x # NoValue /\ x # Corrupt
      /\ f \in Representation => f \in Format
  BY ValuesAssumption, ConstantsAssumption DEF TypeInv
<1>1. ASSUME <<f, x>> \in stored'
      PROVE  Copy(f, x) \/ (pc \in {"immutable", "put"} /\ x = ObjectOf(pending))
  <2>1. CASE pc = "immutable" /\ Store(Head(todo), ObjectOf(pending))
    BY <1>1, <2>1 DEF Store, Copy
  <2>2. CASE /\ flight # NoValue /\ flight.kind = "store"
             /\ Store(flight.file, flight.object)
    BY <1>1, <2>2 DEF Store, Copy, Requested
  <2>3. CASE UNCHANGED stored \/ Prune
    BY <1>1, <2>3 DEF Prune, Copy
  <2> QED BY <2>1, <2>2, <2>3, StoredSource
<1>2. ASSUME x = alias'[f]
      PROVE  Copy(f, x) \/ (pc \in {"immutable", "put"} /\ x = ObjectOf(pending))
  <2>0. alias \in [Format -> AliasValue]
    BY <1>0 DEF BucketTypeOK
  <2>2. CASE pc = "put" /\ alias' = [alias EXCEPT ![Head(todo)] = ObjectOf(pending)]
    BY <1>2, <2>0, <2>2 DEF Copy
  <2>3. CASE /\ flight # NoValue /\ flight.kind = "put"
             /\ alias' = [alias EXCEPT ![flight.file] = flight.object]
    BY <1>2, <2>0, <2>3 DEF Copy, Requested
  <2>4. CASE \E g \in Format : LoseAlias(g)
    <3>1. PICK g \in Format, v \in {NoValue, Corrupt} : alias' = [alias EXCEPT ![g] = v]
      BY <2>4 DEF LoseAlias
    <3> QED BY <1>0, <1>2, <2>0, <3>1 DEF Copy
  <2> QED BY <1>2, <2>2, <2>3, <2>4, AliasSource DEF Copy
<1>3. ASSUME f \in Representation, x = cache'[f]
      PROVE  Copy(f, x)
  <2>0. cache \in [Representation -> Object \cup {NoValue}]
    BY <1>0 DEF BucketTypeOK
  <2>2. CASE PurgeCache
    BY <1>0, <1>3, <2>2 DEF PurgeCache
  <2>3. CASE \E g \in Representation : ReaderFill(g)
    BY <1>3, <2>0, <2>3 DEF ReaderFill, Copy
  <2> QED BY <1>3, <2>2, <2>3, CacheSource DEF Copy
<1>4. ASSUME Requested(f, x)'
      PROVE  Copy(f, x) \/ (pc \in {"immutable", "put"} /\ x = ObjectOf(pending))
  <2>1. CASE flight' = OpenRequest
    BY <1>4, <2>1 DEF Requested, OpenRequest
  <2> QED BY <1>4, <2>1, FlightSource DEF Requested, Copy
<1> QED BY <1>1, <1>2, <1>3, <1>4 DEF Copy

-----------------------------------------------------------------------------
(* One generation, one body *)

(* The remembered generation bounds every copy and the pending build, and     *)
(* copies of one generation are one version: that of the pending build, if    *)
(* it is its generation.                                                      *)
Remembered ==
  /\ pending # NoValue => pending.gen <= high
  /\ \A f \in Format : \A x \in Object : Copy(f, x) =>
       /\ x.gen <= high
       /\ pending # NoValue /\ x.gen = pending.gen => x = ObjectOf(pending)
OneBody ==
  \A f \in Format : \A x, y \in Object :
    Copy(f, x) /\ Copy(f, y) /\ x.gen = y.gen => x = y

(* A new generation is above everything that is remembered or public. *)
LEMMA NewGenerationIsNew ==
  ASSUME TypeInv, base \in Checkpoint
  PROVE  /\ NewGeneration > high
         /\ \A f \in Format : IsObject(alias[f]) => NewGeneration > alias[f].gen
<1> DEFINE S == {ObservedGeneration(alias[f]) : f \in Format}
<1>1. /\ high \in Nat /\ base.gen \in Nat /\ BucketTypeOK
      /\ PublicGeneration \in Nat
  BY PublicGenerationType, ConstantsAssumption
  DEF TypeInv, ObjectTypeOK, Checkpoint, Generation
<1>2. S \subseteq 0..MaxGeneration
  BY <1>1, ConstantsAssumption
  DEF BucketTypeOK, ObservedGeneration, IsObject, AliasValue, Object, Generation
<1>3. \A f \in Format : alias[f] \in AliasValue /\ ObservedGeneration(alias[f]) \in S
  BY <1>1 DEF BucketTypeOK
<1>4. \A f \in Format : ObservedGeneration(alias[f]) <= PublicGeneration
  <2> TAKE f \in Format
  <2>1. ObservedGeneration(alias[f]) \in S
    BY <1>3
  <2> HIDE DEF S
  <2>2. \A n \in S : n <= Maximum(S)
    BY <1>2, <2>1, MaximumOfBounded, ConstantsAssumption
  <2>3. PublicGeneration = Maximum(S)
    BY DEF PublicGeneration, S
  <2> QED BY <2>1, <2>2, <2>3
<1>5. NewGeneration > high /\ NewGeneration > PublicGeneration
  BY <1>1 DEF NewGeneration, Larger
<1> QED
  <2>1. ASSUME NEW f \in Format, IsObject(alias[f])
        PROVE  NewGeneration > alias[f].gen
    <3>1. ObservedGeneration(alias[f]) = alias[f].gen /\ alias[f].gen \in Nat
      BY <1>3, <2>1, ConstantsAssumption
      DEF ObservedGeneration, IsObject, AliasValue, Object, Generation
    <3>2. alias[f].gen <= PublicGeneration /\ NewGeneration \in Int
      BY <1>1, <1>4, <3>1 DEF NewGeneration, Larger
    <3> QED BY <1>1, <1>5, <3>1, <3>2
  <2> QED BY <1>5, <2>1

(* The remembered generation only grows while the object keeps its storage. *)
LEMMA HighGrows ==
  ASSUME TypeInv, [Next]_vars, MaxResets = 0
  PROVE  high \in Nat /\ high' \in Nat /\ high <= high'
<1>1. high \in Nat /\ high' \in Nat
  BY TypeInvStep, ConstantsAssumption DEF TypeInv, ObjectTypeOK, Generation
<1>2. CASE Reserve
  <2>1. base \in Checkpoint
    BY <1>2 DEF TypeInv, OpOK, Equipped, Decided, Reserve
  <2>2. high' = high \/ high' = NewGeneration
    BY <1>2 DEF Reserve
  <2> QED BY <1>1, <2>1, <2>2, NewGenerationIsNew
<1>3. CASE Decide
  <2>1. base \in Checkpoint
    BY <1>3 DEF TypeInv, OpOK, OperationTypeOK, Decide
  <2>2. base.gen \in Nat
    BY <2>1, ConstantsAssumption DEF Checkpoint, Generation
  <2> QED BY <1>1, <1>3, <2>2 DEF Decide, Larger
<1>4. CASE BuilderStep /\ ~Reserve /\ ~Decide
  <2>1. high' = high
    BY <1>4
    DEF BuilderStep, Start, ExpireRows, ReadModel, ReadCheckpoint, MatchAlias,
        MatchRecheck, MatchCommit, MatchPurge, PurgeGeneration, PutImmutable,
        Recheck, AliasHead, PutAlias, VerifyAlias, RecheckVerified, Commit,
        CommitCheck, Purge, Schedule, Prune, AbandonPending
  <2> QED BY <1>1, <2>1
<1>5. CASE Failure
  <2>1. ~ResetStorage
    BY DEF TypeInv, FailureTypeOK, ResetStorage
  <2>2. high' = high
    BY <1>5, <2>1 DEF Failure, CallFails, Crash, Land, LoseAlias
  <2> QED BY <1>1, <2>2
<1>6. CASE Environment \/ UNCHANGED vars
  <2>1. high' = high
    BY <1>6 DEF Environment, Publish, HourlyExpiry, Rerank, NudgePut, NudgeArm,
                ReaderFill, Tick, vars
  <2> QED BY <1>1, <2>1
<1> QED BY <1>2, <1>3, <1>4, <1>5, <1>6 DEF Next

(* A build that writes a file has reserved its generation. *)
LEMMA WriterHasPending ==
  ASSUME TypeInv, pc \in {"immutable", "put"}
  PROVE  /\ pending \in Pending /\ pending # NoValue
         /\ ObjectOf(pending) \in Object /\ ObjectOf(pending).gen = pending.gen
<1>1. pending \in Pending
  BY DEF TypeInv, Reserved, Building
<1>2. pending # NoValue
  BY <1>1, ValuesAssumption
<1> QED BY <1>1, <1>2, ObjectOfType DEF ObjectOf

(* With its storage, the object never gives a generation twice, whatever its  *)
(* crashed operations still write and whatever aliases are lost.              *)
LEMMA RememberedStep ==
  ASSUME TypeInv, Remembered, OneBody, [Next]_vars, MaxResets = 0
  PROVE  Remembered' /\ OneBody'
<1>1. high \in Nat /\ high' \in Nat /\ high <= high'
  BY HighGrows
<1>2. ASSUME NEW f \in Format, NEW x \in Object, Copy(f, x)'
      PROVE  /\ x.gen \in Nat /\ x.gen <= high
             /\ pending # NoValue /\ x.gen = pending.gen => x = ObjectOf(pending)
             /\ Copy(f, x) \/ (pending # NoValue /\ x = ObjectOf(pending))
  <2>0. x.gen \in Nat
    BY ConstantsAssumption DEF Object, Generation
  <2>1. CASE Copy(f, x)
    BY <2>0, <2>1 DEF Remembered
  <2>2. CASE pc \in {"immutable", "put"} /\ x = ObjectOf(pending)
    BY <2>0, <2>2, WriterHasPending DEF Remembered
  <2> QED BY <1>2, <2>1, <2>2, CopySource
<1>3. Remembered'
  <2>1. CASE pending' \in {pending, NoValue}
    <3>1. pending' # NoValue => pending'.gen <= high'
      <4>1. pending # NoValue => pending.gen \in Nat
        BY ConstantsAssumption DEF TypeInv, ObjectTypeOK, Pending, Generation
      <4> QED BY <1>1, <2>1, <4>1 DEF Remembered
    <3>2. ASSUME NEW f \in Format, NEW x \in Object, Copy(f, x)'
          PROVE  /\ x.gen <= high'
                 /\ pending' # NoValue /\ x.gen = pending'.gen => x = ObjectOf(pending')
      BY <1>1, <1>2, <2>1, <3>2
    <3> QED BY <3>1, <3>2 DEF Remembered
  <2>2. CASE /\ pending'.gen = NewGeneration /\ high' = NewGeneration
             /\ UNCHANGED <<now, d1Vars, r2Vars>> /\ base \in Checkpoint
    <3>1. NewGeneration > high
      BY <2>2, NewGenerationIsNew
    <3>2. ASSUME NEW f \in Format, NEW x \in Object, Copy(f, x)'
          PROVE  /\ x.gen <= high'
                 /\ pending' # NoValue /\ x.gen = pending'.gen => x = ObjectOf(pending')
      <4>1. x.gen \in Nat /\ x.gen <= high
        BY <1>2, <3>2
      <4> QED BY <1>1, <2>2, <3>1, <4>1
    <3> QED BY <1>1, <2>2, <3>2 DEF Remembered
  <2> QED BY <2>1, <2>2, PendingSource
<1>4. OneBody'
  <2> SUFFICES ASSUME NEW f \in Format, NEW x \in Object, NEW y \in Object,
                      Copy(f, x)', Copy(f, y)', x.gen = y.gen
               PROVE  x = y
    BY DEF OneBody
  <2>1. /\ Copy(f, x) \/ (pending # NoValue /\ x = ObjectOf(pending))
        /\ Copy(f, y) \/ (pending # NoValue /\ y = ObjectOf(pending))
        /\ pending # NoValue /\ x.gen = pending.gen => x = ObjectOf(pending)
        /\ pending # NoValue /\ y.gen = pending.gen => y = ObjectOf(pending)
        /\ ObjectOf(pending).gen = pending.gen
    BY <1>2 DEF ObjectOf
  <2> QED BY <2>1 DEF OneBody
<1> QED BY <1>3, <1>4

-----------------------------------------------------------------------------
(* Whole cohorts, where no request outlives its caller *)

(* The awaits of a build from the first private file to the checkpoint *)
Storing == {"immutable", "recheck", "head", "put", "verify", "recheckVerified", "commit"}
(* The awaits of the path on which the checkpoint stands *)
Matched == {"match", "matchRecheck", "matchCommit", "matchPurge"}

InTodo(f) == \E i \in 1..Len(todo) : todo[i] = f

(* The files of the pending build that the loop has passed are stored. *)
StoredCohort ==
  pc \in Storing => \A f \in Format :
    <<f, ObjectOf(pending)>> \in stored \/ (pc = "immutable" /\ InTodo(f))

(* The aliases that the verification has passed are those of the build. *)
PublicCohort ==
  pc \in {"verify", "recheckVerified", "commit"} => \A f \in Format :
    alias[f] = ObjectOf(pending) \/ (pc = "verify" /\ InTodo(f))

(* What an operation has read of the checkpoint is not ahead of D1. *)
BaseIsOld ==
  /\ base # NoValue => base.gen <= ckpt.gen
  /\ pc \in Matched => base.gen > 0

(* A file that is not the head stays in the loop. *)
LEMMA NextFileKeeps ==
  ASSUME todo \in Seq(Format), todo # <<>>, NEW f, InTodo(f), f # Head(todo),
         NEW label, NEW after, NEW rest, NextFile(label, after, rest)
  PROVE  pc' = label /\ InTodo(f)'
<1>1. PICK i \in 1..Len(todo) : todo[i] = f
  BY DEF InTodo
<1>2. Len(todo) \in Nat /\ Head(todo) = todo[1]
  BY HeadTailProperties, LenProperties
<1>3. i > 1 /\ Len(todo) > 1
  BY <1>1, <1>2
<1>4. pc' = label /\ todo' = Tail(todo)
  BY <1>3 DEF NextFile, Continue
<1>5. /\ Len(Tail(todo)) = Len(todo) - 1
      /\ \A j \in 1..Len(Tail(todo)) : Tail(todo)[j] = todo[j + 1]
  BY HeadTailProperties
<1>6. i - 1 \in 1..Len(todo') /\ todo'[i - 1] = f
  BY <1>1, <1>2, <1>3, <1>4, <1>5
<1> QED BY <1>4, <1>6 DEF InTodo

(* A loop over the objects of a generation begins with every file. *)
LEMMA ObjectOrderHasAll ==
  ASSUME NEW f \in Format, todo' = ObjectOrder
  PROVE  InTodo(f)'
BY DEF Format, InTodo

(* Without late requests nothing is in flight. *)
LEMMA NothingInFlight ==
  ASSUME ~LateRequests
  PROVE  Spec => [](flight = NoValue)
<1>1. Init => flight = NoValue
  BY DEF Init
<1>2. TypeInv /\ flight = NoValue /\ [Next]_vars => (flight = NoValue)'
  BY FlightSource
<1> QED BY <1>1, <1>2, TypeInvariant, PTL DEF Spec

(* A file of the pending build stays stored while the build goes on. *)
LEMMA StoredCohortStep ==
  ASSUME TypeInv, StoredCohort, flight = NoValue, [Next]_vars
  PROVE  StoredCohort'
<1>1. CASE Reserve
  <2>1. CASE pc' = "immutable" /\ todo' = ObjectOrder
    BY <2>1, ObjectOrderHasAll DEF StoredCohort, Storing
  <2>2. CASE pc' = "prune"
    BY <2>2 DEF StoredCohort, Storing
  <2> QED BY <1>1, <2>1, <2>2 DEF Reserve, Continue, Throw
<1>2. CASE PutImmutable
  <2>1. CASE AbandonPending /\ Supersede
    <3>1. pc' \in {"read", "prune"}
      BY <2>1 DEF Supersede, Throw
    <3> QED BY <3>1 DEF StoredCohort, Storing
  <2>2. CASE ~ImmutableConflict(Head(todo))
    <3>0. /\ todo \in Seq(Format) /\ todo # <<>> /\ pc = "immutable"
          /\ Store(Head(todo), ObjectOf(pending)) /\ pending' = pending
          /\ NextFile("immutable", "recheck", <<>>)
          /\ stored \subseteq Format \X Object
      BY <1>2, <2>2
      DEF PutImmutable, TypeInv, OpOK, OperationTypeOK, Equipped, Looping, BucketTypeOK
    <3>1. \A o \in stored : o[1] = Head(todo) /\ o[2].gen = ObjectOf(pending).gen
                              => o = <<Head(todo), ObjectOf(pending)>>
      <4>1. \A o \in stored : o = <<o[1], o[2]>>
        BY <3>0
      <4> QED BY <2>2, <4>1 DEF ImmutableConflict, ObjectOf
    <3>2. <<Head(todo), ObjectOf(pending)>> \in stored' /\ stored \subseteq stored'
      BY <3>0, <3>1 DEF Store
    <3>3. ASSUME NEW f \in Format
          PROVE  <<f, ObjectOf(pending)>> \in stored' \/ (pc' = "immutable" /\ InTodo(f)')
      <4>1. CASE f = Head(todo)
        BY <3>2, <4>1
      <4>2. CASE f # Head(todo)
        <5>1. <<f, ObjectOf(pending)>> \in stored \/ InTodo(f)
          BY <3>0 DEF StoredCohort, Storing
        <5> QED BY <3>0, <3>2, <4>2, <5>1, NextFileKeeps
      <4> QED BY <4>1, <4>2
    <3> QED BY <3>0, <3>3 DEF StoredCohort
  <2> QED BY <1>2, <2>1, <2>2 DEF PutImmutable
<1>3. CASE Recheck \/ AliasHead \/ PutAlias \/ VerifyAlias \/ RecheckVerified
  <2>1. pc \in Storing \ {"immutable"}
    BY <1>3 DEF Recheck, AliasHead, PutAlias, VerifyAlias, RecheckVerified, Storing
  <2>2. UNCHANGED stored
    BY <1>3 DEF Recheck, AliasHead, PutAlias, VerifyAlias, RecheckVerified
  <2>3. pc' \in Storing => UNCHANGED pending /\ pc' # "immutable"
    BY <1>3 DEF Recheck, AliasHead, PutAlias, VerifyAlias, RecheckVerified, Storing,
                Throw, Supersede, Finish, NextFile, Continue
  <2> QED BY <2>1, <2>2, <2>3 DEF StoredCohort
<1>4. CASE BuilderStep /\ ~(Reserve \/ PutImmutable \/ Recheck \/ AliasHead \/ PutAlias
                            \/ VerifyAlias \/ RecheckVerified)
  <2>1. pc' \notin Storing
    BY <1>4
    DEF BuilderStep, Start, ExpireRows, ReadModel, ReadCheckpoint, Decide, MatchAlias,
        MatchRecheck, MatchCommit, MatchPurge, Commit, CommitCheck, Purge, Schedule,
        Prune, Throw, Supersede, Finish, NextFile, Continue, Storing
  <2> QED BY <2>1 DEF StoredCohort
<1>5. CASE Failure
  <2>1. CASE CallFails \/ Crash \/ ResetStorage
    <3>1. pc' \notin Storing
      BY <2>1 DEF CallFails, Throw, Crash, ResetStorage, Storing
    <3> QED BY <3>1 DEF StoredCohort
  <2>2. CASE \E f \in Format : LoseAlias(f)
    BY <2>2 DEF LoseAlias, StoredCohort, InTodo
  <2>3. ~Land
    BY DEF Land
  <2> QED BY <1>5, <2>1, <2>2, <2>3 DEF Failure
<1>6. CASE Environment \/ UNCHANGED vars
  <2>1. UNCHANGED <<pc, todo, pending, stored>>
    BY <1>6 DEF Environment, Publish, HourlyExpiry, Rerank, NudgePut, NudgeArm,
                ReaderFill, Tick, vars
  <2> QED BY <2>1 DEF StoredCohort, InTodo
<1> QED BY <1>1, <1>2, <1>3, <1>4, <1>5, <1>6 DEF Next

(* Aliases that have been verified stay, unless the bucket loses them. *)
LEMMA PublicCohortStep ==
  ASSUME TypeInv, PublicCohort, flight = NoValue, MaxLosses = 0, [Next]_vars
  PROVE  PublicCohort'
<1> DEFINE Public == {"verify", "recheckVerified", "commit"}
<1>1. CASE AliasHead \/ PutAlias
  <2>1. pc' \in Public => pc' = "verify" /\ todo' = ObjectOrder
    BY <1>1 DEF AliasHead, PutAlias, Throw, Supersede, NextFile, Continue
  <2> QED BY <2>1, ObjectOrderHasAll DEF PublicCohort
<1>2. CASE VerifyAlias
  <2>1. CASE AbandonPending /\ Supersede
    <3>1. pc' \in {"read", "prune"}
      BY <2>1 DEF Supersede, Throw
    <3> QED BY <3>1 DEF PublicCohort
  <2>2. CASE alias[Head(todo)] = ObjectOf(pending)
    <3>0. /\ todo \in Seq(Format) /\ todo # <<>> /\ pc = "verify"
          /\ pending' = pending /\ alias' = alias
          /\ NextFile("verify", "recheckVerified", <<>>)
      BY <1>2, <2>2
      DEF VerifyAlias, TypeInv, OpOK, OperationTypeOK, Equipped, Looping
    <3>1. ASSUME NEW f \in Format
          PROVE  alias'[f] = ObjectOf(pending) \/ (pc' = "verify" /\ InTodo(f)')
      <4>1. CASE f # Head(todo) /\ InTodo(f)
        BY <3>0, <4>1, NextFileKeeps
      <4> QED BY <2>2, <3>0, <4>1 DEF PublicCohort
    <3> QED BY <3>0, <3>1 DEF PublicCohort
  <2> QED BY <1>2, <2>1, <2>2 DEF VerifyAlias
<1>3. CASE RecheckVerified
  <2>1. pc = "recheckVerified" /\ UNCHANGED alias
    BY <1>3 DEF RecheckVerified
  <2>2. pc' \in Public => UNCHANGED pending /\ pc' = "commit"
    BY <1>3 DEF RecheckVerified, Throw, Supersede
  <2> QED BY <2>1, <2>2 DEF PublicCohort
<1>4. CASE BuilderStep /\ ~(AliasHead \/ PutAlias \/ VerifyAlias \/ RecheckVerified)
  <2>1. pc' \notin Public
    BY <1>4
    DEF BuilderStep, Start, ExpireRows, ReadModel, ReadCheckpoint, Decide, MatchAlias,
        MatchRecheck, MatchCommit, MatchPurge, Reserve, PutImmutable, Recheck, Commit,
        CommitCheck, Purge, Schedule, Prune, Throw, Supersede, Finish, NextFile, Continue
  <2> QED BY <2>1 DEF PublicCohort
<1>5. CASE Failure
  <2>1. CASE CallFails \/ Crash \/ ResetStorage
    <3>1. pc' \notin Public
      BY <2>1 DEF CallFails, Throw, Crash, ResetStorage
    <3> QED BY <3>1 DEF PublicCohort
  <2>2. ~Land /\ \A f \in Format : ~LoseAlias(f)
    BY DEF Land, LoseAlias, TypeInv, FailureTypeOK
  <2> QED BY <1>5, <2>1, <2>2 DEF Failure
<1>6. CASE Environment \/ UNCHANGED vars
  <2>1. UNCHANGED <<pc, todo, pending, alias>>
    BY <1>6 DEF Environment, Publish, HourlyExpiry, Rerank, NudgePut, NudgeArm,
                ReaderFill, Tick, vars
  <2> QED BY <2>1 DEF PublicCohort, InTodo
<1> QED BY <1>1, <1>2, <1>3, <1>4, <1>5, <1>6 DEF Next

(* The checkpoint an operation has read is the committed one or an older one, *)
(* and the matching path starts from one that exists.                         *)
LEMMA BaseIsOldStep ==
  ASSUME TypeInv, BaseIsOld, [Next]_vars
  PROVE  BaseIsOld'
<1>1. ckpt \in Checkpoint /\ ckpt' \in Checkpoint
  BY TypeInvStep DEF TypeInv, D1OK, D1TypeOK
<1>2. ckpt.gen \in Nat /\ ckpt'.gen \in Nat /\ ckpt.gen <= ckpt'.gen
  <2>1. ckpt.gen \in Nat /\ ckpt'.gen \in Nat
    BY <1>1, ConstantsAssumption DEF Checkpoint, Generation
  <2> QED BY <2>1, CheckpointAdvances
<1>3. base' # NoValue => base'.gen <= ckpt'.gen
  <2>1. base # NoValue => base.gen \in Nat
    BY ConstantsAssumption DEF TypeInv, OpOK, OperationTypeOK, Checkpoint, Generation
  <2> QED BY <1>2, <2>1, BaseSource DEF BaseIsOld
<1>4. pc' \in Matched => base'.gen > 0
  <2>1. CASE Decide
    <3>1. pc' \in Matched => CheckpointStands /\ UNCHANGED base
      BY <2>1 DEF Decide, Throw, Continue, Matched
    <3> QED BY <3>1 DEF CheckpointStands
  <2>2. CASE MatchAlias \/ MatchRecheck \/ MatchCommit \/ MatchPurge
    <3>1. pc \in Matched
      BY <2>2 DEF MatchAlias, MatchRecheck, MatchCommit, MatchPurge, Matched
    <3>2. pc' \in Matched => UNCHANGED base
      BY <2>2 DEF MatchAlias, MatchRecheck, MatchCommit, MatchPurge, Matched,
                  Throw, Supersede, Finish, NextFile, Continue
    <3> QED BY <3>1, <3>2 DEF BaseIsOld
  <2>3. CASE BuilderStep /\ ~(Decide \/ MatchAlias \/ MatchRecheck \/ MatchCommit
                              \/ MatchPurge)
    BY <2>3
    DEF BuilderStep, Start, ExpireRows, ReadModel, ReadCheckpoint, Reserve,
        PutImmutable, Recheck, AliasHead, PutAlias, VerifyAlias, RecheckVerified,
        Commit, CommitCheck, Purge, Schedule, Prune, Throw, Supersede, Finish,
        NextFile, Continue, Matched
  <2>4. CASE Failure
    <3>1. CASE CallFails \/ Crash
      BY <3>1 DEF CallFails, Throw, Crash, Matched
    <3>2. CASE Land \/ (\E f \in Format : LoseAlias(f)) \/ ResetStorage
      BY <3>2 DEF Land, LoseAlias, ResetStorage, BaseIsOld
    <3> QED BY <2>4, <3>1, <3>2 DEF Failure
  <2>5. CASE Environment \/ UNCHANGED vars
    BY <2>5 DEF Environment, Publish, HourlyExpiry, Rerank, NudgePut, NudgeArm,
                ReaderFill, Tick, vars, BaseIsOld
  <2> QED BY <2>1, <2>2, <2>3, <2>4, <2>5 DEF Next
<1> QED BY <1>3, <1>4 DEF BaseIsOld

(* What a commit leaves of the rollback history: its newest n generations.    *)
LEMMA NewestHistoryBound ==
  ASSUME IsFiniteSet(history), history \subseteq Nat, NEW n \in Nat
  PROVE  /\ NewestHistory(n) \subseteq history /\ IsFiniteSet(NewestHistory(n))
         /\ Cardinality(NewestHistory(n)) <= n
<1> DEFINE N == NewestHistory(n)
           Above(g) == {h \in history : h > g}
<1>1. N \subseteq history /\ \A g \in N : Cardinality(Above(g)) < n
  BY DEF NewestHistory
<1>2. IsFiniteSet(N)
  BY <1>1, FS_Subset
<1>3. CASE N = {}
  BY <1>1, <1>2, <1>3, FS_EmptySet
<1>4. CASE N # {}
  <2>1. PICK m \in N : \A g \in N : m <= g
    <3>1. N \subseteq Nat
      BY <1>1
    <3> QED BY <1>4, <3>1, MinimumOfNaturals
  <2>2. N \ {m} \subseteq Above(m)
    <3>1. \A g \in N \ {m} : g \in history /\ g \in Nat /\ m \in Nat /\ m <= g /\ g # m
      BY <1>1, <2>1
    <3> QED BY <3>1
  <2>3. IsFiniteSet(Above(m)) /\ Cardinality(Above(m)) < n
    <3>1. Above(m) \subseteq history
      OBVIOUS
    <3> QED BY <1>1, <2>1, <3>1, FS_Subset
  <2> HIDE DEF N, Above
  <2>4. Cardinality(N \ {m}) <= Cardinality(Above(m)) /\ Cardinality(Above(m)) \in Nat
    BY <2>2, <2>3, FS_Subset, FS_CardinalityType
  <2>5. Cardinality(N \ {m}) = Cardinality(N) - 1 /\ Cardinality(N) \in Nat
    BY <1>2, <2>1, FS_RemoveElement, FS_CardinalityType
  <2> QED BY <1>1, <1>2, <2>3, <2>4, <2>5 DEF N
<1> QED BY <1>3, <1>4

Window == IsFiniteSet(history) /\ RollbackWindowComplete

(* A commit only completes a cohort: the matching path writes the checkpoint  *)
(* that is there, and the build has stored every file of its generation.      *)
LEMMA CommitOfStored ==
  ASSUME TypeInv, BaseIsOld, StoredCohort, flight = NoValue, NEW c, D1Committed(c)
  PROVE  \/ ckpt = c /\ c.gen > 0
         \/ /\ pc = "commit" /\ c = CheckpointOf(pending, publishedAt)
            /\ c.gen \in Nat /\ c.gen = pending.gen /\ ObjectOf(c) = ObjectOf(pending)
            /\ \A f \in Format : <<f, ObjectOf(pending)>> \in stored
<1>1. CASE pc = "matchCommit" /\ c = base
  <2>1. base \in Checkpoint /\ base # NoValue /\ ckpt \in Checkpoint
    BY <1>1, ValuesAssumption DEF TypeInv, OpOK, Equipped, Decided, D1OK, D1TypeOK
  <2>2. base.gen <= ckpt.gen /\ base.gen > 0 /\ base.gen \in Nat /\ ckpt.gen \in Nat
    BY <1>1, <2>1, ConstantsAssumption DEF BaseIsOld, Matched, Checkpoint, Generation
  <2> QED BY <1>1, <2>2 DEF D1Committed, CanCommit
<1>2. CASE pc = "commit" /\ c = CheckpointOf(pending, publishedAt)
  <2>1. pending \in Pending
    BY <1>2 DEF TypeInv, Reserved, Building
  <2>2. pending.gen \in Nat /\ c.gen = pending.gen /\ ObjectOf(c) = ObjectOf(pending)
    BY <1>2, <2>1, ConstantsAssumption DEF CheckpointOf, ObjectOf, Pending, Generation
  <2>3. \A f \in Format : <<f, ObjectOf(pending)>> \in stored
    BY <1>2 DEF StoredCohort, Storing
  <2> QED BY <1>2, <2>2, <2>3
<1> QED BY <1>1, <1>2 DEF D1Committed, Candidate

(* The rollback window after each kind of step *)
LEMMA WindowStep ==
  ASSUME TypeInv, BaseIsOld, StoredCohort, Window, flight = NoValue, [Next]_vars
  PROVE  Window'
<1>0. /\ history \subseteq Nat /\ IsFiniteSet(history)
      /\ Cardinality(history) <= HistoryLimit
      /\ ckpt.gen > 0 => ckpt.gen \in history
      /\ \A g \in history, f \in Format : \E o \in stored : o[1] = f /\ o[2].gen = g
  <2>1. history \subseteq Nat
    BY ConstantsAssumption DEF TypeInv, D1OK, D1TypeOK, Generation
  <2> QED BY <2>1 DEF Window, RollbackWindowComplete
<1>1. \A g \in history, f \in Format : \E o \in stored' : o[1] = f /\ o[2].gen = g
  <2>1. CASE UNCHANGED stored
    BY <1>0, <2>1
  <2>2. CASE Prune
    <3>1. \A o \in stored : o[2].gen \in history => o \in stored'
      BY <2>2 DEF Prune, Obsolete, Retained
    <3> QED BY <1>0, <3>1
  <2>3. CASE pc = "immutable" /\ Store(Head(todo), ObjectOf(pending))
    <3>1. stored \subseteq stored'
      BY <2>3 DEF Store
    <3> QED BY <1>0, <3>1
  <2> QED BY <2>1, <2>2, <2>3, StoredSource
<1>2. CASE D1Untouched \/ \E at : D1Raised(at)
  <2>1. UNCHANGED <<ckpt, history>>
    BY <1>2 DEF D1Untouched, D1Raised
  <2> QED BY <1>0, <1>1, <2>1 DEF Window, RollbackWindowComplete
<1>3. ASSUME NEW c, D1Committed(c) PROVE Window'
  <2>0. /\ ckpt' = c
        /\ history' = IF c.gen \in history THEN history
                      ELSE NewestHistory(HistoryLimit - 1) \cup {c.gen}
    BY <1>3 DEF D1Committed, CommitPublication
  <2>1. CASE ckpt = c /\ c.gen > 0
    BY <1>0, <1>1, <2>0, <2>1 DEF Window, RollbackWindowComplete
  <2>2. CASE /\ pc = "commit" /\ c.gen \in Nat /\ c.gen = ObjectOf(pending).gen
             /\ \A f \in Format : <<f, ObjectOf(pending)>> \in stored
    <3>1. stored' = stored
      BY <2>2, StoredSource DEF Prune
    <3>2. /\ HistoryLimit - 1 \in Nat /\ HistoryLimit \in Nat
          /\ NewestHistory(HistoryLimit - 1) \subseteq history
          /\ IsFiniteSet(NewestHistory(HistoryLimit - 1))
          /\ Cardinality(NewestHistory(HistoryLimit - 1)) <= HistoryLimit - 1
      <4>1. HistoryLimit - 1 \in Nat /\ HistoryLimit \in Nat
        BY ConstantsAssumption
      <4> QED BY <1>0, <4>1, NewestHistoryBound
    <3>3. IsFiniteSet(history') /\ Cardinality(history') <= HistoryLimit
      <4>1. CASE c.gen \in history
        BY <1>0, <2>0, <4>1
      <4>2. CASE c.gen \notin history
        <5>1. c.gen \notin NewestHistory(HistoryLimit - 1)
          BY <3>2, <4>2
        <5>2. /\ IsFiniteSet(NewestHistory(HistoryLimit - 1) \cup {c.gen})
              /\ Cardinality(NewestHistory(HistoryLimit - 1) \cup {c.gen})
                   = Cardinality(NewestHistory(HistoryLimit - 1)) + 1
          BY <3>2, <5>1, FS_AddElement
        <5>3. Cardinality(NewestHistory(HistoryLimit - 1)) \in Nat
          BY <3>2, FS_CardinalityType
        <5>4. history' = NewestHistory(HistoryLimit - 1) \cup {c.gen}
          BY <2>0, <4>2
        <5> QED BY <3>2, <5>2, <5>3, <5>4
      <4> QED BY <4>1, <4>2
    <3>4. c.gen \in history' /\ history' \subseteq history \cup {c.gen}
      BY <2>0, <3>2
    <3>5. \A f \in Format : \E o \in stored' : o[1] = f /\ o[2].gen = c.gen
      <4>1. \A f \in Format : /\ <<f, ObjectOf(pending)>>[1] = f
                              /\ <<f, ObjectOf(pending)>>[2].gen = c.gen
        BY <2>2
      <4> QED BY <2>2, <3>1, <4>1
    <3> QED BY <1>1, <2>0, <3>3, <3>4, <3>5 DEF Window, RollbackWindowComplete
  <2>3. ObjectOf(pending).gen = pending.gen
    BY DEF ObjectOf
  <2> QED BY <1>3, <2>1, <2>2, <2>3, CommitOfStored
<1> QED BY <1>2, <1>3, D1Step

(* What holds between any two steps if no request outlives its caller *)
Cohorts == BaseIsOld /\ StoredCohort /\ Window

(* The commits of the builder are all there are, so cohorts stay whole. *)
LEMMA CohortsInvariant ==
  ASSUME ~LateRequests
  PROVE  Spec => []Cohorts
<1>1. Init => Cohorts
  <2> SUFFICES ASSUME Init PROVE Cohorts
    OBVIOUS
  <2>1. BaseIsOld /\ StoredCohort
    BY DEF Init, BaseIsOld, StoredCohort, Matched, Storing
  <2>2. history = {} /\ ~(ckpt.gen > 0)
    BY DEF Init, NoCheckpoint
  <2>3. Window
    BY <2>2, FS_EmptySet, ConstantsAssumption DEF Window, RollbackWindowComplete
  <2> QED BY <2>1, <2>3 DEF Cohorts
<1>2. TypeInv /\ flight = NoValue /\ Cohorts /\ [Next]_vars => Cohorts'
  BY BaseIsOldStep, StoredCohortStep, WindowStep DEF Cohorts
<1> QED BY <1>1, <1>2, TypeInvariant, NothingInFlight, PTL DEF Spec

(* The private bucket holds every file of the newest acknowledged generations *)
(* and of the current one: no prune and no failed build takes one away, where *)
(* no commit of a crashed builder lands after its generation was pruned.      *)
THEOREM RollbackWindowIsComplete ==
  ASSUME ~LateRequests
  PROVE  Spec => []RollbackWindowComplete
<1>1. Cohorts => RollbackWindowComplete
  BY DEF Cohorts, Window
<1> QED BY <1>1, CohortsInvariant, PTL

(* D1 acknowledges a generation only when each of its files is private and    *)
(* public, and the revision is the one shown.                                 *)
THEOREM AcknowledgedCohortsArePublic ==
  ASSUME ~LateRequests, MaxLosses = 0
  PROVE  Spec => AcknowledgedCohortIsPublic
<1>1. Init => PublicCohort
  BY DEF Init, PublicCohort
<1>2. TypeInv /\ flight = NoValue /\ PublicCohort /\ [Next]_vars => PublicCohort'
  BY PublicCohortStep
<1>3. ASSUME TypeInv, flight = NoValue, Cohorts, PublicCohort, [Next]_vars, ckpt' # ckpt
      PROVE  /\ \A f \in Format : /\ alias[f] = ObjectOf(ckpt')
                                  /\ <<f, ObjectOf(ckpt')>> \in stored
             /\ ckpt'.rev = revision
  <2>1. PICK c : D1Committed(c)
    BY <1>3, D1Step DEF D1Untouched, D1Raised
  <2>2. ckpt' = c /\ c.rev = revision
    BY <2>1 DEF D1Committed, CanCommit, CommitPublication
  <2>3. /\ pc = "commit" /\ ObjectOf(c) = ObjectOf(pending)
        /\ \A f \in Format : <<f, ObjectOf(pending)>> \in stored
    BY <1>3, <2>1, <2>2, CommitOfStored DEF Cohorts
  <2>4. \A f \in Format : alias[f] = ObjectOf(pending)
    BY <1>3, <2>3 DEF PublicCohort
  <2> QED BY <2>2, <2>3, <2>4
<1>4. TypeInv /\ flight = NoValue /\ Cohorts /\ PublicCohort /\ [Next]_vars
      => [ckpt' # ckpt =>
            /\ \A f \in Format : /\ alias[f] = ObjectOf(ckpt')
                                 /\ <<f, ObjectOf(ckpt')>> \in stored
            /\ ckpt'.rev = revision]_vars
  BY <1>3
<1> QED BY <1>1, <1>2, <1>4, TypeInvariant, NothingInFlight, CohortsInvariant, PTL
        DEF Spec, AcknowledgedCohortIsPublic

-----------------------------------------------------------------------------
(* One order of generations in D1 and in the public bucket *)

Verifying == {"verify", "recheckVerified", "commit"}

(* Whoever may still commit a generation knows that no alias is behind it: the *)
(* build for the files it has verified, and the batch that it left in flight.  *)
CandidatesPublic ==
  losses = 0 =>
    /\ pc \in Verifying => \A f \in Format :
         \/ ObservedGeneration(alias[f]) >= pending.gen
         \/ pc = "verify" /\ InTodo(f)
    /\ flight # NoValue /\ flight.kind = "commit" =>
         NoAliasBehind(flight.checkpoint.gen)

(* While the bucket loses nothing, no step takes an alias back. *)
LEMMA AliasesOnlyAdvance ==
  ASSUME TypeInv, PutIsNewer, [Next]_vars, losses = 0, losses' = 0, NEW f \in Format
  PROVE  /\ ObservedGeneration(alias[f]) \in Nat /\ ObservedGeneration(alias'[f]) \in Nat
         /\ ObservedGeneration(alias'[f]) >= ObservedGeneration(alias[f])
<1>0. /\ alias \in [Format -> AliasValue] /\ alias' \in [Format -> AliasValue]
      /\ \A x \in Object : x.gen \in Nat /\ IsObject(x)
  BY TypeInvStep, ConstantsAssumption, ValuesAssumption
  DEF TypeInv, BucketTypeOK, Object, Generation, IsObject
<1>1. \A x \in AliasValue : /\ ObservedGeneration(x) \in Nat
                            /\ x \in Object => ObservedGeneration(x) = x.gen
  BY <1>0 DEF ObservedGeneration, IsObject, AliasValue
<1>2. CASE alias'[f] \in Object
  BY <1>0, <1>1, <1>2, AliasAdvances
<1>3. CASE alias'[f] \notin Object
  <2>1. ASSUME NEW g, NEW object \in Object, alias' = [alias EXCEPT ![g] = object]
        PROVE  alias'[f] = alias[f]
    BY <1>0, <1>3, <2>1
  <2>2. pc = "put" => ObjectOf(pending) \in Object
    BY ObjectOfType DEF TypeInv, Reserved, Building
  <2>3. flight # NoValue /\ flight.kind = "put" => flight.object \in Object
    BY DEF TypeInv, BucketTypeOK, Request
  <2>4. \A g \in Format : ~LoseAlias(g)
    BY DEF LoseAlias
  <2>5. alias'[f] = alias[f]
    BY <2>1, <2>2, <2>3, <2>4, AliasSource
  <2> QED BY <1>0, <1>1, <2>5
<1> QED BY <1>2, <1>3

(* Verified aliases are not behind the build, and stay so. *)
LEMMA VerifiedStep ==
  ASSUME TypeInv, PutIsNewer, CandidatesPublic, [Next]_vars, losses = 0, losses' = 0,
         pc' \in Verifying, NEW f \in Format
  PROVE  \/ ObservedGeneration(alias'[f]) >= pending'.gen
         \/ pc' = "verify" /\ InTodo(f)'
<1>0. /\ ObservedGeneration(alias[f]) \in Nat /\ ObservedGeneration(alias'[f]) \in Nat
      /\ ObservedGeneration(alias'[f]) >= ObservedGeneration(alias[f])
      /\ pending' \in Pending /\ pending'.gen \in Nat
  <2>1. pending' \in Pending
    BY TypeInvStep DEF TypeInv, Reserved, Building, Verifying
  <2> QED BY <2>1, AliasesOnlyAdvance, ConstantsAssumption DEF Pending, Generation
<1>1. CASE AliasHead \/ PutAlias
  <2>1. pc' = "verify" /\ todo' = ObjectOrder
    BY <1>1 DEF AliasHead, PutAlias, Throw, Supersede, NextFile, Continue, Verifying
  <2> QED BY <2>1, ObjectOrderHasAll
<1>2. CASE VerifyAlias
  <2>0. /\ alias[Head(todo)] = ObjectOf(pending)
        /\ todo \in Seq(Format) /\ todo # <<>> /\ pc = "verify"
        /\ pending' = pending /\ alias' = alias
        /\ NextFile("verify", "recheckVerified", <<>>)
    BY <1>2 DEF VerifyAlias, Supersede, Throw, Verifying,
                TypeInv, OpOK, OperationTypeOK, Equipped, Looping
  <2>1. CASE f = Head(todo)
    <3>1. ObjectOf(pending) \in Object /\ IsObject(ObjectOf(pending))
      BY <1>0, <2>0, ObjectOfType, ValuesAssumption DEF IsObject
    <3>2. ObservedGeneration(alias[f]) = pending.gen
      BY <2>0, <2>1, <3>1 DEF ObservedGeneration, ObjectOf
    <3> QED BY <1>0, <2>0, <3>2
  <2>2. CASE f # Head(todo) /\ InTodo(f)
    BY <2>0, <2>2, NextFileKeeps
  <2>3. CASE ~InTodo(f)
    BY <1>0, <2>0, <2>3 DEF CandidatesPublic, Verifying
  <2> QED BY <2>1, <2>2, <2>3
<1>3. CASE RecheckVerified
  <2>1. pc = "recheckVerified" /\ UNCHANGED <<alias, pending>>
    BY <1>3 DEF RecheckVerified, Throw, Supersede, Verifying
  <2> QED BY <2>1 DEF CandidatesPublic, Verifying
<1>4. CASE BuilderStep /\ ~(AliasHead \/ PutAlias \/ VerifyAlias \/ RecheckVerified)
  BY <1>4
  DEF BuilderStep, Start, ExpireRows, ReadModel, ReadCheckpoint, Decide, MatchAlias,
      MatchRecheck, MatchCommit, MatchPurge, Reserve, PutImmutable, Recheck, Commit,
      CommitCheck, Purge, Schedule, Prune, Throw, Supersede, Finish, NextFile,
      Continue, Verifying
<1>5. CASE Failure
  <2>1. CASE CallFails \/ Crash \/ ResetStorage
    BY <2>1 DEF CallFails, Throw, Crash, ResetStorage, Verifying
  <2>2. CASE Land
    <3>1. UNCHANGED <<pc, todo, pending>>
      BY <2>2 DEF Land
    <3> QED BY <1>0, <3>1 DEF CandidatesPublic, InTodo
  <2>3. ~ \E g \in Format : LoseAlias(g)
    BY DEF LoseAlias
  <2> QED BY <1>5, <2>1, <2>2, <2>3 DEF Failure
<1>6. CASE Environment \/ UNCHANGED vars
  <2>1. UNCHANGED <<pc, todo, pending>>
    BY <1>6 DEF Environment, Publish, HourlyExpiry, Rerank, NudgePut, NudgeArm,
                ReaderFill, Tick, vars
  <2> QED BY <1>0, <2>1 DEF CandidatesPublic, InTodo
<1> QED BY <1>1, <1>2, <1>3, <1>4, <1>5, <1>6 DEF Next

(* A batch left in flight was open, so its generation had been verified. *)
LEMMA LeftBatchStep ==
  ASSUME TypeInv, PutIsNewer, CandidatesPublic, [Next]_vars, losses = 0, losses' = 0,
         flight' # NoValue, flight'.kind = "commit"
  PROVE  NoAliasBehind(flight.checkpoint.gen)'
<1>1. flight'.checkpoint \in Checkpoint
  BY TypeInvStep DEF TypeInv, BucketTypeOK, Request
<1>2. flight'.checkpoint.gen \in Nat
  BY <1>1, ConstantsAssumption DEF Checkpoint, Generation
<1>3. ASSUME NEW f \in Format
      PROVE  ObservedGeneration(alias[f]) >= flight'.checkpoint.gen
  <2>1. CASE flight' = flight
    BY <1>3, <2>1 DEF CandidatesPublic, NoAliasBehind
  <2>2. CASE flight' = OpenRequest
    <3>1. pc = "commit" /\ flight'.checkpoint.gen = pending.gen
      BY <2>2 DEF OpenRequest, CheckpointOf
    <3> QED BY <3>1 DEF CandidatesPublic, Verifying
  <2> QED BY <2>1, <2>2, FlightSource
<1> QED BY <1>2, <1>3, AliasesOnlyAdvance DEF NoAliasBehind

(* A commit makes no generation current that is older than the history or that *)
(* some alias has not reached, nor does any other step move them apart.        *)
LEMMA PublicationOrderStep ==
  ASSUME TypeInv, PutIsNewer, BaseIsOld, CandidatesPublic, PublicationOrder, [Next]_vars
  PROVE  PublicationOrder'
<1>0. /\ history \subseteq Nat /\ ckpt \in Checkpoint
      /\ \A c \in Checkpoint : c.gen \in Nat
      /\ losses' = 0 => losses = 0
  BY FailuresCounted, ConstantsAssumption
  DEF TypeInv, D1OK, D1TypeOK, FailureTypeOK, Checkpoint, Generation
<1>1. CASE UNCHANGED <<ckpt, history>>
  <2>1. ASSUME losses' = 0, NEW f \in Format
        PROVE  ObservedGeneration(alias'[f]) >= ckpt.gen
    BY <1>0, <2>1, AliasesOnlyAdvance DEF PublicationOrder, NoAliasBehind
  <2> QED BY <1>1, <2>1 DEF PublicationOrder, NoAliasBehind
<1>2. ASSUME NEW c, D1Committed(c) PROVE PublicationOrder'
  <2>0. c \in Checkpoint /\ ckpt' = c /\ c.gen \in Nat /\ ckpt.gen \in Nat
    BY <1>0, <1>2 DEF D1Committed, CommitPublication
  <2>1. \A g \in history' : g <= ckpt'.gen
    <3>1. history' \subseteq history \cup {c.gen}
      BY <1>2 DEF D1Committed, CommitPublication, NewestHistory
    <3>2. ckpt.gen <= c.gen
      BY <1>2, <2>0 DEF D1Committed, CanCommit
    <3>3. \A g \in history : g \in Nat /\ g <= ckpt.gen
      BY <1>0 DEF PublicationOrder
    <3> QED BY <2>0, <3>1, <3>2, <3>3
  <2>2. ASSUME losses' = 0, NEW f \in Format
        PROVE  ObservedGeneration(alias'[f]) >= c.gen
    <3>0. losses = 0
      BY <1>0, <2>2
    <3>1. ObservedGeneration(alias[f]) >= c.gen
      <4>1. CASE pc = "matchCommit" /\ c = base
        <5>1. base # NoValue
          BY <2>0, <4>1, ValuesAssumption
        <5>2. c.gen <= ckpt.gen
          BY <4>1, <5>1 DEF BaseIsOld
        <5> QED BY <2>0, <3>0, <5>2, AliasesOnlyAdvance, <2>2
                DEF PublicationOrder, NoAliasBehind
      <4>2. CASE pc = "commit" /\ c = CheckpointOf(pending, publishedAt)
        BY <3>0, <4>2 DEF CandidatesPublic, Verifying, CheckpointOf
      <4>3. CASE flight # NoValue /\ flight.kind = "commit" /\ c = flight.checkpoint
        BY <3>0, <4>3 DEF CandidatesPublic, NoAliasBehind
      <4> QED BY <1>2, <4>1, <4>2, <4>3 DEF D1Committed, Candidate
    <3> QED BY <2>0, <2>2, <3>0, <3>1, AliasesOnlyAdvance
  <2> QED BY <2>0, <2>1, <2>2 DEF PublicationOrder, NoAliasBehind
<1>3. D1Untouched \/ (\E at : D1Raised(at)) => UNCHANGED <<ckpt, history>>
  BY DEF D1Untouched, D1Raised
<1> QED BY <1>1, <1>2, <1>3, D1Step

(* D1 and the public bucket keep one order of generations, however late a put  *)
(* or a commit batch of a crashed builder lands and whatever storage is lost:  *)
(* the checkpoint heads the rollback history, and while the bucket has lost no *)
(* object every alias has reached the checkpoint.                              *)
THEOREM GenerationsKeepOrder == Spec => []PublicationOrder
<1>1. Init => BaseIsOld /\ CandidatesPublic /\ PublicationOrder
  <2> SUFFICES ASSUME Init PROVE BaseIsOld /\ CandidatesPublic /\ PublicationOrder
    OBVIOUS
  <2>1. BaseIsOld /\ CandidatesPublic
    BY DEF Init, BaseIsOld, Matched, CandidatesPublic, Verifying
  <2>2. \A f \in Format : ObservedGeneration(alias[f]) = 0
    BY DEF Init, ObservedGeneration, IsObject
  <2>3. history = {} /\ ckpt.gen = 0
    BY DEF Init, NoCheckpoint
  <2> QED BY <2>1, <2>2, <2>3 DEF PublicationOrder, NoAliasBehind
<1>2. ASSUME TypeInv, PutIsNewer, CandidatesPublic, [Next]_vars
      PROVE  CandidatesPublic'
  <2> SUFFICES ASSUME losses' = 0
               PROVE  CandidatesPublic'
    BY DEF CandidatesPublic
  <2>1. losses = 0
    BY <1>2, FailuresCounted
  <2> QED BY <1>2, <2>1, VerifiedStep, LeftBatchStep DEF CandidatesPublic
<1>3. TypeInv /\ PutIsNewer /\ BaseIsOld /\ CandidatesPublic /\ PublicationOrder
        /\ [Next]_vars
      => BaseIsOld' /\ CandidatesPublic' /\ PublicationOrder'
  BY <1>2, BaseIsOldStep, PublicationOrderStep
<1> QED BY <1>1, <1>3, TypeInvariant, PutIsNewerInvariant, PTL DEF Spec

-----------------------------------------------------------------------------
(* One generation, one body, also when the object loses its storage *)

(* What is public is older than the pending build or is its object, and the   *)
(* CDN is not ahead of the aliases.                                           *)
PublicBelow ==
  /\ \A f \in Format : pending # NoValue /\ alias[f] \in Object =>
       alias[f].gen < pending.gen \/ alias[f] = ObjectOf(pending)
  /\ \A f \in Representation : cache[f] \in Object =>
       /\ alias[f] \in Object
       /\ cache[f].gen < alias[f].gen \/ cache[f] = alias[f]

(* Aliases change only by the put of the pending build, and the CDN is filled
   from them: what is public stays below the pending build. *)
LEMMA PublicBelowStep ==
  ASSUME TypeInv, PublicBelow, flight = NoValue, MaxLosses = 0, [Next]_vars
  PROVE  PublicBelow'
<1>0. /\ alias \in [Format -> AliasValue] /\ alias' \in [Format -> AliasValue]
      /\ cache \in [Representation -> Object \cup {NoValue}]
      /\ cache' \in [Representation -> Object \cup {NoValue}]
      /\ Representation \subseteq Format
      /\ \A x \in Object : x.gen \in Nat /\ IsObject(x)
  BY TypeInvStep, ConstantsAssumption, ValuesAssumption
  DEF TypeInv, BucketTypeOK, Object, Generation, IsObject
<1>1. \A f \in Format : ~LoseAlias(f)
  BY DEF LoseAlias, TypeInv, FailureTypeOK
<1>2. CASE /\ pc = "put" /\ alias' # alias
           /\ alias' = [alias EXCEPT ![Head(todo)] = ObjectOf(pending)]
  <2>1. /\ pending \in Pending /\ pending # NoValue
        /\ ObjectOf(pending) \in Object /\ ObjectOf(pending).gen = pending.gen
    BY <1>2, WriterHasPending
  <2>2. pending' \in {pending, NoValue}
    BY <1>2, PendingSource
  <2>3. UNCHANGED cache \/ PurgeCache
    BY <1>2, CacheSource DEF ReaderFill
  <2>4. ASSUME NEW f \in Format, pending' # NoValue, alias'[f] \in Object
        PROVE  alias'[f].gen < pending'.gen \/ alias'[f] = ObjectOf(pending')
    BY <1>0, <1>2, <2>1, <2>2, <2>4 DEF PublicBelow
  <2>5. ASSUME NEW f \in Representation, cache[f] \in Object
        PROVE  /\ alias'[f] \in Object
               /\ cache[f].gen < alias'[f].gen \/ cache[f] = alias'[f]
    <3>1. /\ alias[f] \in Object /\ cache[f].gen \in Nat /\ alias[f].gen \in Nat
          /\ cache[f].gen < alias[f].gen \/ cache[f] = alias[f]
          /\ alias[f].gen < pending.gen \/ alias[f] = ObjectOf(pending)
          /\ pending.gen \in Nat
      BY <1>0, <2>1, <2>5 DEF PublicBelow
    <3>2. alias'[f] \in {alias[f], ObjectOf(pending)}
      BY <1>0, <1>2
    <3> QED BY <2>1, <3>1, <3>2
  <2>6. ASSUME NEW f \in Representation, cache'[f] \in Object
        PROVE  /\ alias'[f] \in Object
               /\ cache'[f].gen < alias'[f].gen \/ cache'[f] = alias'[f]
    <3>1. CASE UNCHANGED cache
      BY <2>5, <2>6, <3>1
    <3>2. CASE PurgeCache
      BY <2>6, <3>2, ValuesAssumption DEF PurgeCache
    <3> QED BY <2>3, <3>1, <3>2
  <2> QED BY <2>4, <2>6 DEF PublicBelow
<1>3. CASE UNCHANGED alias
  <2>1. ASSUME NEW f \in Format, pending' # NoValue, alias[f] \in Object
        PROVE  alias[f].gen < pending'.gen \/ alias[f] = ObjectOf(pending')
    <3>1. CASE pending' \in {pending, NoValue}
      BY <2>1, <3>1 DEF PublicBelow
    <3>2. CASE pending'.gen = NewGeneration /\ base \in Checkpoint
      BY <1>0, <2>1, <3>2, NewGenerationIsNew
    <3> QED BY <3>1, <3>2, PendingSource
  <2>2. ASSUME NEW f \in Representation, cache'[f] \in Object
        PROVE  /\ alias[f] \in Object
               /\ cache'[f].gen < alias[f].gen \/ cache'[f] = alias[f]
    <3>1. CASE UNCHANGED cache
      BY <2>2, <3>1 DEF PublicBelow
    <3>2. CASE PurgeCache
      BY <2>2, <3>2, ValuesAssumption DEF PurgeCache
    <3>3. CASE \E g \in Representation : ReaderFill(g)
      <4>1. PICK g \in Representation : cache' = [cache EXCEPT ![g] = alias[g]]
        BY <3>3 DEF ReaderFill
      <4> QED BY <1>0, <2>2, <4>1 DEF PublicBelow
    <3> QED BY <3>1, <3>2, <3>3, CacheSource
  <2> QED BY <1>3, <2>1, <2>2 DEF PublicBelow
<1> QED BY <1>1, <1>2, <1>3, AliasSource

(* Without late requests and lost aliases, a copy that appears is a private   *)
(* file of the pending build, of whose generation nothing was stored.         *)
LEMMA NewCopy ==
  ASSUME TypeInv, StoredCohort, flight = NoValue, ~LateRequests, [Next]_vars,
         NEW f \in Format, NEW x \in Object, Copy(f, x)', ~Copy(f, x)
  PROVE  /\ pending # NoValue /\ x = ObjectOf(pending)
         /\ \A o \in stored : o[1] = f => o[2].gen # x.gen
<1>1. pc \in {"immutable", "put"} /\ x = ObjectOf(pending)
  BY CopySource
<1>2. pending # NoValue
  BY <1>1, WriterHasPending
<1>3. pc = "immutable"
  BY <1>1 DEF StoredCohort, Storing, Copy
<1>4. UNCHANGED alias \/ \E g \in Format : LoseAlias(g)
  BY <1>3, AliasSource
<1>5. x # alias'[f]
  <2>1. alias \in [Format -> AliasValue] /\ x # NoValue /\ x # Corrupt
    BY ValuesAssumption DEF TypeInv, BucketTypeOK
  <2>2. CASE \E g \in Format : LoseAlias(g)
    <3>1. PICK g \in Format, v \in {NoValue, Corrupt} : alias' = [alias EXCEPT ![g] = v]
      BY <2>2 DEF LoseAlias
    <3> QED BY <2>1, <3>1 DEF Copy
  <2> QED BY <1>4, <2>2 DEF Copy
<1>6. ~(f \in Representation /\ x = cache'[f])
  <2> SUFFICES ASSUME f \in Representation, x = cache'[f] PROVE FALSE
    OBVIOUS
  <2>1. cache \in [Representation -> Object \cup {NoValue}] /\ x # NoValue
    BY ValuesAssumption DEF TypeInv, BucketTypeOK
  <2>2. CASE PurgeCache
    BY <2>1, <2>2 DEF PurgeCache
  <2>3. CASE \E g \in Representation : ReaderFill(g)
    BY <2>1, <2>3 DEF ReaderFill, Copy
  <2> QED BY <2>2, <2>3, CacheSource DEF Copy
<1>7. <<f, x>> \in stored'
  <2>1. flight' = NoValue
    BY FlightSource
  <2> QED BY <1>5, <1>6, <2>1 DEF Copy, Requested
<1>8. \A o \in stored : o[1] = f => o[2].gen # x.gen
  <2>1. <<f, x>> \notin stored
    BY DEF Copy
  <2>2. Store(Head(todo), ObjectOf(pending))
    BY <1>3, <1>7, <2>1, StoredSource DEF Prune
  <2>3. stored' # stored /\ f = Head(todo)
    BY <1>7, <2>1, <2>2 DEF Store
  <2> QED BY <1>1, <2>2, <2>3 DEF Store
<1> QED BY <1>1, <1>2, <1>8

(* No generation gets a second body, also after the object has lost what it   *)
(* remembered: private files of the same generation make it take the next.    *)
LEMMA OneBodyStep ==
  ASSUME TypeInv, StoredCohort, PublicBelow, OneBody, flight = NoValue,
         ~LateRequests, [Next]_vars
  PROVE  OneBody'
<1>1. ASSUME NEW f \in Format, NEW x \in Object, NEW y \in Object,
             Copy(f, x)', ~Copy(f, x), Copy(f, y), x.gen = y.gen
      PROVE  x = y
  <2>1. /\ pending # NoValue /\ x = ObjectOf(pending) /\ x.gen = pending.gen
        /\ \A o \in stored : o[1] = f => o[2].gen # x.gen
    BY <1>1, NewCopy DEF ObjectOf
  <2>2. \A z \in Object : z.gen \in Nat
    BY ConstantsAssumption DEF Object, Generation
  <2>3. <<f, y>> \notin stored
    <3>1. <<f, y>>[1] = f /\ <<f, y>>[2] = y
      OBVIOUS
    <3> QED BY <1>1, <2>1, <3>1
  <2>4. CASE y = alias[f]
    BY <1>1, <2>1, <2>2, <2>4 DEF PublicBelow
  <2>5. CASE f \in Representation /\ y = cache[f]
    <3>1. /\ alias[f] \in Object
          /\ y.gen < alias[f].gen \/ y = alias[f]
          /\ alias[f].gen < pending.gen \/ alias[f] = ObjectOf(pending)
      BY <2>1, <2>5 DEF PublicBelow
    <3> QED BY <1>1, <2>1, <2>2, <3>1
  <2> QED BY <1>1, <2>3, <2>4, <2>5 DEF Copy, Requested
<1>2. ASSUME NEW f \in Format, NEW x \in Object, NEW y \in Object,
             Copy(f, x)', Copy(f, y)', x.gen = y.gen
      PROVE  x = y
  <2>1. CASE Copy(f, x) /\ Copy(f, y)
    BY <1>2, <2>1 DEF OneBody
  <2>2. CASE ~Copy(f, x) /\ ~Copy(f, y)
    <3>1. x = ObjectOf(pending) /\ y = ObjectOf(pending)
      BY <1>2, <2>2, NewCopy
    <3> QED BY <3>1
  <2> QED BY <1>1, <1>2, <2>1, <2>2
<1> QED BY <1>2 DEF OneBody

(* At the start there are no copies. *)
LEMMA NoCopyYet ==
  ASSUME Init, NEW f \in Format, NEW x \in Object
  PROVE  ~Copy(f, x)
BY ValuesAssumption DEF Init, Copy, Requested

(* The buckets, the CDN and requests in flight agree on what a generation is, *)
(* if the object keeps its storage, whatever is lost and lands late, and if   *)
(* it loses its storage but no alias is lost and nothing lands late.          *)
THEOREM GenerationsHaveOneBody ==
  ASSUME MaxResets = 0 \/ (~LateRequests /\ MaxLosses = 0)
  PROVE  Spec => []OneGenerationOneBody
<1>1. TypeInv /\ OneBody => OneGenerationOneBody
  BY KeptIsCopy DEF OneBody, OneGenerationOneBody
<1>2. Init => Remembered /\ OneBody /\ PublicBelow
  BY NoCopyYet, ValuesAssumption, ConstantsAssumption
  DEF Init, Remembered, OneBody, PublicBelow
<1>3. CASE MaxResets = 0
  <2>1. TypeInv /\ Remembered /\ OneBody /\ [Next]_vars => Remembered' /\ OneBody'
    BY <1>3, RememberedStep
  <2> QED BY <1>1, <1>2, <2>1, TypeInvariant, PTL DEF Spec
<1>4. CASE ~LateRequests /\ MaxLosses = 0
  <2>1. Spec => [](flight = NoValue)
    BY <1>4, NothingInFlight
  <2>2. Spec => []Cohorts
    BY <1>4, CohortsInvariant
  <2>3. TypeInv /\ Cohorts /\ flight = NoValue /\ PublicBelow /\ OneBody /\ [Next]_vars
        => PublicBelow' /\ OneBody'
    BY <1>4, PublicBelowStep, OneBodyStep DEF Cohorts
  <2> QED BY <1>1, <1>2, <2>1, <2>2, <2>3, TypeInvariant, PTL DEF Spec
<1> QED BY <1>3, <1>4

-----------------------------------------------------------------------------
(* Artifacts and the rows behind them *)

(* What the clocks of two publications can be apart, in whole quanta *)
Grace == QuantumFloor(2 * MaxSkew + Quantum - 1)

(* What expires at `until' and lists a server expires with its row, up to the *)
(* grace, or has expired.                                                     *)
Backed(content, until) ==
  \A s \in Server : content.shown[s] # NoValue =>
    /\ until <= QuantumFloor(now + MaxSkew + ListingTtl)
    /\ \/ until <= now + Grace
       \/ /\ lastSeen[s] # NoValue
          /\ until <= QuantumFloor(lastSeen[s] + 2 * MaxSkew + ListingTtl)

(* The clock of an operation, and those of the publications *)
Clocks ==
  /\ opNow <= now /\ (pc # "idle" => Epoch <= opNow)
  /\ \A s \in Server : lastSeen[s] # NoValue => lastSeen[s] <= now + MaxSkew

(* Models, pending builds and copies of files expire with the rows they list. *)
CopiesBacked ==
  /\ model # NoValue => Backed(model.content, model.expiresAt)
  /\ pending # NoValue => Backed(pending.content, pending.expiresAt)
  /\ \A f \in Format : \A x \in Object : Copy(f, x) => Backed(x.content, x.expiresAt)

(* A row that an expiry drops had come to the end of its time: an artifact may
   be at most the grace away from its own. *)
LEMMA ExpiredRow ==
  ASSUME TypeInv, NEW t \in Nat, t <= now, NEW cutoff,
         cutoff <= (t \div Quantum) * Quantum + Quantum - 1 - ListingTtl
           \/ cutoff = t - ListingTtl,
         NEW seen \in Nat, cutoff \in Int, seen <= cutoff
  PROVE  QuantumFloor(seen + 2 * MaxSkew + ListingTtl) <= now + Grace
<1> DEFINE k == t \div Quantum
<1>1. /\ now \in Nat /\ MaxSkew \in Nat /\ ListingTtl \in Nat /\ Quantum \in Nat
      /\ k \in Nat /\ k * Quantum <= t /\ t < k * Quantum + Quantum
      /\ k * Quantum \in Nat
  BY QuantumOf, ConstantsAssumption DEF TypeInv, ClockOK
<1>2. seen + ListingTtl < k * Quantum + Quantum
  <2> HIDE DEF k
  <2>1. CASE cutoff = t - ListingTtl
    BY <1>1, <2>1
  <2>2. CASE cutoff <= k * Quantum + Quantum - 1 - ListingTtl
    BY <1>1, <2>2
  <2> QED BY <2>1, <2>2 DEF k
<1> HIDE DEF k
<1>3. QuantumFloor((seen + ListingTtl) + 2 * MaxSkew) <= k * Quantum + Grace
  <2>1. seen + ListingTtl \in Nat /\ 2 * MaxSkew \in Nat
    BY <1>1
  <2> QED BY <1>1, <1>2, <2>1, QuantumDelay DEF Grace
<1>4. (seen + ListingTtl) + 2 * MaxSkew = seen + 2 * MaxSkew + ListingTtl
  BY <1>1
<1>5. Grace \in Nat
  <2>1. 2 * MaxSkew + Quantum - 1 \in Nat
    BY <1>1, ConstantsAssumption
  <2> QED BY <2>1, QuantumFloorType DEF Grace
<1>6. QuantumFloor(seen + 2 * MaxSkew + ListingTtl) <= k * Quantum + Grace
  BY <1>3, <1>4
<1>7. QuantumFloor(seen + 2 * MaxSkew + ListingTtl) \in Nat
  <2>1. seen + 2 * MaxSkew + ListingTtl \in Nat
    BY <1>1
  <2> QED BY <2>1, QuantumFloorType
<1> QED BY <1>1, <1>5, <1>6, <1>7

(* The cutoff of the builder's expiry *)
LEMMA CutoffOfQuantum ==
  ASSUME NEW t \in Nat, Epoch <= t
  PROVE  /\ ExpiryCutoff(t) \in Int
         /\ ExpiryCutoff(t) <= (t \div Quantum) * Quantum + Quantum - 1 - ListingTtl
<1> DEFINE k == t \div Quantum
<1>1. /\ ListingTtl \in Nat /\ Quantum \in Nat /\ k \in Nat /\ k * Quantum \in Nat
      /\ t < k * Quantum + Quantum /\ ListingTtl <= t /\ Epoch \in Nat
  BY QuantumOf, ConstantsAssumption
<1>2. ExpiryCutoff(t) = Larger(0, (k + 1) * Quantum - 1 - ListingTtl)
  BY DEF ExpiryCutoff
<1> HIDE DEF k
<1>3. (k + 1) * Quantum = k * Quantum + Quantum
  BY <1>1
<1> QED BY <1>1, <1>2, <1>3 DEF Larger, k

(* What a step does to the presence of a server *)
LEMMA RowSource ==
  ASSUME TypeInv, Clocks, [Next]_vars, NEW s \in Server
  PROVE  \/ lastSeen'[s] = lastSeen[s]
         \/ /\ lastSeen'[s] = NoValue /\ lastSeen[s] \in Nat
            /\ QuantumFloor(lastSeen[s] + 2 * MaxSkew + ListingTtl) <= now + Grace
         \/ /\ lastSeen'[s] \in (now - MaxSkew)..(now + MaxSkew)
            /\ now' = now
<1>0. lastSeen \in [Server -> Nat \cup {NoValue}] /\ now \in Nat /\ opNow \in Nat
  BY DEF TypeInv, D1OK, D1TypeOK, OpOK, OperationTypeOK, ClockOK
<1>1. ASSUME NEW t \in Nat, t <= now, NEW cutoff, cutoff \in Int,
             cutoff <= (t \div Quantum) * Quantum + Quantum - 1 - ListingTtl
               \/ cutoff = t - ListingTtl,
             NEW at, ExpireDirectoryEntries(cutoff, at)
      PROVE  \/ lastSeen'[s] = lastSeen[s]
             \/ /\ lastSeen'[s] = NoValue /\ lastSeen[s] \in Nat
                /\ QuantumFloor(lastSeen[s] + 2 * MaxSkew + ListingTtl) <= now + Grace
  <2>1. lastSeen'[s] = IF s \in Expired(cutoff) THEN NoValue ELSE lastSeen[s]
    BY <1>1 DEF ExpireDirectoryEntries
  <2>2. CASE s \in Expired(cutoff)
    <3>1. lastSeen[s] \in Nat /\ lastSeen[s] <= cutoff
      BY <1>0, <2>2 DEF Expired
    <3> QED BY <1>1, <2>1, <2>2, <3>1, ExpiredRow
  <2> QED BY <2>1, <2>2
<1>2. CASE pc = "expire" /\ ExpireDirectoryEntries(ExpiryCutoff(opNow), opNow)
  <2>1. opNow <= now /\ Epoch <= opNow
    BY <1>2 DEF Clocks
  <2> QED BY <1>0, <1>1, <1>2, <2>1, CutoffOfQuantum
<1>3. CASE HourlyExpiry
  <2>1. now - ListingTtl \in Int /\ now <= now
    BY <1>0, ConstantsAssumption
  <2>2. ExpireDirectoryEntries(now - ListingTtl, now)
    BY <1>3 DEF HourlyExpiry
  <2> QED BY <1>0, <1>1, <2>1, <2>2
<1>4. ASSUME NEW x \in Server, NEW v \in Version \cup {NoValue},
             NEW at \in (now - MaxSkew)..(now + MaxSkew), Publish(x, v, at)
      PROVE  \/ lastSeen'[s] = lastSeen[s]
             \/ /\ lastSeen'[s] \in (now - MaxSkew)..(now + MaxSkew)
                /\ now' = now
  BY <1>0, <1>4 DEF Publish
<1>5. CASE UNCHANGED lastSeen
  BY <1>5
<1>6. \/ UNCHANGED lastSeen
      \/ pc = "expire" /\ ExpireDirectoryEntries(ExpiryCutoff(opNow), opNow)
      \/ HourlyExpiry
      \/ \E x \in Server, v \in Version \cup {NoValue} :
           \E at \in (now - MaxSkew)..(now + MaxSkew) : Publish(x, v, at)
  <2>1. CASE BuilderStep
    BY <2>1
    DEF BuilderStep, Start, ExpireRows, ReadModel, ReadCheckpoint, Decide,
        MatchAlias, MatchRecheck, MatchCommit, CommitPublication, MatchPurge, Reserve,
        PutImmutable, Recheck, AliasHead, PutAlias, VerifyAlias, RecheckVerified,
        Commit, CommitCheck, Purge, Schedule, Prune
  <2>2. CASE Failure
    BY <2>2 DEF Failure, CallFails, CommitPublication, Crash, Land, LoseAlias,
                ResetStorage
  <2>3. CASE Environment
    BY <2>3 DEF Environment, Rerank, NudgePut, NudgeArm, ReaderFill, Tick
  <2>4. CASE UNCHANGED vars
    BY <2>4 DEF vars
  <2> QED BY <2>1, <2>2, <2>3, <2>4 DEF Next
<1> QED BY <1>2, <1>3, <1>4, <1>5, <1>6

(* The clock goes on, and an operation keeps the time it began at. *)
LEMMA ClocksStep ==
  ASSUME TypeInv, Clocks, [Next]_vars
  PROVE  now <= now' /\ Clocks'
<1>0. /\ now \in Nat /\ now' \in Nat /\ opNow \in Nat /\ Epoch <= now
      /\ lastSeen \in [Server -> Nat \cup {NoValue}] /\ MaxSkew \in Nat
  BY TypeInvStep, ConstantsAssumption
  DEF TypeInv, ClockOK, OpOK, OperationTypeOK, D1OK, D1TypeOK
<1>1. now' \in {now, now + 1}
  <2>1. CASE BuilderStep
    BY <2>1
    DEF BuilderStep, Start, ExpireRows, ReadModel, ReadCheckpoint, Decide,
        MatchAlias, MatchRecheck, MatchCommit, MatchPurge, Reserve,
        PutImmutable, Recheck, AliasHead, PutAlias, VerifyAlias, RecheckVerified,
        Commit, CommitCheck, Purge, Schedule, Prune
  <2>2. CASE Failure
    BY <2>2 DEF Failure, CallFails, Crash, Land, LoseAlias, ResetStorage
  <2>3. CASE Environment \/ UNCHANGED vars
    BY <2>3 DEF Environment, Publish, HourlyExpiry, Rerank, NudgePut, NudgeArm,
                ReaderFill, Tick, vars
  <2> QED BY <2>1, <2>2, <2>3 DEF Next
<1>2. \/ opNow' = now
      \/ opNow' = 0 /\ pc' = "idle"
      \/ opNow' = opNow /\ (pc # "idle" \/ pc' = "idle")
  <2>1. CASE BuilderStep
    BY <2>1
    DEF BuilderStep, Start, ExpireRows, ReadModel, ReadCheckpoint, Decide,
        MatchAlias, MatchRecheck, MatchCommit, MatchPurge, Reserve, PutImmutable,
        Recheck, AliasHead, PutAlias, VerifyAlias, RecheckVerified, Commit,
        CommitCheck, Purge, Schedule, Prune, Throw, Supersede, Finish, LeaveBuild,
        NextFile, Continue
  <2>2. CASE Failure
    BY <2>2 DEF Failure, CallFails, Throw, LeaveBuild, Crash, Land, LoseAlias,
                ResetStorage
  <2>3. CASE Environment \/ UNCHANGED vars
    BY <2>3 DEF Environment, Publish, HourlyExpiry, Rerank, NudgePut, NudgeArm,
                ReaderFill, Tick, vars
  <2> QED BY <2>1, <2>2, <2>3 DEF Next
<1>3. ASSUME NEW s \in Server, lastSeen'[s] # NoValue
      PROVE  lastSeen'[s] <= now' + MaxSkew
  <2>1. CASE lastSeen'[s] = lastSeen[s]
    <3>1. lastSeen[s] \in Nat /\ lastSeen[s] <= now + MaxSkew
      BY <1>0, <1>3, <2>1 DEF Clocks
    <3> QED BY <1>0, <1>1, <2>1, <3>1
  <2>2. CASE lastSeen'[s] \in (now - MaxSkew)..(now + MaxSkew) /\ now' = now
    BY <1>0, <2>2
  <2> QED BY <1>3, <2>1, <2>2, RowSource
<1>4. opNow' <= now' /\ (pc' # "idle" => Epoch <= opNow')
  <2>1. Epoch \in Nat
    BY ConstantsAssumption
  <2> QED BY <1>0, <1>1, <1>2, <2>1 DEF Clocks
<1> QED BY <1>0, <1>1, <1>3, <1>4 DEF Clocks

(* What is backed stays backed until it has expired. *)
LEMMA BackedLasts ==
  ASSUME TypeInv, Clocks, [Next]_vars, NEW content, NEW until \in Nat,
         Backed(content, until), NEW s \in Server, content.shown[s] # NoValue
  PROVE  /\ until <= QuantumFloor(now' + MaxSkew + ListingTtl)
         /\ \/ until <= now' + Grace
            \/ /\ lastSeen'[s] # NoValue
               /\ until <= QuantumFloor(lastSeen'[s] + 2 * MaxSkew + ListingTtl)
<1>0. /\ now \in Nat /\ now' \in Nat /\ now <= now' /\ MaxSkew \in Nat
      /\ ListingTtl \in Nat /\ lastSeen' \in [Server -> Nat \cup {NoValue}]
  BY TypeInvStep, ClocksStep, ConstantsAssumption
  DEF TypeInv, ClockOK, D1OK, D1TypeOK
<1>1. Grace \in Nat
  <2>1. 2 * MaxSkew + Quantum - 1 \in Nat
    BY <1>0, ConstantsAssumption
  <2> QED BY <2>1, QuantumFloorType DEF Grace
<1>2. until <= QuantumFloor(now + MaxSkew + ListingTtl)
  BY DEF Backed
<1>3. until <= QuantumFloor(now' + MaxSkew + ListingTtl)
  <2>1. /\ now + MaxSkew + ListingTtl \in Nat /\ now' + MaxSkew + ListingTtl \in Nat
        /\ now + MaxSkew + ListingTtl <= now' + MaxSkew + ListingTtl
    <3>1. \A a, b, c, d \in Nat : a <= b =>
            a + c + d \in Nat /\ b + c + d \in Nat /\ a + c + d <= b + c + d
      OBVIOUS
    <3> QED BY <1>0, <3>1
  <2>2. /\ QuantumFloor(now + MaxSkew + ListingTtl)
             <= QuantumFloor(now' + MaxSkew + ListingTtl)
        /\ QuantumFloor(now + MaxSkew + ListingTtl) \in Nat
        /\ QuantumFloor(now' + MaxSkew + ListingTtl) \in Nat
    BY <2>1, QuantumMonotone, QuantumFloorType
  <2> QED BY <1>2, <2>2
<1>4. CASE until <= now + Grace
  BY <1>0, <1>1, <1>3, <1>4
<1>5. CASE /\ lastSeen[s] # NoValue
           /\ until <= QuantumFloor(lastSeen[s] + 2 * MaxSkew + ListingTtl)
  <2>1. CASE lastSeen'[s] = lastSeen[s]
    BY <1>3, <1>5, <2>1
  <2>2. CASE /\ lastSeen[s] \in Nat
             /\ QuantumFloor(lastSeen[s] + 2 * MaxSkew + ListingTtl) <= now + Grace
    <3>1. QuantumFloor(lastSeen[s] + 2 * MaxSkew + ListingTtl) \in Nat
      <4>1. lastSeen[s] + 2 * MaxSkew + ListingTtl \in Nat
        BY <1>0, <2>2
      <4> QED BY <4>1, QuantumFloorType
    <3>2. until <= now + Grace
      BY <1>0, <1>1, <1>5, <2>2, <3>1
    <3>3. now + Grace <= now' + Grace /\ now + Grace \in Nat /\ now' + Grace \in Nat
      BY <1>0, <1>1
    <3> QED BY <1>3, <3>2, <3>3
  <2>3. CASE lastSeen'[s] \in (now - MaxSkew)..(now + MaxSkew)
    <3>1. lastSeen'[s] # NoValue /\ lastSeen'[s] \in Nat
      <4>1. MaxSkew <= Epoch /\ Epoch <= now /\ Epoch \in Nat
        BY ConstantsAssumption DEF TypeInv, ClockOK
      <4> QED BY <1>0, <2>3, <4>1, ValuesAssumption
    <3>2. /\ now + MaxSkew + ListingTtl \in Nat
          /\ lastSeen'[s] + 2 * MaxSkew + ListingTtl \in Nat
          /\ now + MaxSkew + ListingTtl <= lastSeen'[s] + 2 * MaxSkew + ListingTtl
      BY <1>0, <2>3, <3>1
    <3>3. /\ QuantumFloor(now + MaxSkew + ListingTtl)
               <= QuantumFloor(lastSeen'[s] + 2 * MaxSkew + ListingTtl)
          /\ QuantumFloor(now + MaxSkew + ListingTtl) \in Nat
          /\ QuantumFloor(lastSeen'[s] + 2 * MaxSkew + ListingTtl) \in Nat
      BY <3>2, QuantumMonotone, QuantumFloorType
    <3> QED BY <1>2, <1>3, <3>1, <3>3
  <2> QED BY <2>1, <2>2, <2>3, RowSource
<1> QED BY <1>4, <1>5 DEF Backed

(* A model that is read is backed by the rows it is read from. *)
LEMMA ModelIsBacked ==
  ASSUME TypeInv, Clocks, NEW s \in Server, entry[s] # NoValue, NEW t \in Nat
  PROVE  /\ ModelExpiry(t, entry, lastSeen)
              <= QuantumFloor(now + MaxSkew + ListingTtl)
         /\ lastSeen[s] # NoValue
         /\ ModelExpiry(t, entry, lastSeen)
              <= QuantumFloor(lastSeen[s] + 2 * MaxSkew + ListingTtl)
<1>0. /\ now \in Nat /\ MaxSkew \in Nat /\ ListingTtl \in Nat
      /\ \A x \in Server : entry[x] # NoValue => lastSeen[x] \in Nat
      /\ lastSeen[s] \in Nat /\ lastSeen[s] # NoValue /\ lastSeen[s] <= now + MaxSkew
  BY ConstantsAssumption, ValuesAssumption
  DEF TypeInv, ClockOK, D1OK, EntriesBacked, Clocks
<1>1. /\ ModelExpiry(t, entry, lastSeen) \in Nat
      /\ ModelExpiry(t, entry, lastSeen) <= QuantumFloor(lastSeen[s] + ListingTtl)
  BY <1>0, ModelExpiryType, ModelExpiryBound
<1>2. /\ lastSeen[s] + ListingTtl \in Nat
      /\ lastSeen[s] + 2 * MaxSkew + ListingTtl \in Nat
      /\ now + MaxSkew + ListingTtl \in Nat
      /\ lastSeen[s] + ListingTtl <= lastSeen[s] + 2 * MaxSkew + ListingTtl
      /\ lastSeen[s] + ListingTtl <= now + MaxSkew + ListingTtl
  BY <1>0
<1>3. /\ QuantumFloor(lastSeen[s] + ListingTtl) \in Nat
      /\ QuantumFloor(lastSeen[s] + 2 * MaxSkew + ListingTtl) \in Nat
      /\ QuantumFloor(now + MaxSkew + ListingTtl) \in Nat
      /\ QuantumFloor(lastSeen[s] + ListingTtl)
           <= QuantumFloor(lastSeen[s] + 2 * MaxSkew + ListingTtl)
      /\ QuantumFloor(lastSeen[s] + ListingTtl)
           <= QuantumFloor(now + MaxSkew + ListingTtl)
  BY <1>2, QuantumFloorType, QuantumMonotone
<1> QED BY <1>0, <1>1, <1>3

(* The same of what a step writes, or leaves alone *)
BackedNext(content, until) ==
  \A s \in Server : content.shown[s] # NoValue =>
    /\ until <= QuantumFloor(now' + MaxSkew + ListingTtl)
    /\ \/ until <= now' + Grace
       \/ /\ lastSeen'[s] # NoValue
          /\ until <= QuantumFloor(lastSeen'[s] + 2 * MaxSkew + ListingTtl)

(* A pending build expires with its model, and a copy with its pending build. *)
LEMMA CopiesBackedStep ==
  ASSUME TypeInv, Clocks, CopiesBacked, [Next]_vars
  PROVE  CopiesBacked'
<1>0. /\ model # NoValue => model.expiresAt \in Nat
      /\ pending # NoValue => pending.expiresAt \in Nat
      /\ \A x \in Object : x.expiresAt \in Nat
  BY DEF TypeInv, OpOK, OperationTypeOK, ObjectTypeOK, Model, Pending, Object
<1>1. ASSUME NEW content, NEW until \in Nat, Backed(content, until)
      PROVE  BackedNext(content, until)
  BY <1>1, BackedLasts DEF BackedNext
<1>2. model' # NoValue => BackedNext(model'.content, model'.expiresAt)
  <2>1. CASE model' \in {model, NoValue}
    BY <1>0, <1>1, <2>1 DEF CopiesBacked
  <2>2. CASE /\ model'.content = Content(entry, order)
             /\ model'.expiresAt =
                  ModelExpiry(Larger(opNow, updatedAt), entry, lastSeen)
             /\ UNCHANGED <<now, revision, entry, lastSeen>>
    <3>1. Larger(opNow, updatedAt) \in Nat
      BY DEF TypeInv, OpOK, OperationTypeOK, D1OK, D1TypeOK, Larger
    <3>2. model'.content.shown = entry
      BY <2>2 DEF Content
    <3>3. ASSUME NEW s \in Server, entry[s] # NoValue
          PROVE  /\ model'.expiresAt <= QuantumFloor(now' + MaxSkew + ListingTtl)
                 /\ lastSeen'[s] # NoValue
                 /\ model'.expiresAt
                      <= QuantumFloor(lastSeen'[s] + 2 * MaxSkew + ListingTtl)
      BY <2>2, <3>1, <3>3, ModelIsBacked
    <3> QED BY <3>2, <3>3 DEF BackedNext
  <2> QED BY <2>1, <2>2, ModelSource
<1>3. pending' # NoValue => BackedNext(pending'.content, pending'.expiresAt)
  <2>1. CASE pending' \in {pending, NoValue}
    BY <1>0, <1>1, <2>1 DEF CopiesBacked
  <2>2. CASE /\ model \in Model /\ pending'.content = model.content
             /\ pending'.expiresAt = model.expiresAt
    <3>1. model # NoValue
      BY <2>2, ValuesAssumption
    <3> QED BY <1>0, <1>1, <2>2, <3>1 DEF CopiesBacked
  <2> QED BY <2>1, <2>2, PendingSource
<1>4. ASSUME NEW f \in Format, NEW x \in Object, Copy(f, x)'
      PROVE  BackedNext(x.content, x.expiresAt)
  <2>1. CASE Copy(f, x)
    BY <1>0, <1>1, <2>1 DEF CopiesBacked
  <2>2. CASE pc \in {"immutable", "put"} /\ x = ObjectOf(pending)
    <3>1. pending # NoValue
      BY <2>2, WriterHasPending
    <3>2. x.content = pending.content /\ x.expiresAt = pending.expiresAt
      BY <2>2 DEF ObjectOf
    <3> QED BY <1>0, <1>1, <3>1, <3>2 DEF CopiesBacked
  <2> QED BY <1>4, <2>1, <2>2, CopySource
<1> QED BY <1>2, <1>3, <1>4 DEF CopiesBacked, Backed, BackedNext

(* Rows only move by the clock, so what was backed once stays backed. *)
LEMMA BackedInvariant == Spec => [](Clocks /\ CopiesBacked)
<1>1. Init => Clocks /\ CopiesBacked
  <2> SUFFICES ASSUME Init PROVE Clocks /\ CopiesBacked
    OBVIOUS
  <2>1. Clocks
    BY ConstantsAssumption DEF Init, Clocks
  <2>2. CopiesBacked
    BY NoCopyYet DEF Init, CopiesBacked
  <2> QED BY <2>1, <2>2
<1>2. TypeInv /\ Clocks /\ CopiesBacked /\ [Next]_vars => Clocks' /\ CopiesBacked'
  BY ClocksStep, CopiesBackedStep
<1> QED BY <1>1, <1>2, TypeInvariant, PTL DEF Spec

(* Until it expires, less the grace, no artifact lists a server that has left *)
(* the presence.                                                              *)
ArtifactWithinGrace ==
  \A f \in Format : \A x \in Kept(f) : now + Grace < x.expiresAt =>
    \A s \in Server : x.content.shown[s] # NoValue => lastSeen[s] # NoValue

(* Whatever the clocks of the publishing workers are apart, an artifact        *)
(* outlives a row it lists by no more than twice that, in whole quanta.       *)
THEOREM ArtifactsOutliveByGrace == Spec => []ArtifactWithinGrace
<1>1. ASSUME TypeInv, CopiesBacked PROVE ArtifactWithinGrace
  <2> SUFFICES ASSUME NEW f \in Format, NEW x \in Kept(f), now + Grace < x.expiresAt,
                      NEW s \in Server, x.content.shown[s] # NoValue
               PROVE  lastSeen[s] # NoValue
    BY DEF ArtifactWithinGrace
  <2>1. x \in Object /\ Copy(f, x)
    BY <1>1, KeptIsCopy
  <2>2. x.expiresAt <= now + Grace \/ lastSeen[s] # NoValue
    BY <1>1, <2>1 DEF CopiesBacked, Backed
  <2>3. x.expiresAt \in Nat /\ now \in Nat /\ Grace \in Nat
    <3>1. 2 * MaxSkew + Quantum - 1 \in Nat
      BY ConstantsAssumption
    <3>2. Grace \in Nat
      BY <3>1, QuantumFloorType DEF Grace
    <3> QED BY <1>1, <2>1, <3>2 DEF Object, TypeInv, ClockOK
  <2> QED BY <2>2, <2>3
<1> QED BY <1>1, BackedInvariant, TypeInvariant, PTL

(* With one clock, an artifact "never outlives its backing row": in the        *)
(* buckets, in the CDN and through every delay of a crashed builder's write.  *)
THEOREM ArtifactsStayBacked ==
  ASSUME MaxSkew = 0
  PROVE  Spec => []ArtifactWithinBacking
<1>1. Grace = 0
  <2>1. Quantum \in Nat /\ Quantum > 0
    BY ConstantsAssumption
  <2>2. QuantumFloor(Quantum - 1) = 0
    <3>1. (Quantum - 1) \div Quantum = 0
      BY <2>1
    <3> QED BY <2>1, <3>1 DEF QuantumFloor
  <2>3. 2 * MaxSkew + Quantum - 1 = Quantum - 1
    BY <2>1
  <2> QED BY <2>2, <2>3 DEF Grace
<1>2. TypeInv /\ ArtifactWithinGrace => ArtifactWithinBacking
  <2>1. now \in Nat => now + Grace = now
    BY <1>1
  <2> QED BY <2>1 DEF ArtifactWithinGrace, ArtifactWithinBacking, TypeInv, ClockOK
<1> QED BY <1>2, ArtifactsOutliveByGrace, TypeInvariant, PTL

=============================================================================
