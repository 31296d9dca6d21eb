---------------------------- MODULE ProgramProofs ----------------------------
(***************************************************************************)
(* Proofs about the small programs, for any number of goroutines:          *)
(*   - blockingQ: the tokens alone make it a pool, Put never blocks and at *)
(*     most poolSize goroutines are between Get and Put;                   *)
(*   - the connection pools: handles are neither lost nor shared, the      *)
(*     server refuses nobody while its limit is not below the need, and    *)
(*     both pools implement ResourcePool;                                  *)
(*   - the ticket counter loses no decrement;                              *)
(*   - a bloom filter of any size with any number of hashes has no false   *)
(*     negatives, and a false positive is explained by other items.        *)
(***************************************************************************)
EXTENDS BlockingQueue, ConnectionPool, PessimisticLocking, BloomFilter,
        FiniteSetTheorems, SequenceTheorems, TLAPS

-----------------------------------------------------------------------------
\* BlockingQueue.

\* Goroutines between Get and Put.
Holders == {u \in QUser : qpc[u] \in {"use", "put"}}

\* Every token is in the channel or stands for a holder.
TokenInv == QTypeOK /\ tokens + Cardinality(Holders) = QSize

\* Cardinality(Holders) is a number.
LEMMA HoldersFinite ==
    IsFiniteSet(Holders) /\ Cardinality(Holders) \in Nat
<1>1. Holders \subseteq QUser
  BY DEF Holders
<1>. QED
  BY <1>1, QAssumption, FS_Subset, FS_CardinalityType

\* A step of main's goroutines keeps the sum.
LEMMA TokenStep ==
    ASSUME TokenInv, [QNext]_qVars
    PROVE  TokenInv'
<1>. USE QAssumption DEF TokenInv, QTypeOK
<1>1. ASSUME NEW u \in QUser, QGet(u)
      PROVE  TokenInv'
  <2>1. Holders' = Holders \cup {u} /\ u \notin Holders
    BY <1>1 DEF QGet, Holders
  <2>2. Cardinality(Holders') = Cardinality(Holders) + 1
    BY <2>1, HoldersFinite, FS_AddElement
  <2>. QED
    BY <1>1, <2>2, HoldersFinite DEF QGet
<1>2. ASSUME NEW u \in QUser, QUse(u)
      PROVE  TokenInv'
  <2>1. Holders' = Holders
    BY <1>2 DEF QUse, Holders
  <2>. QED
    BY <1>2, <2>1 DEF QUse
<1>3. ASSUME NEW u \in QUser, QPut(u)
      PROVE  TokenInv'
  <2>1. Holders' = Holders \ {u} /\ u \in Holders
    BY <1>3 DEF QPut, Holders
  <2>2. Cardinality(Holders') = Cardinality(Holders) - 1
    BY <2>1, HoldersFinite, FS_RemoveElement
  <2>. QED
    BY <1>3, <2>2, HoldersFinite DEF QPut
<1>4. CASE UNCHANGED qVars
  BY <1>4 DEF qVars, Holders
<1>. QED
  BY <1>1, <1>2, <1>3, <1>4 DEF QNext, QStep

\* newBlockingQ fills the channel: as many tokens as holders are missing.
THEOREM TokensCountHolders == QSpec => []TokenInv
<1>1. QInit => TokenInv
  <2>. SUFFICES ASSUME QInit PROVE TokenInv
    OBVIOUS
  <2>1. Holders = {}
    BY DEF QInit, Holders
  <2>2. Cardinality(Holders) = 0
    BY <2>1, FS_EmptySet
  <2>. QED
    BY <2>2, QAssumption DEF QInit, TokenInv, QTypeOK
<1>. QED
  BY <1>1, TokenStep, PTL DEF QSpec

\* A goroutine that calls Put finds room in the channel.
THEOREM PutDoesNotBlock == QSpec => []PutNeverBlocks
<1>1. TokenInv => PutNeverBlocks
  <2>. SUFFICES ASSUME TokenInv, NEW u \in QUser, qpc[u] = "put"
                PROVE  tokens < QSize
    BY DEF PutNeverBlocks
  <2>1. u \in Holders
    BY DEF Holders
  <2>2. Cardinality(Holders) # 0
    BY <2>1, HoldersFinite, FS_EmptySet
  <2>. QED
    BY <2>2, HoldersFinite, QAssumption DEF TokenInv, QTypeOK
<1>. QED
  BY <1>1, TokensCountHolders, PTL

-----------------------------------------------------------------------------
\* The holders of the abstract pool.
LEMMA SameHolders ==
    ASSUME QTypeOK
    PROVE  QPool!Holding = Holders
  BY DEF QTypeOK, QPool!Holding, Holders, QPhase

\* Cardinality means the same in both modules.
LEMMA SameCardinality ==
    QPool!Cardinality(Holders) = Cardinality(Holders)
  BY Zenon DEF QPool!Cardinality, Cardinality

\* Get and Put, with their copied mutex and slice, implement ResourcePool.
THEOREM QRefinement == QSpec => QImplementsPool
<1>1. QInit => QPool!Init
  BY DEF QInit, QPool!Init, QPhase
<1>2. TokenInv /\ [QNext]_qVars => [QPool!Next]_QPhase
  <2>. SUFFICES ASSUME TokenInv, [QNext]_qVars
                PROVE  [QPool!Next]_QPhase
    OBVIOUS
  <2>. USE DEF TokenInv, QTypeOK
  <2>1. ASSUME NEW u \in QUser, QGet(u)
        PROVE  QPool!Acquire(u)
    <3>1. QPool!Cardinality(QPool!Holding) < QSize
      BY <2>1, SameHolders, SameCardinality, HoldersFinite, QAssumption DEF QGet
    <3>2. QPhase[u] = "waiting" /\ QPhase' = [QPhase EXCEPT ![u] = "holding"]
      BY <2>1 DEF QGet, QPhase
    <3>. QED
      BY <3>1, <3>2 DEF QPool!Acquire
  <2>2. ASSUME NEW u \in QUser, QUse(u)
        PROVE  QPhase' = QPhase
    BY <2>2 DEF QUse, QPhase
  <2>3. ASSUME NEW u \in QUser, QPut(u)
        PROVE  QPool!Release(u)
    BY <2>3 DEF QPut, QPhase, QPool!Release
  <2>4. CASE UNCHANGED qVars
    BY <2>4 DEF qVars, QPhase
  <2>. QED
    BY <2>1, <2>2, <2>3, <2>4 DEF QNext, QStep, QPool!Next
<1>. QED
  BY <1>1, <1>2, TokensCountHolders, PTL DEF QSpec, QImplementsPool, QPool!Spec

-----------------------------------------------------------------------------
\* ConnectionPool.

\* Workers that use a connection.
InUse == At("got") \cup At("exec")

\* plain: one connection for each of them.
PlainInv ==
    mode = "plain" =>
        /\ open = Cardinality(InUse)
        /\ \A w \in Worker : wpc[w] \notin {"got", "queued"}

\* channel: a handle opens one connection; the handles are in the channel or
\* with a worker, each in one place.
Placed ==
    /\ \A w \in InUse : held[w] \in Handle
    /\ \A i, j \in 1 .. Len(ch) : ch[i] = ch[j] => i = j
    /\ \A v, w \in InUse : held[v] = held[w] => v = w
    /\ \A i \in 1 .. Len(ch), w \in InUse : ch[i] # held[w]
    /\ \A h \in Handle :
          (\E i \in 1 .. Len(ch) : ch[i] = h) \/ (\E w \in InUse : held[w] = h)

\* channel: connections are counted by the handles that were dialled, and
\* the channel has room for those in use.
ChannelInv ==
    mode = "channel" =>
        /\ open = Cardinality(dialled)
        /\ Len(ch) + Cardinality(InUse) = MaxConn
        /\ \A w \in Worker : wpc[w] # "queued"
        /\ Placed

\* pool: a connection is idle or used.
SqlPoolInv ==
    mode = "pool" =>
        /\ open = idle + Cardinality(InUse) /\ open <= MaxConn
        /\ \A w \in Worker : wpc[w] # "got"

\* The inductive invariant.
PoolInv ==
    PoolTypeOK /\ PlainInv /\ ChannelInv /\ SqlPoolInv /\ RefusedOnlyBeyondLimit

-----------------------------------------------------------------------------
\* The numbers of workers in use and of handles dialled are numbers.
LEMMA PoolFinite ==
    /\ IsFiniteSet(InUse) /\ Cardinality(InUse) \in Nat
    /\ IsFiniteSet(Handle) /\ Cardinality(Handle) = MaxConn
    /\ \A D \in SUBSET Handle : IsFiniteSet(D) /\ Cardinality(D) \in Nat
<1>1. InUse \subseteq Worker
  BY DEF InUse, At
<1>2. IsFiniteSet(Handle) /\ Cardinality(Handle) = MaxConn
  BY PoolAssumption, FS_Interval DEF Handle
<1>. QED
  BY <1>1, <1>2, PoolAssumption, FS_Subset, FS_CardinalityType

\* A worker starts to use a connection.
LEMMA InUseGrows ==
    ASSUME PoolTypeOK, NEW w \in Worker, wpc[w] \in {"start", "queued"},
           NEW label \in {"got", "exec"}, wpc' = [wpc EXCEPT ![w] = label]
    PROVE  /\ InUse' = InUse \cup {w} /\ w \notin InUse
           /\ Cardinality(InUse') = Cardinality(InUse) + 1
<1>1. InUse' = InUse \cup {w} /\ w \notin InUse
  BY DEF PoolTypeOK, InUse, At
<1>. QED
  BY <1>1, PoolFinite, FS_AddElement

\* A worker ends its use.
LEMMA InUseShrinks ==
    ASSUME PoolTypeOK, NEW w \in Worker, wpc[w] \in {"got", "exec"},
           wpc' = [wpc EXCEPT ![w] = "done"]
    PROVE  /\ InUse' = InUse \ {w} /\ w \in InUse
           /\ Cardinality(InUse') = Cardinality(InUse) - 1
           /\ Cardinality(InUse) > 0
<1>1. InUse' = InUse \ {w} /\ w \in InUse
  BY DEF PoolTypeOK, InUse, At
<1>2. Cardinality(InUse') = Cardinality(InUse) - 1
  BY <1>1, PoolFinite, FS_RemoveElement
<1>3. Cardinality(InUse) # 0
  BY <1>1, PoolFinite, FS_EmptySet
<1>. QED
  BY <1>1, <1>2, <1>3, PoolFinite

\* The benchmarks start with every handle in the channel and nobody at work.
LEMMA PoolInitInv == PoolInit => PoolInv
<1>. SUFFICES ASSUME PoolInit PROVE PoolInv
  OBVIOUS
<1>. USE PoolAssumption
<1>1. InUse = {}
  BY DEF PoolInit, InUse, At
<1>2. Cardinality(InUse) = 0 /\ Cardinality({}) = 0
  BY <1>1, FS_EmptySet
<1>3. ch \in Seq(Handle) /\ Len(ch) = MaxConn /\ \A i \in 1 .. MaxConn : ch[i] = i
  <2>1. ch \in [1 .. MaxConn -> Handle] /\ \A i \in 1 .. MaxConn : ch[i] = i
    BY DEF PoolInit, Handle
  <2>2. ch \in Seq(Handle)
    BY <2>1, SeqDef
  <2>. QED
    BY <2>1, <2>2, LenProperties
<1>4. PoolTypeOK
  <2>1. open \in Nat /\ idle \in 0 .. MaxIdle
    BY DEF PoolInit
  <2>2. held \in [Worker -> Handle \cup {NoHandle}] /\ dialled \subseteq Handle
    BY DEF PoolInit
  <2>. QED
    BY <1>3, <2>1, <2>2 DEF PoolInit, PoolTypeOK
<1>5. PlainInv /\ SqlPoolInv
  BY <1>2 DEF PoolInit, PlainInv, SqlPoolInv
<1>6. ChannelInv
  BY <1>1, <1>2, <1>3 DEF PoolInit, ChannelInv, Placed, Handle
<1>. QED
  BY <1>4, <1>5, <1>6 DEF PoolInv, PoolInit, RefusedOnlyBeyondLimit

\* plain: the connections the server serves are those of the workers that
\* use one, so all workers together cannot need more than there are.
LEMMA PlainStep ==
    ASSUME PoolInv, NEW w \in Worker, PlainExec(w) \/ PlainRefused(w) \/ PlainDone(w)
    PROVE  PoolInv'
<1>. USE PoolAssumption DEF PoolInv
<1>1. mode = "plain" /\ UNCHANGED mode
  BY DEF PlainExec, PlainRefused, PlainDone, Step, Panic
<1>2. ASSUME PlainExec(w) PROVE PoolInv'
  <2>1. Cardinality(InUse') = Cardinality(InUse) + 1
    BY <1>2, InUseGrows DEF PlainExec, Step
  <2>2. PoolTypeOK'
    BY <1>2 DEF PoolTypeOK, PlainExec, Step
  <2>3. PlainInv'
    BY <1>1, <1>2, <2>1 DEF PlainInv, PlainExec, Step, PoolTypeOK
  <2>. QED
    BY <1>1, <1>2, <2>2, <2>3 DEF ChannelInv, SqlPoolInv, RefusedOnlyBeyondLimit, PlainExec, Step
<1>3. ASSUME PlainRefused(w) PROVE PoolInv'
  <2>1. InUse \subseteq Worker \ {w}
    BY <1>3 DEF InUse, At, PlainRefused, Panic
  <2>2. /\ IsFiniteSet(Worker \ {w})
        /\ Cardinality(Worker \ {w}) = Cardinality(Worker) - 1
        /\ Cardinality(Worker) \in Nat
    BY FS_RemoveElement, FS_CardinalityType
  <2>3. Cardinality(InUse) <= Cardinality(Worker) - 1
    BY <2>1, <2>2, FS_Subset
  <2>4. limit < Cardinality(Worker)
    BY <1>1, <1>3, <2>2, <2>3, PoolFinite DEF PlainRefused, PlainInv
  <2>5. InUse' = InUse
    BY <1>3 DEF PlainRefused, Panic, InUse, At
  <2>6. PoolTypeOK'
    BY <1>3 DEF PoolTypeOK, PlainRefused, Panic
  <2>. QED
    BY <1>1, <1>3, <2>4, <2>5, <2>6
       DEF PlainInv, ChannelInv, SqlPoolInv, RefusedOnlyBeyondLimit, PlainRefused, Panic
<1>4. ASSUME PlainDone(w) PROVE PoolInv'
  <2>1. Cardinality(InUse') = Cardinality(InUse) - 1 /\ Cardinality(InUse) > 0
    BY <1>4, InUseShrinks DEF PlainDone, Step
  <2>2. open - 1 \in Nat
    BY <1>1, <2>1, PoolFinite DEF PlainInv
  <2>3. PoolTypeOK'
    BY <1>4, <2>2 DEF PoolTypeOK, PlainDone, Step
  <2>4. PlainInv'
    BY <1>1, <1>4, <2>1 DEF PlainInv, PlainDone, Step, PoolTypeOK
  <2>. QED
    BY <1>1, <1>4, <2>3, <2>4 DEF ChannelInv, SqlPoolInv, RefusedOnlyBeyondLimit, PlainDone, Step
<1>. QED
  BY <1>2, <1>3, <1>4

-----------------------------------------------------------------------------
\* channel: Get takes a handle out of the channel.
LEMMA GetStep ==
    ASSUME PoolInv, NEW w \in Worker, Get(w)
    PROVE  PoolInv'
<1>. USE PoolAssumption DEF PoolInv
<1>1. /\ mode = "channel" /\ mode' = "channel" /\ limit' = limit
      /\ wpc[w] = "start" /\ wpc' = [wpc EXCEPT ![w] = "got"]
      /\ ch \in Seq(Handle) /\ ch # <<>>
      /\ held' = [held EXCEPT ![w] = Head(ch)] /\ ch' = Tail(ch)
      /\ UNCHANGED <<alive, refused, open, dialled, idle>>
  BY DEF Get, Step, PoolTypeOK
<1>2. /\ InUse' = InUse \cup {w} /\ w \notin InUse
      /\ Cardinality(InUse') = Cardinality(InUse) + 1
  BY <1>1, InUseGrows
<1>3. /\ Len(ch) \in Nat \ {0} /\ Len(ch') = Len(ch) - 1 /\ ch' \in Seq(Handle)
      /\ Head(ch) = ch[1] /\ ch[1] \in Handle
      /\ \A i \in 1 .. Len(ch) - 1 : ch'[i] = ch[i + 1]
  BY <1>1
<1>4. PoolTypeOK'
  BY <1>1, <1>3 DEF PoolTypeOK
<1>5. \A v \in InUse : held'[v] = held[v]
  BY <1>1, <1>2 DEF InUse, At, PoolTypeOK
<1>6. held'[w] = ch[1]
  BY <1>1, <1>3 DEF PoolTypeOK
<1>7. Placed
  BY <1>1 DEF ChannelInv
<1>8. Placed'
  <2>1. \A v \in InUse' : held'[v] \in Handle
    BY <1>2, <1>3, <1>5, <1>6, <1>7 DEF Placed
  <2>2. \A i, j \in 1 .. Len(ch') : ch'[i] = ch'[j] => i = j
    BY <1>3, <1>7 DEF Placed
  <2>3. \A u, v \in InUse' : held'[u] = held'[v] => u = v
    BY <1>2, <1>3, <1>5, <1>6, <1>7 DEF Placed
  <2>4. \A i \in 1 .. Len(ch'), v \in InUse' : ch'[i] # held'[v]
    BY <1>2, <1>3, <1>5, <1>6, <1>7 DEF Placed
  <2>5. ASSUME NEW h \in Handle
        PROVE  \/ \E i \in 1 .. Len(ch') : ch'[i] = h
               \/ \E v \in InUse' : held'[v] = h
    <3>1. CASE \E v \in InUse : held[v] = h
      BY <1>2, <1>5, <3>1
    <3>2. CASE h = ch[1]
      BY <1>2, <1>6, <3>2
    <3>3. ASSUME NEW i \in 2 .. Len(ch), ch[i] = h
          PROVE  \E j \in 1 .. Len(ch') : ch'[j] = h
      <4>1. i - 1 \in 1 .. Len(ch') /\ ch'[i - 1] = h
        BY <1>3, <3>3
      <4>. QED
        BY <4>1
    <3>. QED
      BY <1>3, <1>7, <3>1, <3>2, <3>3 DEF Placed
  <2>. QED
    BY <2>1, <2>2, <2>3, <2>4, <2>5 DEF Placed
<1>9. ChannelInv'
  <2>1. Len(ch') + Cardinality(InUse') = MaxConn
    BY <1>1, <1>2, <1>3, PoolFinite DEF ChannelInv
  <2>2. \A v \in Worker : wpc'[v] # "queued"
    BY <1>1 DEF ChannelInv, PoolTypeOK
  <2>. QED
    BY <1>1, <1>8, <2>1, <2>2 DEF ChannelInv
<1>. QED
  BY <1>1, <1>4, <1>9 DEF PlainInv, SqlPoolInv, RefusedOnlyBeyondLimit

\* Put gives it back.
LEMMA PutStep ==
    ASSUME PoolInv, NEW w \in Worker, Put(w)
    PROVE  PoolInv'
<1>. USE PoolAssumption DEF PoolInv
<1>1. /\ mode = "channel" /\ mode' = "channel" /\ limit' = limit
      /\ wpc[w] = "exec" /\ wpc' = [wpc EXCEPT ![w] = "done"]
      /\ ch \in Seq(Handle)
      /\ held' = [held EXCEPT ![w] = NoHandle] /\ ch' = Append(ch, held[w])
      /\ UNCHANGED <<alive, refused, open, dialled, idle>>
  BY DEF Put, Step, PoolTypeOK
<1>2. /\ InUse' = InUse \ {w} /\ w \in InUse
      /\ Cardinality(InUse') = Cardinality(InUse) - 1
  BY <1>1, InUseShrinks
<1>3. Placed
  BY <1>1 DEF ChannelInv
<1>4. held[w] \in Handle
  BY <1>2, <1>3 DEF Placed
<1>5. /\ Len(ch) \in Nat /\ Len(ch') = Len(ch) + 1 /\ ch' \in Seq(Handle)
      /\ ch'[Len(ch) + 1] = held[w]
      /\ \A i \in 1 .. Len(ch) : ch'[i] = ch[i]
  BY <1>1, <1>4
<1>6. PoolTypeOK'
  BY <1>1, <1>5 DEF PoolTypeOK
<1>7. \A v \in InUse' : v \in InUse /\ v # w /\ held'[v] = held[v]
  BY <1>1, <1>2 DEF InUse, At, PoolTypeOK
<1>8. Placed'
  <2>1. \A v \in InUse' : held'[v] \in Handle
    BY <1>3, <1>7 DEF Placed
  <2>2. \A i, j \in 1 .. Len(ch') : ch'[i] = ch'[j] => i = j
    BY <1>2, <1>3, <1>5 DEF Placed
  <2>3. \A u, v \in InUse' : held'[u] = held'[v] => u = v
    BY <1>3, <1>7 DEF Placed
  <2>4. \A i \in 1 .. Len(ch'), v \in InUse' : ch'[i] # held'[v]
    BY <1>2, <1>3, <1>5, <1>7 DEF Placed
  <2>5. ASSUME NEW h \in Handle
        PROVE  \/ \E i \in 1 .. Len(ch') : ch'[i] = h
               \/ \E v \in InUse' : held'[v] = h
    <3>1. CASE \E i \in 1 .. Len(ch) : ch[i] = h
      BY <1>5, <3>1
    <3>2. CASE h = held[w]
      <4>1. Len(ch) + 1 \in 1 .. Len(ch') /\ ch'[Len(ch) + 1] = h
        BY <1>5, <3>2
      <4>. QED
        BY <4>1
    <3>3. ASSUME NEW v \in InUse, v # w, held[v] = h
          PROVE  \E u \in InUse' : held'[u] = h
      BY <1>2, <1>7, <3>3
    <3>. QED
      BY <1>3, <3>1, <3>2, <3>3 DEF Placed
  <2>. QED
    BY <2>1, <2>2, <2>3, <2>4, <2>5 DEF Placed
<1>9. ChannelInv'
  BY <1>1, <1>2, <1>5, <1>8, PoolFinite DEF ChannelInv, PoolTypeOK
<1>. QED
  BY <1>1, <1>6, <1>9 DEF PlainInv, SqlPoolInv, RefusedOnlyBeyondLimit

\* A statement over a handle, a refused connection, a failing statement.
LEMMA ExecStep ==
    ASSUME PoolInv, NEW w \in Worker,
           ChannelExec(w) \/ ChannelRefused(w) \/ ExecFails(w)
    PROVE  PoolInv'
<1>. USE PoolAssumption DEF PoolInv
<1>1. ASSUME ChannelExec(w) PROVE PoolInv'
  <2>1. /\ mode = "channel" /\ mode' = "channel" /\ limit' = limit
        /\ wpc[w] = "got" /\ wpc' = [wpc EXCEPT ![w] = "exec"]
        /\ UNCHANGED <<alive, refused, ch, held, idle>>
    BY <1>1 DEF ChannelExec, Step
  <2>2. InUse' = InUse /\ w \in InUse
    BY <2>1 DEF InUse, At, PoolTypeOK
  <2>3. held[w] \in Handle
    BY <2>1, <2>2 DEF ChannelInv, Placed
  <2>4. /\ dialled' \subseteq Handle /\ open' \in Nat
        /\ open' = Cardinality(dialled')
    <3>1. CASE UNCHANGED <<open, dialled>>
      BY <2>1, <3>1 DEF PoolTypeOK, ChannelInv
    <3>2. CASE /\ held[w] \notin dialled /\ open' = open + 1
               /\ dialled' = dialled \cup {held[w]}
      <4>1. dialled \in SUBSET Handle /\ open = Cardinality(dialled)
        BY <2>1 DEF PoolTypeOK, ChannelInv
      <4>2. IsFiniteSet(dialled) /\ Cardinality(dialled) \in Nat
        BY <4>1, PoolFinite
      <4>3. Cardinality(dialled \cup {held[w]}) = Cardinality(dialled) + 1
        BY <3>2, <4>2, FS_AddElement
      <4>. QED
        BY <2>3, <3>2, <4>1, <4>2, <4>3
    <3>. QED
      BY <1>1, <3>1, <3>2 DEF ChannelExec
  <2>5. PoolTypeOK'
    BY <2>1, <2>4 DEF PoolTypeOK
  <2>6. Placed'
    BY <2>1, <2>2 DEF ChannelInv, Placed
  <2>7. ChannelInv'
    BY <2>1, <2>2, <2>4, <2>6 DEF ChannelInv, PoolTypeOK
  <2>. QED
    BY <2>1, <2>5, <2>7 DEF PlainInv, SqlPoolInv, RefusedOnlyBeyondLimit
<1>2. ASSUME ChannelRefused(w) \/ ExecFails(w) PROVE PoolInv'
  <2>1. UNCHANGED <<mode, limit, open, wpc, ch, held, dialled, idle>> /\ alive' = FALSE
    BY <1>2 DEF ChannelRefused, ExecFails, Panic
  <2>2. InUse' = InUse
    BY <2>1 DEF InUse, At
  <2>3. RefusedOnlyBeyondLimit'
    <3>1. CASE UNCHANGED refused
      BY <2>1, <3>1 DEF RefusedOnlyBeyondLimit
    <3>2. ASSUME ChannelRefused(w) PROVE RefusedOnlyBeyondLimit'
      <4>1. /\ mode = "channel" /\ w \in InUse /\ held[w] \notin dialled
            /\ open = limit
        BY <3>2 DEF ChannelRefused, Panic, InUse, At
      <4>2. dialled \subseteq Handle \ {held[w]} /\ held[w] \in Handle
        BY <4>1 DEF PoolTypeOK, ChannelInv, Placed
      <4>3. /\ IsFiniteSet(Handle \ {held[w]})
            /\ Cardinality(Handle \ {held[w]}) = MaxConn - 1
        BY <4>2, PoolFinite, FS_RemoveElement
      <4>4. Cardinality(dialled) <= MaxConn - 1
        BY <4>2, <4>3, FS_Subset
      <4>5. limit < MaxConn
        BY <4>1, <4>4, PoolFinite DEF ChannelInv, PoolTypeOK
      <4>. QED
        BY <2>1, <4>1, <4>5 DEF RefusedOnlyBeyondLimit
    <3>. QED
      BY <1>2, <3>1, <3>2 DEF ExecFails
  <2>4. PoolTypeOK'
    <3>1. refused' \in BOOLEAN
      BY <1>2 DEF ChannelRefused, ExecFails, PoolTypeOK
    <3>. QED
      BY <2>1, <3>1 DEF PoolTypeOK
  <2>. QED
    BY <2>1, <2>2, <2>3, <2>4 DEF PlainInv, ChannelInv, Placed, SqlPoolInv
<1>. QED
  BY <1>1, <1>2

-----------------------------------------------------------------------------
\* pool: database/sql hands connections on, opens and closes them.
LEMMA SqlPoolStep ==
    ASSUME PoolInv, NEW w \in Worker, PoolExec(w) \/ PoolRefused(w) \/ PoolDone(w)
    PROVE  PoolInv'
<1>. USE PoolAssumption DEF PoolInv
<1>1. /\ mode = "pool" /\ mode' = "pool" /\ limit' = limit
      /\ UNCHANGED <<alive, ch, held, dialled>>
  BY DEF PoolExec, PoolRefused, PoolDone, Step
<1>2. SUFFICES /\ wpc' \in [Worker -> {"start", "queued", "exec", "done"}]
               /\ open' \in Nat /\ idle' \in 0 .. MaxIdle
               /\ open' = idle' + Cardinality(InUse') /\ open' <= MaxConn
               /\ refused' \in BOOLEAN /\ RefusedOnlyBeyondLimit'
  <2>1. PoolTypeOK'
    BY <1>1, <1>2 DEF PoolTypeOK
  <2>. QED
    BY <1>1, <1>2, <2>1 DEF PlainInv, ChannelInv, SqlPoolInv
<1>3. wpc \in [Worker -> {"start", "queued", "exec", "done"}]
  BY <1>1 DEF PoolTypeOK, SqlPoolInv
<1>4. /\ open = idle + Cardinality(InUse) /\ open <= MaxConn
      /\ idle \in 0 .. MaxIdle /\ open \in Nat /\ limit \in Nat
  BY <1>1 DEF SqlPoolInv, PoolTypeOK
<1>5. UNCHANGED refused => refused' \in BOOLEAN /\ RefusedOnlyBeyondLimit'
  BY <1>1 DEF PoolTypeOK, RefusedOnlyBeyondLimit
<1>6. CASE Step(w, "pool", "start", "exec") /\ PoolExec(w)
  <2>1. Cardinality(InUse') = Cardinality(InUse) + 1
    BY <1>6, InUseGrows DEF Step
  <2>2. /\ \/ idle > 0 /\ idle' = idle - 1 /\ open' = open
           \/ idle = 0 /\ idle' = idle /\ open' = open + 1 /\ open < MaxConn
        /\ UNCHANGED refused
    BY <1>3, <1>6 DEF Step, PoolExec
  <2>3. wpc' \in [Worker -> {"start", "queued", "exec", "done"}]
    BY <1>3, <1>6 DEF Step
  <2>. QED
    BY <1>4, <1>5, <2>1, <2>2, <2>3, PoolFinite
<1>7. CASE Step(w, "pool", "start", "queued") /\ PoolExec(w)
  <2>1. InUse' = InUse
    BY <1>3, <1>7 DEF InUse, At, Step
  <2>2. UNCHANGED <<open, idle, refused>>
    BY <1>3, <1>7 DEF Step, PoolExec
  <2>3. wpc' \in [Worker -> {"start", "queued", "exec", "done"}]
    BY <1>3, <1>7 DEF Step
  <2>. QED
    BY <1>4, <1>5, <2>1, <2>2, <2>3
<1>8. CASE PoolRefused(w)
  <2>1. InUse' = InUse /\ wpc' \in [Worker -> {"start", "queued", "exec", "done"}]
    BY <1>3, <1>8 DEF PoolRefused, InUse, At, Step
  <2>2. limit < MaxConn /\ refused' = TRUE /\ UNCHANGED <<open, idle>>
    BY <1>8 DEF PoolRefused
  <2>. QED
    BY <1>1, <1>4, <2>1, <2>2 DEF RefusedOnlyBeyondLimit
<1>9. CASE PoolDone(w)
  <2>1. UNCHANGED refused /\ wpc[w] = "exec"
    BY <1>9 DEF PoolDone
  <2>2. ASSUME NEW q \in At("queued"),
               wpc' = [wpc EXCEPT ![w] = "done", ![q] = "exec"],
               UNCHANGED <<open, idle>>
        PROVE  /\ wpc' \in [Worker -> {"start", "queued", "exec", "done"}]
               /\ Cardinality(InUse') = Cardinality(InUse)
    <3>1. q \in Worker /\ wpc[q] = "queued" /\ q # w
      BY <2>1, <2>2 DEF At
    <3>2. InUse' = (InUse \ {w}) \cup {q} /\ w \in InUse /\ q \notin InUse
      BY <1>3, <2>1, <2>2, <3>1 DEF InUse, At
    <3>3. /\ IsFiniteSet(InUse \ {w})
          /\ Cardinality(InUse \ {w}) = Cardinality(InUse) - 1
      BY <3>2, PoolFinite, FS_RemoveElement
    <3>4. Cardinality(InUse') = Cardinality(InUse \ {w}) + 1
      BY <3>2, <3>3, FS_AddElement
    <3>. QED
      BY <1>3, <2>2, <3>1, <3>3, <3>4, PoolFinite
  <2>3. ASSUME wpc' = [wpc EXCEPT ![w] = "done"]
        PROVE  /\ wpc' \in [Worker -> {"start", "queued", "exec", "done"}]
               /\ Cardinality(InUse') = Cardinality(InUse) - 1
               /\ Cardinality(InUse) > 0
    BY <1>3, <2>1, <2>3, InUseShrinks
  <2>4. CASE \E q \in At("queued") :
                /\ wpc' = [wpc EXCEPT ![w] = "done", ![q] = "exec"]
                /\ UNCHANGED <<open, idle>>
    BY <1>4, <1>5, <2>1, <2>2, <2>4
  <2>5. CASE wpc' = [wpc EXCEPT ![w] = "done"] /\ idle < MaxIdle
               /\ idle' = idle + 1 /\ UNCHANGED open
    BY <1>4, <1>5, <2>1, <2>3, <2>5, PoolFinite
  <2>6. CASE wpc' = [wpc EXCEPT ![w] = "done"] /\ open' = open - 1 /\ UNCHANGED idle
    BY <1>4, <1>5, <2>1, <2>3, <2>6, PoolFinite
  <2>. QED
    BY <1>9, <2>4, <2>5, <2>6 DEF PoolDone
<1>. QED
  BY <1>6, <1>7, <1>8, <1>9 DEF PoolExec

-----------------------------------------------------------------------------
\* The invariant of the three benchmarks.
THEOREM PoolInvariant == PoolSpec => []PoolInv
<1>1. PoolInv /\ [PoolNext]_poolVars => PoolInv'
  <2>. SUFFICES ASSUME PoolInv, [PoolNext]_poolVars PROVE PoolInv'
    OBVIOUS
  <2>1. CASE UNCHANGED poolVars
    BY <2>1 DEF poolVars, PoolInv, PoolTypeOK, PlainInv, ChannelInv, Placed, SqlPoolInv,
                RefusedOnlyBeyondLimit, InUse, At
  <2>. QED
    BY <2>1, PlainStep, GetStep, PutStep, ExecStep, SqlPoolStep DEF PoolNext, WorkerStep
<1>. QED
  BY <1>1, PoolInitInv, PTL DEF PoolSpec

\* RefusedOnlyBeyondLimit for any number of goroutines, any sizes and any
\* limit of the server: no benchmark opens a connection that its kind does
\* not need (main.go:31-33 and 138, temp.go:24-41).
THEOREM LimitSuffices == PoolSpec => []RefusedOnlyBeyondLimit
<1>1. PoolInv => RefusedOnlyBeyondLimit
  BY DEF PoolInv
<1>. QED
  BY <1>1, PoolInvariant, PTL

\* HandleInOnePlace: Get and Put neither lose a handle nor give one to two
\* workers (temp.go:32-41).
THEOREM HandlesHaveOneHolder == PoolSpec => []HandleInOnePlace
<1>1. PoolInv => HandleInOnePlace
  <2>. SUFFICES ASSUME PoolInv, mode = "channel", NEW h \in Handle
                PROVE  Cardinality({i \in 1 .. Len(ch) : ch[i] = h})
                         + Cardinality({w \in InUse : held[w] = h}) = 1
    BY DEF HandleInOnePlace, InUse
  <2>. DEFINE I == {i \in 1 .. Len(ch) : ch[i] = h}
              W == {w \in InUse : held[w] = h}
  <2>1. Placed
    BY DEF PoolInv, ChannelInv
  <2>2. Cardinality({}) = 0 /\ \A x : Cardinality({x}) = 1
    BY FS_EmptySet, FS_Singleton
  <2>3. ASSUME NEW i \in 1 .. Len(ch), ch[i] = h
        PROVE  I = {i} /\ W = {}
    BY <2>1, <2>3 DEF Placed
  <2>4. ASSUME NEW w \in InUse, held[w] = h
        PROVE  I = {} /\ W = {w}
    BY <2>1, <2>4 DEF Placed
  <2>5. Cardinality(I) + Cardinality(W) = 1
    <3>1. CASE \E i \in 1 .. Len(ch) : ch[i] = h
      <4>1. PICK i \in 1 .. Len(ch) : ch[i] = h
        BY <3>1
      <4>2. I = {i} /\ W = {}
        BY <2>3, <4>1
      <4>3. Cardinality(I) = 1 /\ Cardinality(W) = 0
        BY <2>2, <4>2, Zenon
      <4>. HIDE DEF I, W
      <4>. QED
        BY <4>3
    <3>2. CASE \E w \in InUse : held[w] = h
      <4>1. PICK w \in InUse : held[w] = h
        BY <3>2
      <4>2. I = {} /\ W = {w}
        BY <2>4, <4>1
      <4>3. Cardinality(I) = 0 /\ Cardinality(W) = 1
        BY <2>2, <4>2, Zenon
      <4>. HIDE DEF I, W
      <4>. QED
        BY <4>3
    <3>. QED
      BY <2>1, <3>1, <3>2 DEF Placed
  <2>. QED
    BY <2>5
<1>. QED
  BY <1>1, PoolInvariant, PTL

-----------------------------------------------------------------------------
\* The users that hold a resource of the abstract pool.
LEMMA SamePoolHolders ==
    ASSUME PoolTypeOK, mode # "plain"
    PROVE  Abstract!Holding = InUse
  BY DEF PoolTypeOK, Abstract!Holding, InUse, At, WorkerPhase

\* Cardinality means the same in both modules.
LEMMA SamePoolCardinality ==
    Abstract!Cardinality(InUse) = Cardinality(InUse)
  BY Zenon DEF Abstract!Cardinality, Cardinality

\* Both pools implement ResourcePool; the plain benchmark has no pool.
THEOREM PoolRefinement == PoolSpec => ImplementsPool
<1>1. PoolInit => Abstract!Init
  BY DEF PoolInit, Abstract!Init, WorkerPhase
<1>2. PoolInv /\ [PoolNext]_poolVars => [Abstract!Next]_WorkerPhase
  <2>. SUFFICES ASSUME PoolInv, [PoolNext]_poolVars
                PROVE  [Abstract!Next]_WorkerPhase
    OBVIOUS
  <2>. USE DEF PoolInv
  <2>1. wpc \in [Worker -> {"start", "got", "queued", "exec", "done"}]
    BY DEF PoolTypeOK
  <2>2. ASSUME NEW w \in Worker, PlainExec(w) \/ PlainRefused(w) \/ PlainDone(w)
        PROVE  WorkerPhase' = WorkerPhase
    BY <2>1, <2>2 DEF PlainExec, PlainRefused, PlainDone, Step, Panic, WorkerPhase
  <2>3. ASSUME NEW w \in Worker, Get(w)
        PROVE  Abstract!Acquire(w)
    <3>1. mode = "channel" /\ UNCHANGED mode /\ Len(ch) > 0
      BY <2>3 DEF Get, Step, PoolTypeOK
    <3>2. Cardinality(InUse) < MaxConn
      BY <3>1, PoolFinite, PoolAssumption DEF ChannelInv, PoolTypeOK
    <3>3. WorkerPhase[w] = "waiting" /\ WorkerPhase' = [WorkerPhase EXCEPT ![w] = "holding"]
      BY <2>1, <2>3, <3>1 DEF Get, Step, WorkerPhase
    <3>. QED
      BY <3>1, <3>2, <3>3, SamePoolHolders, SamePoolCardinality DEF Abstract!Acquire
  <2>4. ASSUME NEW w \in Worker, ChannelExec(w) \/ ChannelRefused(w) \/ ExecFails(w)
        PROVE  WorkerPhase' = WorkerPhase
    BY <2>1, <2>4 DEF ChannelExec, ChannelRefused, ExecFails, Step, Panic, WorkerPhase
  <2>5. ASSUME NEW w \in Worker, Put(w)
        PROVE  Abstract!Release(w)
    BY <2>1, <2>5 DEF Put, Step, WorkerPhase, Abstract!Release
  <2>6. ASSUME NEW w \in Worker, PoolExec(w)
        PROVE  Abstract!Acquire(w) \/ WorkerPhase' = WorkerPhase
    <3>1. mode = "pool" /\ UNCHANGED mode
      BY <2>6 DEF PoolExec, Step
    <3>2. CASE Step(w, "pool", "start", "queued")
      BY <2>1, <3>1, <3>2 DEF Step, WorkerPhase
    <3>3. CASE Step(w, "pool", "start", "exec")
      <4>1. idle > 0 \/ (idle = 0 /\ open < MaxConn)
        BY <2>1, <2>6, <3>3 DEF PoolExec, Step
      <4>2. Cardinality(InUse) < MaxConn
        BY <3>1, <4>1, PoolFinite, PoolAssumption DEF SqlPoolInv, PoolTypeOK
      <4>3. WorkerPhase[w] = "waiting" /\ WorkerPhase' = [WorkerPhase EXCEPT ![w] = "holding"]
        BY <2>1, <3>1, <3>3 DEF Step, WorkerPhase
      <4>. QED
        BY <3>1, <4>2, <4>3, SamePoolHolders, SamePoolCardinality DEF Abstract!Acquire
    <3>. QED
      BY <2>6, <3>2, <3>3 DEF PoolExec
  <2>7. ASSUME NEW w \in Worker, PoolRefused(w)
        PROVE  Abstract!GiveUp(w)
    BY <2>1, <2>7 DEF PoolRefused, Step, WorkerPhase, Abstract!GiveUp
  <2>8. ASSUME NEW w \in Worker, PoolDone(w)
        PROVE  Abstract!Release(w) \/ \E q \in Worker : Abstract!HandOver(w, q)
    <3>1. mode = "pool" /\ UNCHANGED mode /\ wpc[w] = "exec"
      BY <2>8 DEF PoolDone
    <3>2. ASSUME NEW q \in At("queued"),
                 wpc' = [wpc EXCEPT ![w] = "done", ![q] = "exec"]
          PROVE  q \in Worker /\ Abstract!HandOver(w, q)
      BY <2>1, <3>1, <3>2 DEF At, WorkerPhase, Abstract!HandOver
    <3>3. CASE wpc' = [wpc EXCEPT ![w] = "done"]
      BY <2>1, <3>1, <3>3 DEF WorkerPhase, Abstract!Release
    <3>. QED
      BY <2>8, <3>2, <3>3 DEF PoolDone
  <2>9. CASE UNCHANGED poolVars
    BY <2>9 DEF poolVars, WorkerPhase
  <2>. QED
    BY <2>2, <2>3, <2>4, <2>5, <2>6, <2>7, <2>8, <2>9
       DEF PoolNext, WorkerStep, Abstract!Next
<1>. QED
  BY <1>1, <1>2, PoolInvariant, PTL DEF PoolSpec, ImplementsPool, Abstract!Spec

-----------------------------------------------------------------------------
\* PessimisticLocking.

\* Buyers that have stored the decremented counter.
Booked == {b \in Buyer : bpc[b] \in {"unlock", "done"}}

\* A buyer between Lock and Unlock is the holder of the mutex, so the value
\* it loaded is the current one when it stores.
BuyInv ==
    /\ tickets \in Int
    /\ bpc \in [Buyer -> {"lock", "load", "store", "unlock", "done"}]
    /\ seen \in [Buyer -> Int]
    /\ \A b \in Buyer : bpc[b] \in {"load", "store", "unlock"} <=> mutex = b
    /\ \A b \in Buyer : bpc[b] = "store" => seen[b] = tickets
    /\ NoLostTicket

\* It holds when main starts.
LEMMA LockingInitInv == LockingInit => BuyInv
<1>. SUFFICES ASSUME LockingInit PROVE BuyInv
  OBVIOUS
<1>1. {b \in Buyer : bpc[b] \in {"unlock", "done"}} = {}
  BY DEF LockingInit, BuyInit
<1>2. NoLostTicket
  BY <1>1, FS_EmptySet, LockingAssumption DEF LockingInit, BuyInit, NoLostTicket
<1>. QED
  BY <1>2, LockingAssumption DEF LockingInit, BuyInit, BuyInv

\* A buyer's step keeps BuyInv; only the store moves both sides of
\* NoLostTicket.
LEMMA BuyerStep ==
    ASSUME BuyInv, NEW b \in Buyer, BuyStep(b)
    PROVE  BuyInv'
<1>. USE DEF BuyInv, BGoto
<1>1. IsFiniteSet(Booked) /\ Cardinality(Booked) \in Nat
  BY LockingAssumption, FS_Subset, FS_CardinalityType DEF Booked
<1>2. NoLostTicket = (tickets = Tickets - Cardinality(Booked))
  BY DEF NoLostTicket, Booked
<1>2p. NoLostTicket' = (tickets' = Tickets - Cardinality(Booked'))
  BY DEF NoLostTicket, Booked
<1>3. CASE BLock(b)
  <2>1. Booked' = Booked
    BY <1>3 DEF BLock, Booked
  <2>. QED
    BY <1>2, <1>2p, <1>3, <2>1, LockingAssumption DEF BLock
<1>4. CASE BLoad(b)
  <2>1. Booked' = Booked
    BY <1>4 DEF BLoad, Booked
  <2>. QED
    BY <1>2, <1>2p, <1>4, <2>1, LockingAssumption DEF BLoad
<1>5. CASE BStore(b)
  <2>1. Booked' = Booked \cup {b} /\ b \notin Booked
    BY <1>5 DEF BStore, Booked
  <2>2. Cardinality(Booked') = Cardinality(Booked) + 1
    BY <1>1, <2>1, FS_AddElement
  <2>3. tickets' = tickets - 1
    BY <1>5 DEF BStore
  <2>4. NoLostTicket'
    BY <1>1, <1>2, <1>2p, <2>2, <2>3, LockingAssumption
  <2>. QED
    BY <1>5, <2>3, <2>4, LockingAssumption DEF BStore
<1>6. CASE BUnlock(b)
  <2>1. Booked' = Booked
    BY <1>6 DEF BUnlock, Booked
  <2>. QED
    BY <1>2, <1>2p, <1>6, <2>1, LockingAssumption DEF BUnlock
<1>. QED
  BY <1>3, <1>4, <1>5, <1>6 DEF BuyStep

\* The invariant of the ticket counter; the calls of obdIssue.go leave it
\* alone.
THEOREM LockingInvariant == LockingSpec => []BuyInv
<1>1. BuyInv /\ [LockingNext]_lockingVars => BuyInv'
  <2>. SUFFICES ASSUME BuyInv, [LockingNext]_lockingVars
                PROVE  BuyInv'
    OBVIOUS
  <2>1. UNCHANGED buyVars => BuyInv'
    BY DEF buyVars, BuyInv, NoLostTicket
  <2>. QED
    BY <2>1, BuyerStep DEF LockingNext, lockingVars
<1>. QED
  BY <1>1, LockingInitInv, PTL DEF LockingSpec

\* NoLostTicket for any number of buyers (main.go:13-17): the lock makes a
\* load and a store one step.
THEOREM TicketsAreCounted == LockingSpec => []NoLostTicket
<1>1. BuyInv => NoLostTicket
  BY DEF BuyInv
<1>. QED
  BY <1>1, LockingInvariant, PTL

-----------------------------------------------------------------------------
\* BloomFilter.

\* Cells set so far.
Covered == UNION {Cells(y) : y \in added}

\* A cell is set when, and only when, it is a cell of an item added: more
\* than ContainsExactly, which says nothing of single cells.
BloomInv ==
    /\ BloomTypeOK
    /\ \A k \in Cell : bitArray[k] <=> k \in Covered

\* hash(item, i) % bf.size is an index of the array.
LEMMA IndexInArray ==
    ASSUME NEW x \in Item
    PROVE  Cells(x) \subseteq Cell
<1>1. ASSUME NEW i \in 0 .. NHash - 1
      PROVE  Index(x, i) \in Cell
  <2>1. ByteSum[x] + i \in Nat
    BY BloomAssumption
  <2>. QED
    BY <2>1, BloomAssumption DEF Index, Cell
<1>. QED
  BY <1>1 DEF Cells

\* add and contains keep the array equal to what was added.
THEOREM BloomInvariant == BloomSpec => []BloomInv
<1>1. BloomInit => BloomInv
  BY DEF BloomInit, BloomInv, BloomTypeOK, Covered
<1>2. BloomInv /\ [BloomNext]_bloomVars => BloomInv'
  <2>. SUFFICES ASSUME BloomInv, [BloomNext]_bloomVars
                PROVE  BloomInv'
    OBVIOUS
  <2>1. ASSUME NEW x \in Item, Add(x)
        PROVE  BloomInv'
    <3>1. added' = added \cup {x}
      BY <2>1 DEF Add
    <3>2. \A k : k \in Covered' <=> k \in Covered \/ k \in Cells(x)
      BY <3>1 DEF Covered
    <3>3. bitArray' = [k \in Cell |-> bitArray[k] \/ k \in Cells(x)]
      BY <2>1 DEF Add
    <3>4. BloomTypeOK'
      BY <3>1, <3>3 DEF BloomInv, BloomTypeOK
    <3>5. \A k \in Cell : bitArray'[k] <=> bitArray[k] \/ k \in Cells(x)
      BY <3>3
    <3>6. \A k \in Cell : bitArray'[k] <=> k \in Covered'
      BY <3>2, <3>5 DEF BloomInv
    <3>. QED
      BY <3>4, <3>6 DEF BloomInv
  <2>2. CASE UNCHANGED bloomVars
    BY <2>2 DEF bloomVars, BloomInv, BloomTypeOK, Covered
  <2>. QED
    BY <2>1, <2>2 DEF BloomNext
<1>. QED
  BY <1>1, <1>2, PTL DEF BloomSpec

\* "False Negative - case not possible in BF" (bloomFilter/main.go:58), for
\* any size, number of hashes and items.
THEOREM NoFalseNegatives == BloomSpec => []ContainsExactly
<1>1. BloomInv => ContainsExactly
  <2>. SUFFICES ASSUME BloomInv, NEW x \in Item
                PROVE  /\ x \in added => Contains(x)
                       /\ Contains(x) => Cells(x) \subseteq Covered
    BY DEF ContainsExactly, Covered
  <2>1. \A k \in Cells(x) : bitArray[k] <=> k \in Covered
    BY IndexInArray DEF BloomInv
  <2>2. x \in added => Cells(x) \subseteq Covered
    BY DEF Covered
  <2>. QED
    BY <2>1, <2>2 DEF Contains
<1>. QED
  BY <1>1, BloomInvariant, PTL
=============================================================================
