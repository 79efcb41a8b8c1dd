---------------------------- MODULE ReviewProofs ----------------------------
(***************************************************************************)
(* What holds of an automatic review, for every number of turns, messages, *)
(* nodes and requests: the supervisor of the agent's process gives each    *)
(* turn its own session and tells the truth about a cleanup; a session is  *)
(* what its check says; a review that failed allows nothing; and a shared  *)
(* verdict is that of a request it repeats.  Each component has an         *)
(* inductive invariant beside its properties in its module; here is its    *)
(* proof, and the composition at the end.                                  *)
(***************************************************************************)
EXTENDS Review, AuthorityProofs, FiniteSetTheorems, SequenceTheorems, TLAPS

-----------------------------------------------------------------------------
(* The agent's process: commands and queues                                *)

\* A command that is sent is the last one of the channel.
LEMMA Posted ==
  ASSUME NEW c \in Seq(Supervisor!Commands), NEW m \in Supervisor!Commands
  PROVE  /\ Append(c, m) \in Seq(Supervisor!Commands)
         /\ Supervisor!Range(Append(c, m)) = Supervisor!Range(c) \cup {m}
         /\ Supervisor!Once(c) /\ (\A d \in Supervisor!Range(c) : ~Supervisor!Repeats(m, d))
              => Supervisor!Once(Append(c, m))
<1> DEFINE e == Append(c, m)
           k == Len(c) + 1
<1>1. /\ e \in Seq(Supervisor!Commands) /\ k \in DOMAIN e /\ e[k] = m /\ k \notin DOMAIN c
      /\ \A i \in DOMAIN c : i \in DOMAIN e /\ e[i] = c[i]
      /\ \A i \in DOMAIN e : i = k \/ i \in DOMAIN c
  OBVIOUS
<1> HIDE DEF e, k
<1>2. Supervisor!Range(e) = Supervisor!Range(c) \cup {m}
  BY <1>1 DEF Supervisor!Range
<1>3. ASSUME Supervisor!Once(c), \A d \in Supervisor!Range(c) : ~Supervisor!Repeats(m, d)
      PROVE  Supervisor!Once(e)
  <2> SUFFICES ASSUME NEW i \in DOMAIN e, NEW j \in DOMAIN e, Supervisor!Repeats(e[i], e[j])
               PROVE  i = j
    BY DEF Supervisor!Once
  <2>1. \A x \in DOMAIN c : ~Supervisor!Repeats(m, c[x]) /\ ~Supervisor!Repeats(c[x], m)
    BY <1>3 DEF Supervisor!Range, Supervisor!Repeats
  <2> QED BY <1>1, <1>3, <2>1 DEF Supervisor!Once
<1> QED BY <1>1, <1>2, <1>3 DEF e

\* What that means for the turns and the sessions on their way.
LEMMA PostedParts ==
  ASSUME NEW c \in Seq(Supervisor!Commands), NEW m \in Supervisor!Commands
  PROVE  /\ Supervisor!QueuedIn(Append(c, m)) =
              Supervisor!QueuedIn(c) \cup {x \in {m.turn} : m.type = "turn"}
         /\ Supervisor!Ready(Append(c, m)) =
              Supervisor!Ready(c) \cup {x \in {m.session} : m.type = "prewarmed" /\ x # 0}
         /\ Supervisor!Stops(c) \/ m.type \in {"io_closed", "shutdown"}
              => Supervisor!Stops(Append(c, m))
<1>1. Supervisor!Range(Append(c, m)) = Supervisor!Range(c) \cup {m}
  BY Posted
<1> DEFINE e == Append(c, m)
<1> HIDE DEF e
<1>2. Supervisor!QueuedIn(e) = Supervisor!QueuedIn(c) \cup {x \in {m.turn} : m.type = "turn"}
  BY <1>1 DEF Supervisor!QueuedIn, Supervisor!IsTurn, e
<1>3. Supervisor!Ready(e) =
        Supervisor!Ready(c) \cup {x \in {m.session} : m.type = "prewarmed" /\ x # 0}
  BY <1>1 DEF Supervisor!Ready, e
<1>4. Supervisor!Stops(c) \/ m.type \in {"io_closed", "shutdown"} => Supervisor!Stops(e)
  BY <1>1 DEF Supervisor!Stops, e
<1> QED BY <1>2, <1>3, <1>4 DEF e

\* A command that neither sends a turn nor a session changes neither.
LEMMA PostedSignal ==
  ASSUME NEW c \in Seq(Supervisor!Commands), NEW m \in Supervisor!Commands,
         m.type \in {"cancel", "io_closed", "shutdown"}, Supervisor!Once(c)
  PROVE  /\ Append(c, m) \in Seq(Supervisor!Commands) /\ Supervisor!Once(Append(c, m))
         /\ Supervisor!QueuedIn(Append(c, m)) = Supervisor!QueuedIn(c)
         /\ Supervisor!Ready(Append(c, m)) = Supervisor!Ready(c)
         /\ Supervisor!Stops(c) => Supervisor!Stops(Append(c, m))
         /\ m.type # "cancel" => Supervisor!Stops(Append(c, m))
         /\ (\A d \in Supervisor!Range(c) : d.type # "prewarmed")
              => \A d \in Supervisor!Range(Append(c, m)) : d.type # "prewarmed"
<1>1. \A d : ~Supervisor!Repeats(m, d)
  BY DEF Supervisor!Repeats, Supervisor!IsTurn
<1>2. Append(c, m) \in Seq(Supervisor!Commands) /\ Supervisor!Once(Append(c, m))
  BY <1>1, Posted
<1> DEFINE T == {x \in {m.turn} : m.type = "turn"}
           S == {x \in {m.session} : m.type = "prewarmed" /\ x # 0}
<1>6. T = {} /\ S = {}
  OBVIOUS
<1>7. /\ Supervisor!QueuedIn(Append(c, m)) = Supervisor!QueuedIn(c) \cup T
      /\ Supervisor!Ready(Append(c, m)) = Supervisor!Ready(c) \cup S
  BY PostedParts
<1> HIDE DEF T, S
<1>3. /\ Supervisor!QueuedIn(Append(c, m)) = Supervisor!QueuedIn(c)
      /\ Supervisor!Ready(Append(c, m)) = Supervisor!Ready(c)
  BY <1>6, <1>7
<1>4. /\ Supervisor!Stops(c) => Supervisor!Stops(Append(c, m))
      /\ m.type # "cancel" => Supervisor!Stops(Append(c, m))
  BY PostedParts
<1>5. Supervisor!Range(Append(c, m)) = Supervisor!Range(c) \cup {m}
  BY Posted
<1> QED BY <1>2, <1>3, <1>4, <1>5

\* The first command is taken, and what it sends is sent no more.
LEMMA Taken ==
  ASSUME NEW c \in Seq(Supervisor!Commands), c # <<>>, Supervisor!Once(c)
  PROVE  /\ Head(c) \in Supervisor!Commands /\ Tail(c) \in Seq(Supervisor!Commands)
         /\ Supervisor!Range(c) = Supervisor!Range(Tail(c)) \cup {Head(c)}
         /\ Supervisor!Once(Tail(c))
         /\ \A d \in Supervisor!Range(Tail(c)) : ~Supervisor!Repeats(Head(c), d)
<1> DEFINE e == Tail(c)
<1>1. /\ e \in Seq(Supervisor!Commands) /\ 1 \in DOMAIN c /\ c[1] = Head(c)
      /\ Head(c) \in Supervisor!Commands
      /\ \A i \in DOMAIN e : i \in Nat /\ i + 1 \in DOMAIN c /\ e[i] = c[i + 1] /\ i + 1 # 1
      /\ \A i \in DOMAIN c : i = 1 \/ (i - 1 \in DOMAIN e /\ e[i - 1] = c[i])
  OBVIOUS
<1> HIDE DEF e
<1>2. Supervisor!Range(c) = Supervisor!Range(e) \cup {Head(c)}
  BY <1>1 DEF Supervisor!Range
<1>3. Supervisor!Once(e)
  <2> SUFFICES ASSUME NEW i \in DOMAIN e, NEW j \in DOMAIN e, Supervisor!Repeats(e[i], e[j])
               PROVE  i = j
    BY DEF Supervisor!Once
  <2>1. i + 1 = j + 1
    BY <1>1 DEF Supervisor!Once
  <2> QED BY <1>1, <2>1
<1>4. \A d \in Supervisor!Range(e) : ~Supervisor!Repeats(Head(c), d)
  <2> SUFFICES ASSUME NEW i \in DOMAIN e, Supervisor!Repeats(Head(c), e[i]) PROVE FALSE
    BY DEF Supervisor!Range
  <2> QED BY <1>1 DEF Supervisor!Once
<1> QED BY <1>1, <1>2, <1>3, <1>4 DEF e

\* What that means for the turns and the sessions on their way.
LEMMA TakenParts ==
  ASSUME NEW c \in Seq(Supervisor!Commands), c # <<>>, Supervisor!Once(c)
  PROVE  /\ Supervisor!QueuedIn(Tail(c)) \subseteq Supervisor!QueuedIn(c)
         /\ Supervisor!Ready(Tail(c)) \subseteq Supervisor!Ready(c)
         /\ Supervisor!Range(Tail(c)) \subseteq Supervisor!Range(c)
         /\ Head(c).type = "turn" =>
              Head(c).turn \in Supervisor!QueuedIn(c) \ Supervisor!QueuedIn(Tail(c))
         /\ Head(c).type = "prewarmed" /\ Head(c).session # 0 =>
              Head(c).session \in Supervisor!Ready(c) \ Supervisor!Ready(Tail(c))
         /\ Head(c) \in Supervisor!Range(c)
         /\ Supervisor!Stops(c) /\ Head(c).type \notin {"io_closed", "shutdown"} =>
              Supervisor!Stops(Tail(c)) /\ Tail(c) # <<>>
<1> DEFINE e == Tail(c)
           h == Head(c)
<1>1. /\ Supervisor!Range(c) = Supervisor!Range(e) \cup {h}
      /\ \A d \in Supervisor!Range(e) : ~Supervisor!Repeats(h, d)
  BY Taken
<1>0. e = <<>> => Supervisor!Range(e) = {}
  BY DEF Supervisor!Range
<1> HIDE DEF e, h
<1>2. /\ Supervisor!QueuedIn(e) \subseteq Supervisor!QueuedIn(c)
      /\ h.type = "turn" => h.turn \in Supervisor!QueuedIn(c) \ Supervisor!QueuedIn(e)
  BY <1>1 DEF Supervisor!QueuedIn, Supervisor!IsTurn, Supervisor!Repeats
<1>3. /\ Supervisor!Ready(e) \subseteq Supervisor!Ready(c)
      /\ h.type = "prewarmed" /\ h.session # 0 =>
           h.session \in Supervisor!Ready(c) \ Supervisor!Ready(e)
  BY <1>1 DEF Supervisor!Ready, Supervisor!Repeats
<1>4. Supervisor!Stops(c) /\ h.type \notin {"io_closed", "shutdown"} =>
        Supervisor!Stops(e) /\ e # <<>>
  BY <1>0, <1>1 DEF Supervisor!Stops
<1> QED BY <1>1, <1>2, <1>3, <1>4 DEF e, h

\* An empty channel sends nothing.
LEMMA NothingSent ==
  /\ <<>> \in Seq(Supervisor!Commands) /\ Supervisor!Once(<<>>)
  /\ Supervisor!Range(<<>>) = {} /\ Supervisor!QueuedIn(<<>>) = {}
  /\ Supervisor!Ready(<<>>) = {} /\ <<>> \in Seq(Turn) /\ Supervisor!IsInjective(<<>>)
<1>1. DOMAIN <<>> = {}
  OBVIOUS
<1>2. Supervisor!Range(<<>>) = {}
  BY <1>1 DEF Supervisor!Range
<1> QED BY <1>1, <1>2 DEF Supervisor!Once, Supervisor!QueuedIn, Supervisor!Ready,
   Supervisor!IsInjective

\* A turn joins a queue that does not have it.
LEMMA Joins ==
  ASSUME NEW s \in Seq(Turn), Supervisor!IsInjective(s), NEW r \in Turn,
         r \notin Supervisor!Range(s)
  PROVE  /\ Append(s, r) \in Seq(Turn) /\ Supervisor!IsInjective(Append(s, r))
         /\ Supervisor!Range(Append(s, r)) = Supervisor!Range(s) \cup {r}
<1> DEFINE e == Append(s, r)
           k == Len(s) + 1
<1>1. /\ e \in Seq(Turn) /\ k \in DOMAIN e /\ e[k] = r /\ k \notin DOMAIN s
      /\ \A i \in DOMAIN s : i \in DOMAIN e /\ e[i] = s[i]
      /\ \A i \in DOMAIN e : i = k \/ i \in DOMAIN s
  OBVIOUS
<1> HIDE DEF e, k
<1>2. Supervisor!Range(e) = Supervisor!Range(s) \cup {r} /\ Supervisor!IsInjective(e)
  BY <1>1 DEF Supervisor!Range, Supervisor!IsInjective
<1> QED BY <1>1, <1>2 DEF e

\* The first leaves the queue.
LEMMA Leaves ==
  ASSUME NEW s \in Seq(Turn), Supervisor!IsInjective(s), s # <<>>
  PROVE  /\ Tail(s) \in Seq(Turn) /\ Supervisor!IsInjective(Tail(s))
         /\ Head(s) \in Supervisor!Range(s) /\ Head(s) \in Turn
         /\ Supervisor!Range(Tail(s)) = Supervisor!Range(s) \ {Head(s)}
<1> DEFINE e == Tail(s)
<1>1. /\ e \in Seq(Turn) /\ 1 \in DOMAIN s /\ s[1] = Head(s) /\ Head(s) \in Turn
      /\ \A i \in DOMAIN e : i \in Nat /\ i + 1 \in DOMAIN s /\ e[i] = s[i + 1] /\ i + 1 # 1
      /\ \A i \in DOMAIN s : i = 1 \/ (i - 1 \in DOMAIN e /\ e[i - 1] = s[i])
  OBVIOUS
<1> HIDE DEF e
<1>2. Supervisor!IsInjective(e)
  <2> SUFFICES ASSUME NEW i \in DOMAIN e, NEW j \in DOMAIN e, e[i] = e[j] PROVE i = j
    BY DEF Supervisor!IsInjective
  <2>1. i + 1 = j + 1
    BY <1>1 DEF Supervisor!IsInjective
  <2> QED BY <1>1, <2>1
<1>3. Supervisor!Range(e) = Supervisor!Range(s) \ {Head(s)}
  <2>1. ASSUME NEW x \in Supervisor!Range(e) PROVE x \in Supervisor!Range(s) \ {Head(s)}
    <3>1. PICK i \in DOMAIN e : x = e[i]
      BY DEF Supervisor!Range
    <3>2. i + 1 \in DOMAIN s /\ x = s[i + 1] /\ i + 1 # 1
      BY <1>1, <3>1
    <3> QED BY <1>1, <3>2 DEF Supervisor!Range, Supervisor!IsInjective
  <2>2. ASSUME NEW x \in Supervisor!Range(s) \ {Head(s)} PROVE x \in Supervisor!Range(e)
    <3>1. PICK i \in DOMAIN s : x = s[i]
      BY DEF Supervisor!Range
    <3>2. i - 1 \in DOMAIN e /\ e[i - 1] = x
      BY <1>1, <2>2, <3>1
    <3> QED BY <3>2 DEF Supervisor!Range
  <2> QED BY <2>1, <2>2
<1> QED BY <1>1, <1>2, <1>3 DEF e, Supervisor!Range

\* One is removed from where it is, or nothing happens (VecDeque::remove).
LEMMA IsRemoved ==
  ASSUME NEW s \in Seq(Turn), Supervisor!IsInjective(s), NEW r
  PROVE  /\ Supervisor!Removed(s, r) \in Seq(Turn)
         /\ Supervisor!IsInjective(Supervisor!Removed(s, r))
         /\ Supervisor!Range(Supervisor!Removed(s, r)) = Supervisor!Range(s) \ {r}
<1>1. CASE r \notin Supervisor!Range(s)
  BY <1>1 DEF Supervisor!Removed
<1>2. CASE r \in Supervisor!Range(s)
  <2> DEFINE k == CHOOSE i \in DOMAIN s : s[i] = r
             a == SubSeq(s, 1, k - 1)
             b == SubSeq(s, k + 1, Len(s))
             e == a \o b
  <2>1. k \in DOMAIN s /\ s[k] = r
    BY <1>2 DEF Supervisor!Range
  <2>2. Supervisor!Removed(s, r) = e
    BY <1>2 DEF Supervisor!Removed, Supervisor!RemoveAt
  <2> HIDE DEF k
  <2>3. k \in 1..Len(s) /\ Len(s) \in Nat
    BY <2>1
  <2>4. a \in Seq(Turn) /\ Len(a) = k - 1 /\ \A i \in 1..(k - 1) : a[i] = s[i]
    BY <2>3
  <2>5. b \in Seq(Turn) /\ Len(b) = Len(s) - k /\ \A i \in 1..(Len(s) - k) : b[i] = s[k + i]
    BY <2>3
  <2> HIDE DEF a, b
  <2>12. /\ e \in Seq(Turn) /\ Len(e) = Len(a) + Len(b) /\ DOMAIN e = 1..(Len(a) + Len(b))
         /\ \A i \in 1..(Len(a) + Len(b)) :
              e[i] = IF i <= Len(a) THEN a[i] ELSE b[i - Len(a)]
    <3>1. a \in Seq(Turn) /\ b \in Seq(Turn)
      BY <2>4, <2>5
    <3>2. /\ e \in Seq(Turn) /\ Len(e) = Len(a) + Len(b)
          /\ \A i \in 1..(Len(a) + Len(b)) :
               e[i] = IF i <= Len(a) THEN a[i] ELSE b[i - Len(a)]
      BY ONLY <3>1, ConcatProperties DEF e
    <3> HIDE DEF e
    <3>3. DOMAIN e = 1..(Len(a) + Len(b))
      BY <3>2
    <3> QED BY <3>2, <3>3
  <2> HIDE DEF e
  <2>7. DOMAIN e = 1..(Len(s) - 1) /\ DOMAIN s = 1..Len(s)
    BY <2>3, <2>4, <2>5, <2>12
  <2>6. \A i \in 1..(Len(s) - 1) : e[i] = IF i < k THEN s[i] ELSE s[i + 1]
    <3> SUFFICES ASSUME NEW i \in 1..(Len(s) - 1)
                 PROVE  e[i] = IF i < k THEN s[i] ELSE s[i + 1]
      OBVIOUS
    <3>1. CASE i < k
      BY <2>3, <2>4, <2>5, <2>12, <3>1
    <3>2. CASE i >= k
      <4>1. e[i] = b[i - (k - 1)] /\ i - (k - 1) \in 1..(Len(s) - k)
        BY <2>3, <2>4, <2>5, <2>12, <3>2
      <4>2. k + (i - (k - 1)) = i + 1
        BY <2>3
      <4> QED BY <2>3, <2>5, <3>2, <4>1, <4>2
    <3> QED BY <2>3, <3>1, <3>2
  <2>8. \A i \in DOMAIN s : i = k \/ (i < k /\ i \in DOMAIN e /\ e[i] = s[i])
                                 \/ (i > k /\ i - 1 \in DOMAIN e /\ e[i - 1] = s[i])
    BY <2>3, <2>6, <2>7
  <2>9. \A i \in DOMAIN e : \E j \in DOMAIN s : j = (IF i < k THEN i ELSE i + 1) /\ e[i] = s[j]
    BY <2>3, <2>6, <2>7
  <2>10. Supervisor!Range(e) = Supervisor!Range(s) \ {r}
    <3>1. ASSUME NEW x \in Supervisor!Range(e) PROVE x \in Supervisor!Range(s) \ {r}
      <4>1. PICK i \in DOMAIN e : x = e[i]
        BY DEF Supervisor!Range
      <4>2. PICK j \in DOMAIN s : j = (IF i < k THEN i ELSE i + 1) /\ e[i] = s[j]
        BY <2>9
      <4>3. j # k
        BY <2>3, <2>7, <4>2
      <4> QED BY <2>1, <4>1, <4>2, <4>3 DEF Supervisor!Range, Supervisor!IsInjective
    <3>2. ASSUME NEW x \in Supervisor!Range(s) \ {r} PROVE x \in Supervisor!Range(e)
      BY <2>1, <2>8 DEF Supervisor!Range
    <3> QED BY <3>1, <3>2
  <2>11. Supervisor!IsInjective(e)
    <3> SUFFICES ASSUME NEW i \in DOMAIN e, NEW j \in DOMAIN e, e[i] = e[j] PROVE i = j
      BY DEF Supervisor!IsInjective
    <3>1. (IF i < k THEN i ELSE i + 1) = (IF j < k THEN j ELSE j + 1)
      BY <2>9 DEF Supervisor!IsInjective
    <3> QED BY <2>3, <2>7, <3>1
  <2> QED BY <2>2, <2>10, <2>11, <2>12
<1> QED BY <1>1, <1>2

\* A step that at most sends a command about no new turn and no session, and whose task
\* does nothing, leaves the invariant to what the callers know.
LEMMA PostKeeps ==
  ASSUME Supervisor!IInv, Supervisor!TypeOK', Supervisor!ProofHolds',
         UNCHANGED <<single, process, holding, serial, pending, idle, turn, agent>>,
         channel' = channel \/ \E m \in Supervisor!Commands :
           m.type \in {"cancel", "io_closed", "shutdown"} /\ channel' = Append(channel, m)
  PROVE  Supervisor!IInv'
<1>1. /\ Supervisor!TypeOK /\ Supervisor!WaitsOnce /\ Supervisor!OneOwner /\ Supervisor!Made
      /\ Supervisor!Opens /\ Supervisor!OneAtATime /\ Supervisor!Between
  BY DEF Supervisor!IInv
<1>2. channel \in Seq(Supervisor!Commands) /\ Supervisor!Once(channel)
  BY <1>1 DEF Supervisor!TypeOK, Supervisor!WaitsOnce
<1>3. /\ Supervisor!Once(channel') /\ Supervisor!QueuedIn(channel') = Supervisor!QueuedIn(channel)
      /\ Supervisor!Ready(channel') = Supervisor!Ready(channel)
      /\ Supervisor!Stops(channel) => Supervisor!Stops(channel')
      /\ (\A d \in Supervisor!Range(channel) : d.type # "prewarmed")
           => \A d \in Supervisor!Range(channel') : d.type # "prewarmed"
  <2>1. CASE channel' = channel
    BY <1>2, <2>1
  <2>2. CASE channel' # channel
    <3>1. PICK m \in Supervisor!Commands :
            m.type \in {"cancel", "io_closed", "shutdown"} /\ channel' = Append(channel, m)
      BY <2>2
    <3> QED BY <1>2, <3>1, PostedSignal
  <2> QED BY <2>1, <2>2
<1>4. Supervisor!WaitsOnce'
  BY <1>1, <1>3 DEF Supervisor!WaitsOnce, Supervisor!Queues
<1>5. Supervisor!OneOwner' /\ Supervisor!Made' /\ Supervisor!Opens'
  BY <1>1, <1>3 DEF Supervisor!OneOwner, Supervisor!Made, Supervisor!Opens, Supervisor!Held
<1>6. Supervisor!OneAtATime'
  BY <1>1, <1>3 DEF Supervisor!OneAtATime, Supervisor!Alive
<1>7. Supervisor!Between'
  BY <1>1, <1>3 DEF Supervisor!Between, Supervisor!Alive, Supervisor!Queues
<1> QED BY <1>4, <1>5, <1>6, <1>7 DEF Supervisor!IInv

\* What a caller does, hears or misses leaves the agent as it was.
LEMMA CallerKeeps ==
  ASSUME Supervisor!IInv, NEW r \in Turn,
         UNCHANGED <<single, process, holding, serial, pending, idle, prewarming, turn, reply,
                     agent>>,
         channel' = channel \/ channel' = Append(channel, Supervisor!Command("cancel", r, 0)),
         NEW p \in {"holding", "cleanup", "done"}, NEW b \in BOOLEAN,
         caller[r].pc # "idle", b => caller[r].proven \/ reply[r].cleanup = "proven",
         caller' = [caller EXCEPT ![r].pc = p, ![r].proven = b]
  PROVE  Supervisor!IInv'
<1>1. Supervisor!TypeOK /\ Supervisor!ProofHolds
  BY DEF Supervisor!IInv
<1>2. /\ Supervisor!Command("cancel", r, 0) \in Supervisor!Commands
      /\ Supervisor!Command("cancel", r, 0).type = "cancel"
  BY DEF Supervisor!Command, Supervisor!Commands
<1> DEFINE m == Supervisor!Command("cancel", r, 0)
<1>7. channel \in Seq(Supervisor!Commands) /\ m \in Supervisor!Commands
  BY <1>1, <1>2 DEF Supervisor!TypeOK
<1>8. channel' = channel \/ channel' = Append(channel, m)
  OBVIOUS
<1> HIDE DEF m
<1>3. channel' \in Seq(Supervisor!Commands)
  BY <1>7, <1>8
<1>4. /\ \A q \in Turn \ {r} : caller'[q] = caller[q]
      /\ caller'[r].pc = p /\ caller'[r].proven = b
      /\ caller' \in [Turn -> [pc : {"idle", "waiting", "holding", "cleanup", "done"},
                               bound : BOOLEAN, proven : BOOLEAN]]
  BY <1>1 DEF Supervisor!TypeOK
<1>5. Supervisor!TypeOK'
  BY <1>1, <1>3, <1>4 DEF Supervisor!TypeOK, Supervisor!AgentState
<1>6. Supervisor!ProofHolds'
  BY <1>1, <1>4 DEF Supervisor!ProofHolds
<1> QED BY <1>2, <1>5, <1>6, <1>8, PostKeeps DEF m

\* The steps of the callers.
LEMMA CallersKeep ==
  ASSUME Supervisor!IInv, NEW r \in Turn,
         \/ Supervisor!ReceiveAnswer(r) \/ Supervisor!ReceiveDecision(r)
         \/ Supervisor!DecisionFails(r) \/ Supervisor!DecisionRefused(r)
         \/ Supervisor!CallerTimesOut(r) \/ Supervisor!EnrichmentEnds(r)
         \/ Supervisor!CleanupAnswered(r) \/ Supervisor!CallerDropped(r)
  PROVE  Supervisor!IInv'
<1>1. Supervisor!TypeOK
  BY DEF Supervisor!IInv
<1> DEFINE Sends == channel' = channel
                    \/ channel' = Append(channel, Supervisor!Command("cancel", r, 0))
           Same == UNCHANGED <<single, process, holding, serial, pending, idle, prewarming,
                               turn, reply, agent>>
<1>2. Supervisor!SendCancel(r) => Sends
  BY DEF Supervisor!SendCancel
<1>3. ASSUME NEW p \in {"holding", "cleanup", "done"}, caller[r].pc # "idle", Sends, Same,
             caller' = [caller EXCEPT ![r].pc = p]
      PROVE  Supervisor!IInv'
  <2>1. /\ caller[r].proven \in BOOLEAN
        /\ caller' = [caller EXCEPT ![r].pc = p, ![r].proven = caller[r].proven]
    BY <1>1, <1>3 DEF Supervisor!TypeOK
  <2> QED BY <1>3, <2>1, CallerKeeps
<1> DEFINE Goes(from, to) == Supervisor!CallerMoves(r, from, to) /\ from # "idle"
<1>4. ASSUME NEW from, NEW p \in {"holding", "cleanup", "done"}, Goes(from, p), Sends
      PROVE  Supervisor!IInv'
  BY <1>3, <1>4 DEF Supervisor!CallerMoves, Supervisor!config, Supervisor!bounds
<1>5. CASE Supervisor!ReceiveAnswer(r) \/ Supervisor!CallerTimesOut(r)
  <2>1. Goes("waiting", "done") /\ Sends
    BY <1>2, <1>5 DEF Supervisor!ReceiveAnswer, Supervisor!CallerTimesOut
  <2> HIDE DEF Sends, Goes
  <2> QED BY <1>4, <2>1
<1>6. CASE Supervisor!ReceiveDecision(r)
  <2>1. Goes("waiting", "holding") /\ Sends
    BY <1>6 DEF Supervisor!ReceiveDecision
  <2> HIDE DEF Sends, Goes
  <2> QED BY <1>4, <2>1
<1>7. CASE Supervisor!DecisionFails(r) \/ Supervisor!DecisionRefused(r)
  <2> DEFINE to == IF caller[r].bound THEN "cleanup" ELSE "done"
  <2>1. Sends /\ (Goes("waiting", to) \/ Goes("holding", to))
    BY <1>2, <1>7 DEF Supervisor!DecisionFails, Supervisor!DecisionRefused,
       Supervisor!CancelAndWait
  <2>2. to \in {"holding", "cleanup", "done"}
    OBVIOUS
  <2> HIDE DEF Sends, Goes, to
  <2> QED BY <1>4, <2>1, <2>2
<1>8. CASE Supervisor!EnrichmentEnds(r)
  <2>1. Goes("holding", "done") /\ Sends
    BY <1>2, <1>8 DEF Supervisor!EnrichmentEnds
  <2> HIDE DEF Sends, Goes
  <2> QED BY <1>4, <2>1
<1>9. CASE Supervisor!CleanupAnswered(r)
  <2> DEFINE b == reply[r].cleanup = "proven"
  <2>1. /\ caller[r].pc # "idle" /\ Same /\ Sends
        /\ caller' = [caller EXCEPT ![r].pc = "done", ![r].proven = b]
    BY <1>9 DEF Supervisor!CleanupAnswered, Supervisor!config, Supervisor!loopVars
  <2>2. b \in BOOLEAN /\ (b => caller[r].proven \/ reply[r].cleanup = "proven")
    OBVIOUS
  <2> HIDE DEF b
  <2> QED BY <2>1, <2>2, CallerKeeps
<1>10. CASE Supervisor!CallerDropped(r)
  <2>1. /\ caller[r].pc # "idle" /\ Same /\ Sends
        /\ caller' = [caller EXCEPT ![r].pc = "done"]
    BY <1>2, <1>10 DEF Supervisor!CallerDropped, Supervisor!config
  <2> QED BY <1>3, <2>1
<1> QED BY <1>5, <1>6, <1>7, <1>8, <1>9, <1>10

\* The program ends, or the agent dies: the loop is told.
LEMMA StopKeeps ==
  ASSUME Supervisor!IInv, NEW type \in {"io_closed", "shutdown"}, Supervisor!Stop(type)
  PROVE  Supervisor!IInv'
<1>1. Supervisor!TypeOK /\ Supervisor!ProofHolds
  BY DEF Supervisor!IInv
<1> DEFINE m == Supervisor!Signal(type)
<1>2. /\ m \in Supervisor!Commands /\ m.type = type /\ channel' = Append(channel, m)
      /\ UNCHANGED <<single, process, holding, serial, pending, idle, prewarming, turn, reply,
                     caller, agent>>
  BY DEF Supervisor!Command, Supervisor!Commands, Supervisor!Stop, Supervisor!config,
     Supervisor!Signal
<1> HIDE DEF m
<1>3. channel' \in Seq(Supervisor!Commands)
  BY <1>1, <1>2 DEF Supervisor!TypeOK
<1>4. Supervisor!TypeOK' /\ Supervisor!ProofHolds'
  BY <1>1, <1>2, <1>3 DEF Supervisor!TypeOK, Supervisor!AgentState, Supervisor!ProofHolds
<1> QED BY <1>2, <1>4, PostKeeps

\* A turn that goes on keeps its session.
LEMMA Reached ==
  ASSUME NEW t \in Supervisor!TurnState,
         NEW p \in {"none", "queued", "acquire", "acquiring", "acquired", "closing", "ended"}
                   \cup Supervisor!Prompting
  PROVE  /\ [t EXCEPT !.pc = p] \in Supervisor!TurnState
         /\ [t EXCEPT !.pc = p].pc = p /\ [t EXCEPT !.pc = p].session = t.session
BY DEF Supervisor!TurnState

\* Rejected turns end without a session and need no cleanup.
LEMMA Rejected ==
  ASSUME Supervisor!TypeOK, NEW T \in SUBSET Turn, Supervisor!RejectAll(T)
  PROVE  /\ \A q \in Turn \ T : reply'[q] = reply[q]
         /\ \A q \in T : reply'[q] = Supervisor!WithoutSession
         /\ reply' \in [Turn -> [decision : {"none", "ok", "error"},
                                 cleanup : {"none", "proven", "unproven"}]]
<1>1. Supervisor!WithoutSession \in [decision : {"none", "ok", "error"},
                                     cleanup : {"none", "proven", "unproven"}]
  BY DEF Supervisor!WithoutSession
<1> QED BY <1>1 DEF Supervisor!RejectAll, Supervisor!TypeOK

\* The turns that end.
LEMMA EndedAre ==
  ASSUME Supervisor!TypeOK, NEW T \in SUBSET Turn, Supervisor!Ended(T)
  PROVE  /\ \A q \in Turn \ T : turn'[q] = turn[q]
         /\ \A q \in T : turn'[q].pc = "ended" /\ turn'[q].session = turn[q].session
         /\ turn' \in [Turn -> Supervisor!TurnState]
<1>1. \A q \in Turn : /\ [turn[q] EXCEPT !.pc = "ended"] \in Supervisor!TurnState
                      /\ [turn[q] EXCEPT !.pc = "ended"].pc = "ended"
                      /\ [turn[q] EXCEPT !.pc = "ended"].session = turn[q].session
  BY Reached DEF Supervisor!TypeOK
<1>2. \A q \in Turn : turn'[q] = IF q \in T THEN [turn[q] EXCEPT !.pc = "ended"] ELSE turn[q]
  BY DEF Supervisor!Ended
<1>3. turn' = [q \in Turn |-> turn'[q]]
  BY DEF Supervisor!Ended
<1>4. \A q \in Turn : turn'[q] \in Supervisor!TurnState
  BY <1>1, <1>2 DEF Supervisor!TypeOK
<1> QED BY <1>1, <1>2, <1>3, <1>4

\* A review or a chat is sent to a process, which is started when there is none.
LEMMA SubmitKeeps ==
  ASSUME Supervisor!NotTurns, Supervisor!IInv, NEW r \in Turn, Supervisor!Submit(r)
  PROVE  Supervisor!IInv'
<1>1. /\ Supervisor!TypeOK /\ Supervisor!WaitsOnce /\ Supervisor!OneOwner /\ Supervisor!Made
      /\ Supervisor!Opens /\ Supervisor!OneAtATime /\ Supervisor!Between /\ Supervisor!ProofHolds
  BY DEF Supervisor!IInv
<1> DEFINE m == Supervisor!Command("turn", r, 0)
<1>2. /\ m \in Supervisor!Commands /\ m.type = "turn" /\ m.turn = r /\ channel' = Append(channel, m)
      /\ caller[r].pc = "idle" /\ channel \in Seq(Supervisor!Commands)
      /\ UNCHANGED <<single, holding, serial, pending, idle, prewarming, reply, agent>>
      /\ turn' = [turn EXCEPT ![r].pc = "queued"]
      /\ caller' = [caller EXCEPT
                      ![r] = [Supervisor!NoCaller EXCEPT !.pc = "waiting", !.bound = TRUE]]
      /\ (process' = process /\ process # "absent") \/ (process = "absent" /\ process' = "starting")
  BY <1>1 DEF Supervisor!Command, Supervisor!Commands, Supervisor!Submit, Supervisor!config,
     Supervisor!TypeOK
<1> HIDE DEF m
<1>3. /\ turn[r].pc = "none" /\ turn[r].session = 0 /\ reply[r].cleanup = "none"
  BY <1>1, <1>2 DEF Supervisor!ProofHolds, Supervisor!Made
<1>4. /\ turn' \in [Turn -> Supervisor!TurnState] /\ \A q \in Turn \ {r} : turn'[q] = turn[q]
      /\ turn'[r].pc = "queued" /\ turn'[r].session = 0
  <2>1. turn[r] \in Supervisor!TurnState
    BY <1>1 DEF Supervisor!TypeOK
  <2>2. turn' = [turn EXCEPT ![r] = [turn[r] EXCEPT !.pc = "queued"]]
    BY <1>1, <1>2 DEF Supervisor!TypeOK
  <2> QED BY <1>1, <1>3, <2>1, <2>2, Reached DEF Supervisor!TypeOK
<1>5. /\ \A q \in Turn \ {r} : caller'[q] = caller[q]
      /\ caller'[r].pc = "waiting" /\ ~caller'[r].proven
      /\ caller' \in [Turn -> [pc : {"idle", "waiting", "holding", "cleanup", "done"},
                               bound : BOOLEAN, proven : BOOLEAN]]
  BY <1>1, <1>2 DEF Supervisor!TypeOK, Supervisor!NoCaller
<1>6. r \notin Supervisor!Queues \cup Supervisor!QueuedIn(channel)
  BY <1>1, <1>3 DEF Supervisor!WaitsOnce
<1>7. /\ channel' \in Seq(Supervisor!Commands) /\ Supervisor!Once(channel')
      /\ Supervisor!Range(channel') = Supervisor!Range(channel) \cup {m}
  <2>1. \A d \in Supervisor!Range(channel) : ~Supervisor!Repeats(m, d)
    BY <1>2, <1>6 DEF Supervisor!Repeats, Supervisor!QueuedIn, Supervisor!IsTurn
  <2>2. Supervisor!Once(channel)
    BY <1>1 DEF Supervisor!WaitsOnce
  <2> QED BY <1>2, <2>1, <2>2, Posted
<1>8. /\ Supervisor!QueuedIn(channel') = Supervisor!QueuedIn(channel) \cup {r}
      /\ Supervisor!Ready(channel') = Supervisor!Ready(channel)
      /\ Supervisor!Stops(channel) => Supervisor!Stops(channel')
  <2>1. {x \in {m.turn} : m.type = "turn"} = {r}
    BY <1>2
  <2>2. {x \in {m.session} : m.type = "prewarmed" /\ x # 0} = {}
    BY <1>2
  <2> QED BY <1>2, <2>1, <2>2, PostedParts
<1>9. \A q \in Turn : Supervisor!Alive(q)' = Supervisor!Alive(q)
  BY <1>3, <1>4 DEF Supervisor!Alive
<1>10. Supervisor!TypeOK'
  BY <1>1, <1>2, <1>4, <1>5, <1>7 DEF Supervisor!TypeOK, Supervisor!AgentState
<1>11. Supervisor!WaitsOnce'
  BY <1>1, <1>2, <1>4, <1>6, <1>7, <1>8 DEF Supervisor!WaitsOnce, Supervisor!Queues
<1>12. Supervisor!OneOwner'
  BY <1>1, <1>2, <1>3, <1>4, <1>8 DEF Supervisor!OneOwner, Supervisor!Held
<1>13. Supervisor!Made' /\ Supervisor!Opens'
  <2>1. \A q \in Turn : turn'[q].session = turn[q].session
    BY <1>3, <1>4
  <2> QED BY <1>1, <1>2, <1>4, <1>8, <2>1 DEF Supervisor!Made, Supervisor!Opens,
               Supervisor!Prompting
<1>14. Supervisor!OneAtATime'
  <2>1. \A c \in Supervisor!Range(channel') : c = m \/ c \in Supervisor!Range(channel)
    BY <1>7
  <2>2. \A q \in Turn : Supervisor!Alive(q) => turn'[q].pc = turn[q].pc
    BY <1>3, <1>4 DEF Supervisor!Alive
  <2> QED BY <1>1, <1>2, <1>8, <1>9, <2>1, <2>2 DEF Supervisor!OneAtATime
<1>15. Supervisor!Between'
  BY <1>1, <1>2, <1>3, <1>4, <1>8, <1>9 DEF Supervisor!Between, Supervisor!Queues
<1>16. Supervisor!ProofHolds'
  BY <1>1, <1>2, <1>3, <1>4, <1>5 DEF Supervisor!ProofHolds
<1> QED BY <1>10, <1>11, <1>12, <1>13, <1>14, <1>15, <1>16 DEF Supervisor!IInv

\* An agent that is ready has no session yet; one that cannot be started never will.
LEMMA StartKeeps ==
  ASSUME Supervisor!IInv, Supervisor!Initialized \/ Supervisor!SpawnFails
  PROVE  Supervisor!IInv'
<1>1. /\ Supervisor!TypeOK /\ Supervisor!WaitsOnce /\ Supervisor!OneOwner /\ Supervisor!Made
      /\ Supervisor!OneAtATime /\ Supervisor!Between /\ Supervisor!ProofHolds
  BY DEF Supervisor!IInv
<1>2. /\ UNCHANGED <<single, holding, channel, serial, pending, idle, turn, reply, caller>>
      /\ process = "starting" /\ process' \in {"supervising", "rejecting"}
      /\ prewarming' \in BOOLEAN /\ (process' = "rejecting" => agent' = agent)
      /\ agent' = agent \/ (~single /\ agent' = [agent EXCEPT !.calls = {"prewarm"}])
  BY <1>1 DEF Supervisor!Initialized, Supervisor!SpawnFails, Supervisor!config, Supervisor!TypeOK
<1>3. /\ agent = Supervisor!NoAgent /\ idle = 0 /\ Supervisor!Queues = {}
      /\ Supervisor!Ready(channel) = {}
      /\ \A r \in Turn : ~Supervisor!Alive(r) /\ turn[r].session = 0
  BY <1>1, <1>2 DEF Supervisor!Between
<1>4. /\ agent'.prompting = {} /\ agent'.made = 0 /\ agent'.late = 0
      /\ agent' \in Supervisor!AgentState /\ (single => agent'.calls = {})
      /\ agent.prompting = {} /\ agent.made = 0
  BY <1>2, <1>3 DEF Supervisor!NoAgent, Supervisor!AgentState
<1>5. Supervisor!TypeOK'
  BY <1>1, <1>2, <1>4 DEF Supervisor!TypeOK
<1>6. Supervisor!WaitsOnce' /\ Supervisor!OneOwner'
  BY <1>1, <1>2 DEF Supervisor!WaitsOnce, Supervisor!OneOwner, Supervisor!Queues, Supervisor!Held
<1>7. Supervisor!Made' /\ Supervisor!ProofHolds'
  BY <1>1, <1>2, <1>4 DEF Supervisor!Made, Supervisor!ProofHolds
<1>8. Supervisor!Opens'
  BY <1>2, <1>3 DEF Supervisor!Opens, Supervisor!Alive, Supervisor!Prompting
<1>9. Supervisor!OneAtATime'
  BY <1>1, <1>2, <1>3, <1>4 DEF Supervisor!OneAtATime, Supervisor!Alive
<1>10. Supervisor!Between'
  BY <1>2, <1>3 DEF Supervisor!Between, Supervisor!Alive, Supervisor!Queues
<1> QED BY <1>5, <1>6, <1>7, <1>8, <1>9, <1>10 DEF Supervisor!IInv

\* The thread of an agent that could not be started rejects what it is sent.
LEMMA RejectKeeps ==
  ASSUME Supervisor!IInv, Supervisor!RejectCommand
  PROVE  Supervisor!IInv'
<1>1. /\ Supervisor!TypeOK /\ Supervisor!WaitsOnce /\ Supervisor!OneOwner /\ Supervisor!Made
      /\ Supervisor!OneAtATime /\ Supervisor!Between /\ Supervisor!ProofHolds
  BY DEF Supervisor!IInv
<1> DEFINE T == Supervisor!QueuedIn(<<Head(channel)>>)
<1>2. /\ process = "rejecting" /\ channel # <<>> /\ channel' = Tail(channel)
      /\ UNCHANGED <<single, process, holding, serial, pending, idle, prewarming, caller, agent>>
      /\ Supervisor!RejectAll(T) /\ Supervisor!Ended(T)
      /\ channel \in Seq(Supervisor!Commands) /\ Supervisor!Once(channel)
  BY <1>1 DEF Supervisor!RejectCommand, Supervisor!config, Supervisor!TypeOK, Supervisor!WaitsOnce
<1>3. /\ T \subseteq Supervisor!QueuedIn(channel)
      /\ T \cap Supervisor!QueuedIn(Tail(channel)) = {}
  <2>1. \A c \in Supervisor!Range(<<Head(channel)>>) : c = Head(channel)
    BY DEF Supervisor!Range
  <2>2. T \subseteq {x \in {Head(channel).turn} : Head(channel).type = "turn"}
    BY <2>1 DEF Supervisor!QueuedIn, Supervisor!IsTurn
  <2> QED BY <1>2, <2>2, TakenParts
<1> HIDE DEF T
<1>4. /\ \A q \in Turn \ T : turn'[q] = turn[q] /\ reply'[q] = reply[q]
      /\ \A q \in T : turn'[q].pc = "ended" /\ turn'[q].session = turn[q].session
      /\ \A q \in T : reply'[q] = Supervisor!WithoutSession
      /\ T \subseteq Turn /\ \A q \in T : turn[q].pc = "queued"
      /\ turn' \in [Turn -> Supervisor!TurnState]
      /\ reply' \in [Turn -> [decision : {"none", "ok", "error"},
                              cleanup : {"none", "proven", "unproven"}]]
  <2>1. T \subseteq Turn /\ \A q \in T : turn[q].pc = "queued"
    BY <1>1, <1>3 DEF Supervisor!WaitsOnce
  <2> QED BY <1>1, <1>2, <2>1, Rejected, EndedAre
<1>5. /\ channel' \in Seq(Supervisor!Commands) /\ Supervisor!Once(channel')
      /\ Supervisor!Range(channel') \subseteq Supervisor!Range(channel)
      /\ Supervisor!QueuedIn(channel') \subseteq Supervisor!QueuedIn(channel) \ T
      /\ Supervisor!Ready(channel') \subseteq Supervisor!Ready(channel)
  BY <1>2, <1>3, Taken, TakenParts
<1>6. \A q \in Turn : turn'[q].session = turn[q].session
  BY <1>4
<1>7. Supervisor!TypeOK'
  BY <1>1, <1>2, <1>4, <1>5 DEF Supervisor!TypeOK
<1>8. Supervisor!WaitsOnce'
  <2>1. Supervisor!Queues = {} /\ Supervisor!Queues' = {}
    BY <1>1, <1>2 DEF Supervisor!Between, Supervisor!Queues
  <2>2. \A q \in Supervisor!QueuedIn(channel') : turn'[q].pc = "queued"
    BY <1>1, <1>4, <1>5 DEF Supervisor!WaitsOnce
  <2> QED BY <1>1, <1>2, <1>5, <2>1, <2>2 DEF Supervisor!WaitsOnce
<1>9. Supervisor!OneOwner'
  BY <1>1, <1>2, <1>5, <1>6 DEF Supervisor!OneOwner, Supervisor!Held
<1>10. Supervisor!Made' /\ Supervisor!Opens'
  BY <1>1, <1>2, <1>4, <1>5, <1>6 DEF Supervisor!Made, Supervisor!Opens, Supervisor!Prompting
<1>11. Supervisor!OneAtATime'
  BY <1>1, <1>2, <1>5 DEF Supervisor!OneAtATime
<1>12. Supervisor!Between'
  BY <1>1, <1>2, <1>4, <1>5, <1>6 DEF Supervisor!Between, Supervisor!Alive, Supervisor!Queues
<1>13. Supervisor!ProofHolds'
  BY <1>1, <1>2, <1>4, <1>6 DEF Supervisor!ProofHolds, Supervisor!Between, Supervisor!NoAgent
<1> QED BY <1>7, <1>8, <1>9, <1>10, <1>11, <1>12, <1>13 DEF Supervisor!IInv

\* The process ends, and everything it had with it.
LEMMA CloseKeeps ==
  ASSUME Supervisor!IInv, Supervisor!Close
  PROVE  Supervisor!IInv'
<1>1. Supervisor!TypeOK /\ Supervisor!ProofHolds
  BY DEF Supervisor!IInv
<1>2. /\ process' = "absent" /\ ~holding' /\ channel' = <<>> /\ serial' = <<>> /\ pending' = <<>>
      /\ idle' = 0 /\ ~prewarming' /\ agent' = Supervisor!NoAgent
      /\ UNCHANGED <<single, reply>>
      /\ holding' \in BOOLEAN /\ prewarming' \in BOOLEAN
  BY DEF Supervisor!Close, Supervisor!config
<1>3. /\ turn' \in [Turn -> Supervisor!TurnState]
      /\ \A q \in Turn : turn'[q].pc = IF turn[q].pc = "none" THEN "none" ELSE "ended"
  BY <1>1 DEF Supervisor!Close, Supervisor!TypeOK, Supervisor!TurnState, Supervisor!NoTurn
<1>4. \A q \in Turn : turn'[q].session = 0
  <2>1. \A q \in Turn : turn[q].pc = "none" => turn[q].session = 0
    BY DEF Supervisor!IInv, Supervisor!Made
  <2> QED BY <2>1 DEF Supervisor!Close, Supervisor!NoTurn
<1>5. /\ caller' \in [Turn -> [pc : {"idle", "waiting", "holding", "cleanup", "done"},
                               bound : BOOLEAN, proven : BOOLEAN]]
      /\ \A q \in Turn : caller'[q].proven = caller[q].proven
      /\ \A q \in Turn : caller'[q].pc = "idle" => caller[q].pc = "idle"
  BY <1>1 DEF Supervisor!Close, Supervisor!TypeOK
<1>6. /\ agent' \in Supervisor!AgentState /\ agent'.prompting = {} /\ agent'.made = 0
      /\ agent'.calls = {} /\ agent'.late = 0
  BY <1>2 DEF Supervisor!NoAgent, Supervisor!AgentState
<1>7. Supervisor!TypeOK'
  BY <1>1, <1>2, <1>3, <1>5, <1>6, NothingSent DEF Supervisor!TypeOK
<1>8. Supervisor!WaitsOnce'
  BY <1>1, <1>2, <1>3, NothingSent DEF Supervisor!WaitsOnce, Supervisor!Queues
<1>9. Supervisor!OneOwner'
  BY <1>2, <1>4, NothingSent DEF Supervisor!OneOwner
<1>10. Supervisor!Made' /\ Supervisor!Opens'
  BY <1>2, <1>3, <1>4, <1>6, NothingSent DEF Supervisor!Made, Supervisor!Opens, Supervisor!Prompting
<1>11. Supervisor!OneAtATime'
  BY <1>2, <1>6, NothingSent DEF Supervisor!OneAtATime
<1>12. Supervisor!Between'
  BY <1>2, <1>3, <1>4, NothingSent DEF Supervisor!Between, Supervisor!Alive, Supervisor!Queues
<1>13. Supervisor!ProofHolds'
  BY <1>1, <1>2, <1>3, <1>5, <1>6 DEF Supervisor!ProofHolds
<1> QED BY <1>7, <1>8, <1>9, <1>10, <1>11, <1>12, <1>13 DEF Supervisor!IInv

\* Sessions on their way have numbers.
LEMMA ReadyAre ==
  ASSUME NEW c \in Seq(Supervisor!Commands)
  PROVE  Supervisor!Ready(c) \subseteq Nat \ {0}
<1>1. \A x \in Supervisor!Range(c) : x \in Supervisor!Commands
  <2>1. \A i \in DOMAIN c : c[i] \in Supervisor!Commands
    OBVIOUS
  <2> QED BY <2>1 DEF Supervisor!Range
<1> QED BY <1>1 DEF Supervisor!Ready, Supervisor!Commands

\* The loop stops: what waits is rejected, what runs is told.
LEMMA DrainKeeps ==
  ASSUME Supervisor!IInv, NEW rest \in Seq(Supervisor!Commands),
         Supervisor!QueuedIn(rest) \subseteq Supervisor!QueuedIn(channel), Supervisor!Drain(rest)
  PROVE  Supervisor!IInv'
<1>1. /\ Supervisor!TypeOK /\ Supervisor!WaitsOnce /\ Supervisor!OneOwner /\ Supervisor!Made
      /\ Supervisor!OneAtATime /\ Supervisor!ProofHolds
  BY DEF Supervisor!IInv
<1> DEFINE T == Supervisor!Range(serial) \cup Supervisor!Range(pending)
                  \cup Supervisor!QueuedIn(rest)
<1>2. /\ process' = "draining" /\ channel' = <<>> /\ serial' = <<>> /\ pending' = <<>> /\ ~holding'
      /\ UNCHANGED <<single, idle, prewarming, caller, agent>> /\ Supervisor!RejectAll(T)
      /\ holding' \in BOOLEAN
      /\ turn' = [r \in Turn |-> CASE r \in T -> [turn[r] EXCEPT !.pc = "ended"]
                                   [] Supervisor!Alive(r) -> [turn[r] EXCEPT !.cancelled = TRUE]
                                   [] OTHER -> turn[r]]
  BY DEF Supervisor!Drain, Supervisor!config
<1>3. T \subseteq Turn /\ \A q \in T : turn[q].pc = "queued"
  BY <1>1 DEF Supervisor!WaitsOnce, Supervisor!Queues, Supervisor!TypeOK, Supervisor!Range
<1> HIDE DEF T
<1>4. /\ \A q \in Turn \ T : reply'[q] = reply[q]
      /\ \A q \in T : reply'[q] = Supervisor!WithoutSession
      /\ reply' \in [Turn -> [decision : {"none", "ok", "error"},
                              cleanup : {"none", "proven", "unproven"}]]
  BY <1>1, <1>2, <1>3, Rejected
<1>5. \A q \in Turn : /\ turn'[q] \in Supervisor!TurnState /\ turn'[q].session = turn[q].session
                      /\ turn'[q].pc = IF q \in T THEN "ended" ELSE turn[q].pc
  <2> SUFFICES ASSUME NEW q \in Turn
               PROVE  /\ turn'[q] \in Supervisor!TurnState /\ turn'[q].session = turn[q].session
                      /\ turn'[q].pc = IF q \in T THEN "ended" ELSE turn[q].pc
    OBVIOUS
  <2>1. turn[q] \in Supervisor!TurnState
    BY <1>1 DEF Supervisor!TypeOK
  <2>2. CASE q \in T
    <3>1. ~Supervisor!Alive(q)
      BY <1>3, <2>2 DEF Supervisor!Alive
    <3>2. turn'[q] = [turn[q] EXCEPT !.pc = "ended"]
      BY <1>2, <2>2, <3>1
    <3>3. /\ [turn[q] EXCEPT !.pc = "ended"] \in Supervisor!TurnState
          /\ [turn[q] EXCEPT !.pc = "ended"].pc = "ended"
          /\ [turn[q] EXCEPT !.pc = "ended"].session = turn[q].session
      BY <2>1, Reached
    <3> QED BY <2>2, <3>2, <3>3
  <2>3. CASE q \notin T /\ Supervisor!Alive(q)
    <3>1. turn'[q] = [turn[q] EXCEPT !.cancelled = TRUE]
      BY <1>2, <2>3
    <3> QED BY <2>1, <2>3, <3>1 DEF Supervisor!TurnState
  <2>4. CASE q \notin T /\ ~Supervisor!Alive(q)
    BY <1>2, <2>1, <2>4
  <2> QED BY <2>2, <2>3, <2>4
<1>6. Supervisor!TypeOK'
  BY <1>1, <1>2, <1>4, <1>5, NothingSent DEF Supervisor!TypeOK, Supervisor!AgentState
<1>7. Supervisor!WaitsOnce'
  BY <1>2, NothingSent DEF Supervisor!WaitsOnce, Supervisor!Queues
<1>8. Supervisor!OneOwner'
  BY <1>1, <1>2, <1>5, NothingSent DEF Supervisor!OneOwner, Supervisor!Held
<1>9. Supervisor!Made' /\ Supervisor!Opens'
  BY <1>1, <1>2, <1>3, <1>5, NothingSent DEF Supervisor!Made, Supervisor!Opens, Supervisor!Prompting
<1>10. Supervisor!OneAtATime' /\ Supervisor!Between'
  BY <1>1, <1>2, NothingSent DEF Supervisor!OneAtATime, Supervisor!Between
<1>11. Supervisor!ProofHolds'
  <2> SUFFICES ASSUME NEW q \in Turn
               PROVE  /\ caller[q].pc = "idle" =>
                           turn'[q].pc = "none" /\ reply'[q].cleanup = "none" /\ ~caller[q].proven
                      /\ caller[q].proven => reply'[q].cleanup = "proven"
                      /\ reply'[q].cleanup = "proven" =>
                           turn'[q].pc = "ended" /\ turn'[q].session \notin agent.prompting
    BY <1>2 DEF Supervisor!ProofHolds
  <2>1. CASE q \in T
    <3>1. turn[q].pc = "queued" /\ turn[q].session = 0 /\ 0 \notin agent.prompting
      BY <1>1, <1>3, <2>1 DEF Supervisor!Made
    <3>2. turn'[q].pc = "ended" /\ turn'[q].session = 0 /\ caller[q].pc # "idle"
      BY <1>1, <1>5, <2>1, <3>1 DEF Supervisor!ProofHolds
    <3>3. reply'[q].cleanup = "proven"
      BY <1>4, <2>1 DEF Supervisor!WithoutSession
    <3> QED BY <3>1, <3>2, <3>3
  <2>2. CASE q \notin T
    BY <1>1, <1>4, <1>5, <2>2 DEF Supervisor!ProofHolds
  <2> QED BY <2>1, <2>2
<1> QED BY <1>6, <1>7, <1>8, <1>9, <1>10, <1>11 DEF Supervisor!IInv

\* It stops when it is told, and after two idle minutes.
LEMMA StopsKeep ==
  ASSUME Supervisor!IInv, Supervisor!StopCommand \/ Supervisor!IdleTimeout
  PROVE  Supervisor!IInv'
<1>1. channel \in Seq(Supervisor!Commands) /\ Supervisor!Once(channel)
  BY DEF Supervisor!IInv, Supervisor!TypeOK, Supervisor!WaitsOnce
<1>2. CASE Supervisor!StopCommand
  <2>1. channel # <<>> /\ Supervisor!Drain(Tail(channel))
    BY <1>2 DEF Supervisor!StopCommand
  <2>2. /\ Tail(channel) \in Seq(Supervisor!Commands)
        /\ Supervisor!QueuedIn(Tail(channel)) \subseteq Supervisor!QueuedIn(channel)
    BY <1>1, <2>1, Taken, TakenParts
  <2> QED BY <2>1, <2>2, DrainKeeps
<1>3. CASE Supervisor!IdleTimeout
  <2>1. Supervisor!Drain(<<>>)
    BY <1>3 DEF Supervisor!IdleTimeout
  <2> QED BY <2>1, NothingSent, DrainKeeps
<1> QED BY <1>2, <1>3

\* The sessions of an agent that has made another one.
LEMMA AnotherOpened ==
  ASSUME NEW a \in Supervisor!AgentState
  PROVE  /\ Supervisor!Opened(a, a.made + 1) \in Supervisor!AgentState
         /\ Supervisor!Opened(a, a.made + 1).made = a.made + 1
         /\ Supervisor!Opened(a, a.made + 1).late = a.late
         /\ Supervisor!Opened(a, a.made + 1).calls = a.calls
         /\ Supervisor!Opened(a, a.made + 1).prompting \subseteq a.prompting
         /\ a.made + 1 \in Supervisor!Opened(a, a.made + 1).open
         /\ ~single => a.open \subseteq Supervisor!Opened(a, a.made + 1).open
<1> DEFINE n == a.made + 1
           o == IF single THEN {n} ELSE a.open \cup {n}
           p == IF single THEN a.prompting \cap {n} ELSE a.prompting
<1>1. /\ n \in Nat /\ o \in SUBSET Nat /\ p \in SUBSET Nat /\ p \subseteq a.prompting /\ n \in o
      /\ ~single => a.open \subseteq o
  BY DEF Supervisor!AgentState
<1>2. Supervisor!Opened(a, n) = [a EXCEPT !.open = o, !.prompting = p, !.made = n]
  BY DEF Supervisor!Opened
<1> HIDE DEF n, o, p
<1>3. /\ Supervisor!Opened(a, n) \in Supervisor!AgentState
      /\ Supervisor!Opened(a, n).made = n /\ Supervisor!Opened(a, n).late = a.late
      /\ Supervisor!Opened(a, n).calls = a.calls /\ Supervisor!Opened(a, n).prompting = p
      /\ Supervisor!Opened(a, n).open = o
  BY <1>1, <1>2 DEF Supervisor!AgentState
<1> QED BY <1>1, <1>3 DEF n

\* A session is prepared, or not.
LEMMA PrewarmKeeps ==
  ASSUME Supervisor!NotTurns, Supervisor!IInv, Supervisor!PrewarmEnds
  PROVE  Supervisor!IInv'
<1>1. /\ Supervisor!TypeOK /\ Supervisor!WaitsOnce /\ Supervisor!OneOwner /\ Supervisor!Made
      /\ Supervisor!Opens /\ Supervisor!OneAtATime /\ Supervisor!Between /\ Supervisor!ProofHolds
  BY DEF Supervisor!IInv
<1>2. /\ process = "supervising" /\ "prewarm" \in agent.calls
      /\ UNCHANGED <<single, process, holding, serial, pending, idle, prewarming, turn, reply,
                     caller>>
  BY DEF Supervisor!PrewarmEnds, Supervisor!config
<1>3. /\ ~single /\ agent \in Supervisor!AgentState /\ channel \in Seq(Supervisor!Commands)
      /\ Supervisor!Once(channel)
  BY <1>1, <1>2 DEF Supervisor!OneAtATime, Supervisor!TypeOK, Supervisor!WaitsOnce
<1>4. PICK s \in {0, agent.made + 1} :
        /\ channel' = Append(channel, Supervisor!Command("prewarmed", "none", s))
        /\ agent' \in Supervisor!AgentState /\ agent'.prompting \subseteq agent.prompting
        /\ agent'.made >= agent.made /\ agent'.made >= s
        /\ agent.open \subseteq agent'.open /\ (s # 0 => s \in agent'.open)
  <2> DEFINE o == Supervisor!Opened(agent, agent.made + 1)
             without(a) == [a EXCEPT !.calls = @ \ {"prewarm"}]
  <2>1. \A a \in Supervisor!AgentState :
          /\ without(a) \in Supervisor!AgentState /\ without(a).prompting = a.prompting
          /\ without(a).made = a.made /\ without(a).open = a.open
    BY DEF Supervisor!AgentState
  <2>2. /\ o \in Supervisor!AgentState /\ o.made = agent.made + 1 /\
             o.prompting \subseteq agent.prompting
        /\ agent.made + 1 \in o.open /\ agent.open \subseteq o.open
    BY <1>3, AnotherOpened
  <2>3. agent.made \in Nat
    BY <1>3 DEF Supervisor!AgentState
  <2>4. \/ channel' = Append(channel, Supervisor!Command("prewarmed", "none", agent.made + 1))
           /\ agent' = without(o)
        \/ channel' = Append(channel, Supervisor!Command("prewarmed", "none", 0))
           /\ agent' = without(agent)
    BY DEF Supervisor!PrewarmEnds, Supervisor!NextSession
  <2> HIDE DEF o, without
  <2> QED BY <1>3, <2>1, <2>2, <2>3, <2>4
<1> DEFINE m == Supervisor!Command("prewarmed", "none", s)
<1>5. /\ m \in Supervisor!Commands /\ m.type = "prewarmed" /\ m.session = s /\ s \in Nat
      /\ channel' = Append(channel, m) /\ agent.made \in Nat /\ agent'.made \in Nat
      /\ s # 0 => s = agent.made + 1
  BY <1>3, <1>4 DEF Supervisor!Command, Supervisor!Commands, Supervisor!AgentState
<1> HIDE DEF m
<1>6. s # 0 => s \notin Supervisor!Ready(channel) /\ ~Supervisor!Held(s) /\ s # idle
               /\ s \notin agent.prompting
  <2>1. /\ \A q \in Turn : turn[q].session \in Nat /\ turn[q].session <= agent.made
        /\ idle \in Nat /\ idle <= agent.made
        /\ \A x \in Supervisor!Ready(channel) : x <= agent.made
        /\ \A x \in agent.prompting : x <= agent.made
    BY <1>1 DEF Supervisor!Made, Supervisor!TypeOK, Supervisor!TurnState
  <2> QED BY <1>5, <2>1 DEF Supervisor!Held
<1>7. /\ channel' \in Seq(Supervisor!Commands) /\ Supervisor!Once(channel')
  <2>1. \A d \in Supervisor!Range(channel) : ~Supervisor!Repeats(m, d)
    BY <1>5, <1>6 DEF Supervisor!Repeats, Supervisor!Ready, Supervisor!IsTurn
  <2> QED BY <1>3, <1>5, <2>1, Posted
<1>8. /\ Supervisor!QueuedIn(channel') = Supervisor!QueuedIn(channel)
      /\ Supervisor!Ready(channel') = Supervisor!Ready(channel) \cup {x \in {s} : x # 0}
  <2>1. {x \in {m.turn} : m.type = "turn"} = {}
    BY <1>5
  <2>2. {x \in {m.session} : m.type = "prewarmed" /\ x # 0} = {x \in {s} : x # 0}
    BY <1>5
  <2> DEFINE S == {x \in {m.turn} : m.type = "turn"}
             R == {x \in {m.session} : m.type = "prewarmed" /\ x # 0}
  <2>3. /\ Supervisor!QueuedIn(Append(channel, m)) = Supervisor!QueuedIn(channel) \cup S
        /\ Supervisor!Ready(Append(channel, m)) = Supervisor!Ready(channel) \cup R
    BY <1>3, <1>5, PostedParts
  <2> HIDE DEF S, R
  <2>4. S = {} /\ R = {x \in {s} : x # 0}
    BY <2>1, <2>2 DEF S, R
  <2> QED BY <1>5, <2>3, <2>4
<1>9. Supervisor!TypeOK' /\ Supervisor!WaitsOnce'
  BY <1>1, <1>2, <1>4, <1>7, <1>8 DEF Supervisor!TypeOK, Supervisor!WaitsOnce, Supervisor!Queues
<1>10. Supervisor!OneOwner'
  BY <1>1, <1>2, <1>6, <1>8 DEF Supervisor!OneOwner, Supervisor!Held
<1>11. Supervisor!Made'
  <2>1. \A q \in Turn : turn[q].session \in Nat /\ turn[q].session <= agent'.made
    BY <1>1, <1>4, <1>5 DEF Supervisor!Made, Supervisor!TypeOK, Supervisor!TurnState
  <2>2. \A x \in Supervisor!Ready(channel') \cup {idle} : x <= agent'.made /\
          x \notin agent'.prompting
    <3>1. \A x \in Supervisor!Ready(channel) \cup {idle} : x <= agent.made /\
            x \notin agent.prompting
      BY <1>1 DEF Supervisor!Made
    <3>2. Supervisor!Ready(channel) \subseteq Nat /\ idle \in Nat
      BY <1>1, <1>3, ReadyAre DEF Supervisor!TypeOK
    <3> QED BY <1>4, <1>5, <1>6, <1>8, <3>1, <3>2
  <2>3. \A x \in agent'.prompting : x # 0 /\ x <= agent'.made
    <3>1. agent.prompting \subseteq Nat
      BY <1>3 DEF Supervisor!AgentState
    <3> QED BY <1>1, <1>4, <1>5, <3>1 DEF Supervisor!Made
  <2> QED BY <1>1, <1>2, <1>4, <2>1, <2>2, <2>3 DEF Supervisor!Made
<1>12. Supervisor!Opens'
  BY <1>1, <1>2, <1>4, <1>8 DEF Supervisor!Opens
<1>13. Supervisor!OneAtATime' /\ Supervisor!Between'
  BY <1>2, <1>3 DEF Supervisor!OneAtATime, Supervisor!Between
<1>14. Supervisor!ProofHolds'
  BY <1>1, <1>2, <1>4 DEF Supervisor!ProofHolds
<1> QED BY <1>9, <1>10, <1>11, <1>12, <1>13, <1>14 DEF Supervisor!IInv

\* A call that was given up completes, when the agent has one session only between two
\* turns; and a prompt that was cancelled ends.
LEMMA AgentKeeps ==
  ASSUME Supervisor!IInv, Supervisor!LateCompletion \/ Supervisor!CancelledPromptEnds
  PROVE  Supervisor!IInv'
<1>1. /\ Supervisor!TypeOK /\ Supervisor!WaitsOnce /\ Supervisor!OneOwner /\ Supervisor!Made
      /\ Supervisor!Opens /\ Supervisor!OneAtATime /\ Supervisor!Between /\ Supervisor!ProofHolds
  BY DEF Supervisor!IInv
<1>2. UNCHANGED <<single, process, holding, channel, serial, pending, idle, prewarming, turn,
                  reply, caller>>
  BY DEF Supervisor!LateCompletion, Supervisor!CancelledPromptEnds, Supervisor!config,
     Supervisor!loopVars
<1>3. agent \in Supervisor!AgentState /\ agent.made \in Nat /\ agent.late \in Nat
  BY <1>1 DEF Supervisor!TypeOK, Supervisor!AgentState
<1>4. /\ agent' \in Supervisor!AgentState /\ agent'.made \in Nat /\ agent'.made >= agent.made
      /\ agent'.prompting \subseteq agent.prompting /\ agent'.calls = agent.calls
      /\ agent'.late > 0 => agent.late > 0
      /\ agent.open \subseteq agent'.open \/ (single /\ agent.late > 0)
      /\ agent # Supervisor!NoAgent
  <2>1. CASE Supervisor!LateCompletion
    <3> DEFINE o == Supervisor!Opened(agent, agent.made + 1)
    <3>1. /\ o \in Supervisor!AgentState /\ o.made = agent.made + 1
          /\ o.prompting \subseteq agent.prompting /\ o.calls = agent.calls /\ o.late = agent.late
          /\ ~single => agent.open \subseteq o.open
      BY <1>3, AnotherOpened
    <3>2. agent.late > 0 /\ agent' = [o EXCEPT !.late = @ - 1]
      BY <2>1 DEF Supervisor!LateCompletion, Supervisor!NextSession
    <3> HIDE DEF o
    <3>3. /\ agent'.made = o.made /\ agent'.prompting = o.prompting /\ agent'.calls = o.calls
          /\ agent'.open = o.open /\ agent'.late = o.late - 1 /\ agent' \in Supervisor!AgentState
      BY <1>3, <3>1, <3>2 DEF Supervisor!AgentState
    <3>4. agent # Supervisor!NoAgent
      BY <3>2 DEF Supervisor!NoAgent
    <3> QED BY <1>3, <3>1, <3>2, <3>3, <3>4
  <2>2. CASE Supervisor!CancelledPromptEnds
    <3>1. PICK s \in agent.prompting : agent' = [agent EXCEPT !.prompting = @ \ {s}]
      BY <2>2 DEF Supervisor!CancelledPromptEnds
    <3>2. agent # Supervisor!NoAgent
      BY <3>1 DEF Supervisor!NoAgent
    <3> QED BY <1>3, <3>1, <3>2 DEF Supervisor!AgentState
  <2> QED BY <2>1, <2>2
<1>5. process \in {"supervising", "draining"}
  BY <1>1, <1>4 DEF Supervisor!Between, Supervisor!TypeOK
<1>6. Supervisor!TypeOK' /\ Supervisor!WaitsOnce' /\ Supervisor!OneOwner'
  BY <1>1, <1>2, <1>4 DEF Supervisor!TypeOK, Supervisor!WaitsOnce, Supervisor!OneOwner,
     Supervisor!Queues, Supervisor!Held
<1>7. Supervisor!Made'
  <2>1. \A x \in Nat : x <= agent.made => x <= agent'.made
    BY <1>3, <1>4
  <2>2. /\ \A q \in Turn : turn[q].session \in Nat
        /\ \A x \in Supervisor!Ready(channel) \cup {idle} : x \in Nat
        /\ agent.prompting \subseteq Nat
    BY <1>1, ReadyAre DEF Supervisor!TypeOK, Supervisor!TurnState, Supervisor!AgentState
  <2> QED BY <1>1, <1>2, <1>4, <2>1, <2>2 DEF Supervisor!Made
<1>8. Supervisor!Opens'
  <2>1. CASE agent.open \subseteq agent'.open
    BY <1>1, <1>2, <2>1 DEF Supervisor!Opens
  <2>2. CASE single /\ agent.late > 0
    <3>1. process = "supervising"
            => \A q \in Turn : turn[q].pc \notin Supervisor!Prompting \cup {"acquired"}
      BY <1>1, <2>2 DEF Supervisor!OneAtATime, Supervisor!Alive, Supervisor!Prompting
    <3>2. Supervisor!Ready(channel) = {} /\ idle = 0
      BY <1>1, <2>2 DEF Supervisor!OneAtATime, Supervisor!Ready
    <3> QED BY <1>2, <3>1, <3>2 DEF Supervisor!Opens
  <2> QED BY <1>4, <2>1, <2>2
<1>9. Supervisor!OneAtATime'
  BY <1>1, <1>2, <1>4 DEF Supervisor!OneAtATime, Supervisor!Alive
<1>10. Supervisor!Between'
  BY <1>2, <1>5 DEF Supervisor!Between
<1>11. Supervisor!ProofHolds'
  BY <1>1, <1>2, <1>4 DEF Supervisor!ProofHolds
<1> QED BY <1>6, <1>7, <1>8, <1>9, <1>10, <1>11 DEF Supervisor!IInv

\* What the task of a turn does: it works only when the loop yielded, for a turn that has
\* the agent; it opens a session or uses its own.
LEMMA TaskKeeps ==
  ASSUME Supervisor!IInv, NEW r \in Turn, Supervisor!Alive(r), ~holding,
         process \in {"supervising", "draining"},
         UNCHANGED <<single, process, holding, serial, pending, idle, prewarming, caller>>,
         channel' = channel \/ channel' = Append(channel, Supervisor!Signal("shutdown")),
         NEW x \in Supervisor!TurnState, turn' = [turn EXCEPT ![r] = x],
         x.pc \notin {"none", "queued"},
         x.pc \in {"acquire", "acquiring"} => x.session = 0,
         x.pc \in Supervisor!Prompting \cup {"acquired"} => x.session # 0,
         x.pc = "acquired" => x.session \notin agent'.prompting,
         agent' \in Supervisor!AgentState,
         \/ x.session = turn[r].session /\ agent'.made >= agent.made
         \/ x.session = agent.made + 1 /\ agent'.made = x.session,
         agent'.prompting \subseteq agent.prompting \cup ({x.session} \ {0}),
         process = "supervising" /\ x.pc \in Supervisor!Prompting \cup {"acquired"} =>
           x.session \in agent'.open,
         ~single => agent.open \ {turn[r].session} \subseteq agent'.open,
         agent'.calls \subseteq agent.calls \cup {r}, Supervisor!NotTurns,
         \/ agent'.late = agent.late
         \/ x.pc = "ended" /\ (single => channel' = Append(channel, Supervisor!Signal("shutdown"))),
         NEW y \in [decision : {"none", "ok", "error"}, cleanup : {"none", "proven", "unproven"}],
         reply' = [reply EXCEPT ![r] = y],
         y.cleanup = "proven" => x.pc = "ended" /\ x.session \notin agent'.prompting
  PROVE  Supervisor!IInv'
<1>1. /\ Supervisor!TypeOK /\ Supervisor!WaitsOnce /\ Supervisor!OneOwner /\ Supervisor!Made
      /\ Supervisor!Opens /\ Supervisor!OneAtATime /\ Supervisor!Between /\ Supervisor!ProofHolds
  BY DEF Supervisor!IInv
<1>2. /\ \A q \in Turn \ {r} : turn'[q] = turn[q] /\ reply'[q] = reply[q]
      /\ turn'[r] = x /\ reply'[r] = y
      /\ turn' \in [Turn -> Supervisor!TurnState]
      /\ reply' \in [Turn -> [decision : {"none", "ok", "error"},
                              cleanup : {"none", "proven", "unproven"}]]
  BY <1>1 DEF Supervisor!TypeOK
<1>3. /\ channel \in Seq(Supervisor!Commands) /\ Supervisor!Once(channel)
      /\ agent \in Supervisor!AgentState /\ agent.made \in Nat /\ agent'.made \in Nat
      /\ x.session \in Nat /\ x.pc # "none" /\ idle \in Nat
      /\ \A q \in Turn : turn[q].session \in Nat /\ turn[q].session <= agent.made
  BY <1>1 DEF Supervisor!TypeOK, Supervisor!WaitsOnce, Supervisor!AgentState,
     Supervisor!TurnState, Supervisor!Made
<1> DEFINE m == Supervisor!Signal("shutdown")
<1>4. m \in Supervisor!Commands /\ m.type = "shutdown" /\
        (channel' = channel \/ channel' = Append(channel, m))
  BY DEF Supervisor!Signal, Supervisor!Command, Supervisor!Commands
<1> HIDE DEF m
<1>5. /\ channel' \in Seq(Supervisor!Commands) /\ Supervisor!Once(channel')
      /\ Supervisor!QueuedIn(channel') = Supervisor!QueuedIn(channel)
      /\ Supervisor!Ready(channel') = Supervisor!Ready(channel)
      /\ Supervisor!Stops(channel) => Supervisor!Stops(channel')
      /\ channel' = Append(channel, m) => Supervisor!Stops(channel')
      /\ (\A d \in Supervisor!Range(channel) : d.type # "prewarmed")
           => \A d \in Supervisor!Range(channel') : d.type # "prewarmed"
  <2>1. CASE channel' = channel
    <3>1. channel # Append(channel, m)
      BY <1>3, <1>4
    <3> QED BY <1>3, <2>1, <3>1
  <2>2. CASE channel' = Append(channel, m)
    BY <1>3, <1>4, <2>2, PostedSignal
  <2> QED BY <1>4, <2>1, <2>2
\* Nobody else has or gets the session.
<1>6. /\ \A q \in Turn \ {r} : x.session # 0 => turn[q].session # x.session
      /\ x.session # 0 => x.session # idle /\ x.session \notin Supervisor!Ready(channel)
  <2>1. CASE x.session = turn[r].session
    BY <1>1, <2>1 DEF Supervisor!OneOwner, Supervisor!Held
  <2>2. CASE x.session = agent.made + 1
    BY <1>1, <1>3, <2>2, ReadyAre DEF Supervisor!Made
  <2> QED BY <2>1, <2>2
<1>7. turn[r].pc \notin {"none", "queued", "ended"}
  BY DEF Supervisor!Alive
<1>8. Supervisor!TypeOK'
  BY <1>1, <1>2, <1>5 DEF Supervisor!TypeOK
<1>9. Supervisor!WaitsOnce'
  <2>1. \A q \in Supervisor!Queues \cup Supervisor!QueuedIn(channel) : q \in Turn \ {r}
    BY <1>1, <1>7 DEF Supervisor!WaitsOnce, Supervisor!Queues, Supervisor!TypeOK, Supervisor!Range
  <2> QED BY <1>1, <1>2, <1>5, <2>1 DEF Supervisor!WaitsOnce, Supervisor!Queues
<1>10. Supervisor!OneOwner'
  <2>1. \A p, q \in Turn : turn'[p].session = turn'[q].session /\ turn'[p].session # 0 => p = q
    <3> SUFFICES ASSUME NEW p \in Turn, NEW q \in Turn, turn'[p].session = turn'[q].session,
                        turn'[p].session # 0
                 PROVE  p = q
      OBVIOUS
    <3>1. CASE p # r /\ q # r
      BY <1>1, <1>2, <3>1 DEF Supervisor!OneOwner
    <3>2. CASE p = r \/ q = r
      BY <1>2, <1>6, <3>2
    <3> QED BY <3>1, <3>2
  <2>2. \A s : s # 0 /\ Supervisor!Held(s)' => s = x.session \/ Supervisor!Held(s)
    BY <1>2 DEF Supervisor!Held
  <2>3. idle # 0 => ~Supervisor!Held(idle)' /\ idle \notin Supervisor!Ready(channel')
    BY <1>1, <1>5, <1>6, <2>2 DEF Supervisor!OneOwner
  <2>4. \A s \in Supervisor!Ready(channel') : ~Supervisor!Held(s)'
    BY <1>1, <1>3, <1>5, <1>6, <2>2, ReadyAre DEF Supervisor!OneOwner
  <2>5. idle' = idle
    OBVIOUS
  <2> QED BY <2>1, <2>3, <2>4, <2>5 DEF Supervisor!OneOwner, Supervisor!Held
<1>11. Supervisor!Made'
  <2>1. \A s \in Nat : s <= agent.made => s <= agent'.made
    BY <1>3
  <2>2. x.session <= agent'.made
    BY <1>3, <2>1
  <2>3. \A q \in Turn : turn'[q].session <= agent'.made
    BY <1>2, <1>3, <2>1, <2>2
  <2>4. \A s \in Supervisor!Ready(channel') \cup {idle'} : s <= agent'.made /\
          s \notin agent'.prompting
    <3>1. \A s \in Supervisor!Ready(channel) \cup {idle} : s \in Nat /\ (s # 0 => s # x.session)
      BY <1>3, <1>6, ReadyAre
    <3> QED BY <1>1, <1>5, <2>1, <3>1 DEF Supervisor!Made
  <2>5. \A s \in agent'.prompting : s # 0 /\ s <= agent'.made
    BY <1>1, <1>3, <2>1, <2>2 DEF Supervisor!Made, Supervisor!AgentState
  <2>6. ASSUME NEW q \in Turn
        PROVE  /\ turn'[q].pc \in {"none", "queued", "acquire", "acquiring"} => turn'[q].session = 0
               /\ turn'[q].pc \in Supervisor!Prompting \cup {"acquired"} => turn'[q].session # 0
               /\ turn'[q].pc = "acquired" => turn'[q].session \notin agent'.prompting
    <3>1. CASE q = r
      BY <1>2, <3>1
    <3>2. CASE q # r
      BY <1>1, <1>2, <1>6, <3>2 DEF Supervisor!Made
    <3> QED BY <3>1, <3>2
  <2> QED BY <2>3, <2>4, <2>5, <2>6 DEF Supervisor!Made
\* With one session the others have nothing, and with several nothing is closed.
<1>12. single /\ process = "supervising" =>
         /\ \A q \in Turn \ {r} : ~Supervisor!Alive(q)
         /\ idle = 0 /\ Supervisor!Ready(channel) = {} /\ ~(agent.late > 0)
  BY <1>1 DEF Supervisor!OneAtATime, Supervisor!Ready
<1>13. Supervisor!Opens'
  <2> SUFFICES ASSUME process = "supervising"
               PROVE  /\ \A q \in Turn : turn'[q].pc \in Supervisor!Prompting \cup {"acquired"} =>
                           turn'[q].session \in agent'.open
                      /\ \A s \in Supervisor!Ready(channel) \cup ({idle} \ {0}) : s \in agent'.open
    BY <1>5 DEF Supervisor!Opens
  <2>1. CASE single
    BY <1>2, <1>12, <2>1 DEF Supervisor!Alive, Supervisor!Prompting
  <2>2. CASE ~single
    <3>1. ASSUME NEW q \in Turn \ {r}, turn[q].pc \in Supervisor!Prompting \cup {"acquired"}
          PROVE  turn[q].session \in agent'.open
      <4>1. turn[q].session \in agent.open /\ turn[q].session # 0
        BY <1>1, <3>1 DEF Supervisor!Opens, Supervisor!Made
      <4>2. turn[q].session # turn[r].session
        BY <1>1, <4>1 DEF Supervisor!OneOwner
      <4> QED BY <2>2, <4>1, <4>2
    <3>2. ASSUME NEW s \in Supervisor!Ready(channel) \cup ({idle} \ {0})
          PROVE  s \in agent'.open
      <4>1. s \in agent.open /\ s # turn[r].session
        BY <1>1, <3>2 DEF Supervisor!Opens, Supervisor!OneOwner, Supervisor!Held
      <4> QED BY <2>2, <4>1
    <3> QED BY <1>2, <3>1, <3>2
  <2> QED BY <2>1, <2>2
<1>14. Supervisor!OneAtATime'
  <2> SUFFICES ASSUME single
               PROVE  /\ idle = 0 /\ "prewarm" \notin agent'.calls
                      /\ \A c \in Supervisor!Range(channel') : c.type # "prewarmed"
                      /\ process = "supervising" =>
                           /\ \A p, q \in Turn : Supervisor!Alive(p)' /\ Supervisor!Alive(q)'
                                => p = q
                           /\ agent'.late > 0 =>
                                Supervisor!Stops(channel') /\ \A q \in Turn : ~Supervisor!Alive(q)'
    BY DEF Supervisor!OneAtATime
  <2>1. "prewarm" \notin agent'.calls
    BY <1>1 DEF Supervisor!OneAtATime, Supervisor!NotTurns
  <2>2. idle = 0 /\ \A c \in Supervisor!Range(channel') : c.type # "prewarmed"
    BY <1>1, <1>5 DEF Supervisor!OneAtATime
  <2>3. process = "supervising" => \A q \in Turn \ {r} : ~Supervisor!Alive(q)'
    BY <1>2, <1>12 DEF Supervisor!Alive
  <2>4. ASSUME process = "supervising", agent'.late > 0
        PROVE  Supervisor!Stops(channel') /\ ~Supervisor!Alive(r)'
    <3>1. x.pc = "ended" /\ channel' = Append(channel, m)
      BY <1>12, <2>4 DEF m
    <3> QED BY <1>2, <1>5, <3>1 DEF Supervisor!Alive
  <2> QED BY <2>1, <2>2, <2>3, <2>4
<1>15. Supervisor!Between'
  BY DEF Supervisor!Between
<1>16. Supervisor!ProofHolds'
  <2> SUFFICES ASSUME NEW q \in Turn
               PROVE  /\ caller[q].pc = "idle" =>
                           turn'[q].pc = "none" /\ reply'[q].cleanup = "none" /\ ~caller[q].proven
                      /\ caller[q].proven => reply'[q].cleanup = "proven"
                      /\ reply'[q].cleanup = "proven" =>
                           turn'[q].pc = "ended" /\ turn'[q].session \notin agent'.prompting
    BY DEF Supervisor!ProofHolds
  <2>1. CASE q = r
    BY <1>1, <1>2, <1>7, <2>1 DEF Supervisor!ProofHolds
  <2>2. CASE q # r
    <3>1. turn[q].session = x.session => turn[q].session \notin agent'.prompting
      BY <1>1, <1>6, <2>2 DEF Supervisor!Made
    <3> QED BY <1>1, <1>2, <2>2, <3>1 DEF Supervisor!ProofHolds
  <2> QED BY <2>1, <2>2
<1> QED BY <1>8, <1>9, <1>10, <1>11, <1>13, <1>14, <1>15, <1>16 DEF Supervisor!IInv

\* A task that fails without a session ends; when it gave up its call for the only
\* session, the agent is retired with it.
LEMMA FailKeeps ==
  ASSUME Supervisor!NotTurns, Supervisor!IInv, NEW r \in Turn, ~holding,
         process \in {"supervising", "draining"},
         turn[r].pc \in {"acquire", "acquiring", "acquired"},
         UNCHANGED <<single, process, holding, serial, pending, idle, prewarming, caller>>,
         NEW retire \in BOOLEAN, Supervisor!Fails(r, retire),
         agent' \in Supervisor!AgentState, agent'.made >= agent.made,
         agent'.prompting \subseteq agent.prompting, ~single => agent.open \subseteq agent'.open,
         agent'.calls \subseteq agent.calls \cup {r},
         agent'.late = agent.late \/ (single => retire)
  PROVE  Supervisor!IInv'
<1> DEFINE x == [turn[r] EXCEPT !.pc = "ended"]
           y == Supervisor!WithoutSession
<1>1. Supervisor!TypeOK /\ Supervisor!Made
  BY DEF Supervisor!IInv
<1>2. /\ Supervisor!Alive(r) /\ turn[r] \in Supervisor!TurnState
      /\ turn[r].session \notin agent.prompting
  BY <1>1 DEF Supervisor!Alive, Supervisor!TypeOK, Supervisor!Made
<1>3. /\ x \in Supervisor!TurnState /\ x.pc = "ended" /\ x.session = turn[r].session
      /\ y \in [decision : {"none", "ok", "error"}, cleanup : {"none", "proven", "unproven"}]
      /\ turn' = [turn EXCEPT ![r] = x] /\ reply' = [reply EXCEPT ![r] = y]
      /\ channel' = channel \/ channel' = Append(channel, Supervisor!Signal("shutdown"))
      /\ retire => channel' = Append(channel, Supervisor!Signal("shutdown"))
  BY <1>1, <1>2 DEF Supervisor!Fails, Supervisor!Ends, Supervisor!WithoutSession,
     Supervisor!TurnState, Supervisor!TypeOK
<1> HIDE DEF x, y
<1>4. "ended" \notin Supervisor!Prompting
  BY DEF Supervisor!Prompting
<1> QED BY <1>2, <1>3, <1>4, TaskKeeps

\* A task that works in its session.
LEMMA WorkKeeps ==
  ASSUME Supervisor!NotTurns, Supervisor!IInv, NEW r \in Turn, ~holding,
         process \in {"supervising", "draining"},
         turn[r].pc \in Supervisor!Prompting \cup {"acquired"},
         UNCHANGED <<single, process, holding, serial, pending, idle, prewarming, caller, channel>>,
         NEW x \in Supervisor!TurnState, turn' = [turn EXCEPT ![r] = x],
         x.pc \in Supervisor!Prompting \cup {"closing"}, x.session = turn[r].session,
         NEW p \in SUBSET (agent.prompting \cup {x.session}),
         agent' = [agent EXCEPT !.prompting = p],
         NEW d \in {"none", "ok", "error"}, reply' = [reply EXCEPT ![r].decision = d]
  PROVE  Supervisor!IInv'
<1> DEFINE y == [reply[r] EXCEPT !.decision = d]
<1>1. /\ Supervisor!TypeOK /\ Supervisor!Made /\ Supervisor!Opens /\ Supervisor!ProofHolds
  BY DEF Supervisor!IInv
<1>2. /\ Supervisor!Alive(r) /\ turn[r] \in Supervisor!TurnState /\ x.session # 0
      /\ x.session \in Nat
  BY <1>1 DEF Supervisor!Alive, Supervisor!TypeOK, Supervisor!Made, Supervisor!Prompting,
     Supervisor!TurnState
<1>3. /\ y \in [decision : {"none", "ok", "error"}, cleanup : {"none", "proven", "unproven"}]
      /\ reply' = [reply EXCEPT ![r] = y] /\ y.cleanup # "proven"
  BY <1>1, <1>2 DEF Supervisor!TypeOK, Supervisor!ProofHolds, Supervisor!Alive
<1>4. /\ agent' \in Supervisor!AgentState /\ agent'.made = agent.made /\ agent'.open = agent.open
      /\ agent'.calls = agent.calls /\ agent'.late = agent.late /\ agent'.prompting = p
      /\ agent'.made >= agent.made
  <2>1. agent \in Supervisor!AgentState /\ p \in SUBSET Nat
    BY <1>1, <1>2 DEF Supervisor!TypeOK, Supervisor!AgentState
  <2> QED BY <2>1 DEF Supervisor!AgentState
<1>5. p \subseteq agent.prompting \cup ({x.session} \ {0})
  BY <1>2
<1>6. process = "supervising" => x.session \in agent.open
  BY <1>1 DEF Supervisor!Opens
<1>7. x.pc \notin {"none", "queued", "acquire", "acquiring", "acquired"}
  BY DEF Supervisor!Prompting
<1> HIDE DEF y
<1> QED BY <1>2, <1>3, <1>4, <1>5, <1>6, <1>7, TaskKeeps

\* The task asks for a session, gets it, or goes without.
LEMMA AcquiresKeep ==
  ASSUME Supervisor!NotTurns, Supervisor!IInv, NEW r \in Turn,
         \/ Supervisor!Acquire(r) \/ Supervisor!AcquireSucceeds(r) \/ Supervisor!AcquireRefused(r)
         \/ Supervisor!AcquireTimesOut(r) \/ Supervisor!AcquireCancelled(r)
  PROVE  Supervisor!IInv'
<1>1. /\ Supervisor!TypeOK /\ Supervisor!Made /\ Supervisor!ProofHolds
      /\ turn \in [Turn -> Supervisor!TurnState] /\ turn[r] \in Supervisor!TurnState
      /\ agent \in Supervisor!AgentState /\ agent.made \in Nat /\ agent.late \in Nat
  BY DEF Supervisor!IInv, Supervisor!TypeOK, Supervisor!AgentState
<1>2. /\ ~holding /\ process \in {"supervising", "draining"}
      /\ turn[r].pc \in {"acquire", "acquiring"} /\ turn[r].session = 0
      /\ UNCHANGED <<single, process, holding, serial, pending, idle, prewarming, caller>>
  BY <1>1 DEF Supervisor!Acquire, Supervisor!AcquireSucceeds, Supervisor!AcquireRefused,
     Supervisor!AcquireTimesOut, Supervisor!AcquireCancelled, Supervisor!Runs, Supervisor!config,
     Supervisor!Made
<1> DEFINE s == agent.made + 1
           o == Supervisor!Opened(agent, s)
           without(a) == [a EXCEPT !.calls = @ \ {r}]
<1>3. /\ o \in Supervisor!AgentState /\ o.made = s /\ o.late = agent.late /\ o.calls = agent.calls
      /\ o.prompting \subseteq agent.prompting /\ s \in o.open
      /\ ~single => agent.open \subseteq o.open
  BY <1>1, AnotherOpened
<1> HIDE DEF o
<1>4. \A a \in Supervisor!AgentState :
        /\ without(a) \in Supervisor!AgentState /\ without(a).made = a.made
        /\ without(a).prompting = a.prompting /\ without(a).open = a.open
        /\ without(a).late = a.late /\ without(a).calls \subseteq a.calls
  BY DEF Supervisor!AgentState
<1>5. CASE Supervisor!AcquireRefused(r)
  <2>1. Supervisor!Fails(r, FALSE) /\ (agent' = without(agent) \/ agent' = without(o))
    BY <1>5 DEF Supervisor!AcquireRefused, Supervisor!NextSession, o
  <2> HIDE DEF without
  <2>2. /\ agent' \in Supervisor!AgentState /\ agent'.made >= agent.made
        /\ agent'.prompting \subseteq agent.prompting
        /\ ~single => agent.open \subseteq agent'.open
        /\ agent'.calls \subseteq agent.calls \cup {r} /\ agent'.late = agent.late
    BY <1>1, <1>3, <1>4, <2>1
  <2> QED BY <1>2, <2>1, <2>2, FailKeeps
<1>6. CASE Supervisor!AcquireTimesOut(r) \/ Supervisor!AcquireCancelled(r)
  <2>1. PICK retire \in BOOLEAN : Supervisor!Fails(r, retire) /\ (single => retire)
    BY <1>1, <1>6 DEF Supervisor!AcquireTimesOut, Supervisor!AcquireCancelled, Supervisor!TypeOK
  <2>2. agent' = [without(agent) EXCEPT !.late = @ + 1]
    BY <1>1, <1>6 DEF Supervisor!AcquireTimesOut, Supervisor!AcquireCancelled,
       Supervisor!Abandoned, Supervisor!AgentState
  <2> HIDE DEF without
  <2>3. /\ agent' \in Supervisor!AgentState /\ agent'.made = agent.made
        /\ agent'.prompting = agent.prompting /\ agent'.open = agent.open
        /\ agent'.calls \subseteq agent.calls \cup {r}
    BY <1>1, <1>4, <2>2 DEF Supervisor!AgentState
  <2>4. agent'.made >= agent.made
    BY <1>1, <2>3
  <2> QED BY <1>2, <2>1, <2>3, <2>4, FailKeeps
<1>7. CASE Supervisor!Acquire(r)
  <2>1. CASE Supervisor!Fails(r, FALSE) /\ UNCHANGED agent
    <3>1. /\ agent' \in Supervisor!AgentState /\ agent'.made >= agent.made
          /\ agent'.prompting \subseteq agent.prompting /\ agent.open \subseteq agent'.open
          /\ agent'.calls \subseteq agent.calls \cup {r} /\ agent'.late = agent.late
      BY <1>1, <2>1
    <3> QED BY <1>2, <2>1, <3>1, FailKeeps
  <2>2. CASE /\ turn' = [turn EXCEPT ![r].pc = "acquiring"]
             /\ agent' = [agent EXCEPT !.calls = @ \cup {r}] /\ UNCHANGED <<channel, reply>>
    <3> DEFINE x == [turn[r] EXCEPT !.pc = "acquiring"]
               y == reply[r]
    <3>1. /\ x \in Supervisor!TurnState /\ x.pc = "acquiring" /\ x.session = turn[r].session
          /\ turn' = [turn EXCEPT ![r] = x]
      BY <1>1, <2>2, Reached
    <3>2. /\ y \in [decision : {"none", "ok", "error"}, cleanup : {"none", "proven", "unproven"}]
          /\ reply' = [reply EXCEPT ![r] = y] /\ y.cleanup # "proven"
      BY <1>1, <1>2, <2>2 DEF Supervisor!TypeOK, Supervisor!ProofHolds
    <3>3. /\ agent' \in Supervisor!AgentState /\ agent'.made >= agent.made
          /\ agent'.prompting = agent.prompting /\ agent'.open = agent.open
          /\ agent'.late = agent.late /\ agent'.calls \subseteq agent.calls \cup {r}
      BY <1>1, <2>2 DEF Supervisor!AgentState
    <3>4. /\ Supervisor!Alive(r) /\ x.session = 0
          /\ x.pc \notin Supervisor!Prompting \cup {"acquired", "none", "queued", "ended"}
      BY <1>2, <3>1 DEF Supervisor!Alive, Supervisor!Prompting
    <3>5. /\ agent'.prompting \subseteq agent.prompting \cup ({x.session} \ {0})
          /\ agent.open \ {turn[r].session} \subseteq agent'.open /\ channel' = channel
      BY <2>2, <3>3
    <3> HIDE DEF x, y
    <3> QED BY <1>2, <3>1, <3>2, <3>3, <3>4, <3>5, TaskKeeps
  <2> QED BY <1>7, <2>1, <2>2 DEF Supervisor!Acquire
<1>8. CASE Supervisor!AcquireSucceeds(r)
  <2> DEFINE n == without(o)
  <2>1. /\ n \in Supervisor!AgentState /\ n.made = s /\ n.late = agent.late
        /\ n.calls \subseteq agent.calls /\ n.prompting \subseteq agent.prompting /\ s \in n.open
        /\ ~single => agent.open \subseteq n.open
    BY <1>3, <1>4
  <2>2. \/ /\ turn' = [turn EXCEPT ![r].pc = "closing", ![r].session = s, ![r].result = "error"]
           /\ agent' = n
        \/ /\ turn' = [turn EXCEPT ![r].session = s,
                ![r].pc = IF kind[r] = "resume" THEN "acquired" ELSE Supervisor!StartsPrompt(r)]
           /\ agent' = IF kind[r] = "resume" THEN n ELSE [n EXCEPT !.prompting = @ \cup {s}]
    BY <1>8 DEF Supervisor!AcquireSucceeds, Supervisor!NextSession, o
  <2>3. UNCHANGED <<channel, reply>>
    BY <1>8 DEF Supervisor!AcquireSucceeds
  <2> HIDE DEF n, s
  <2>4. s \in Nat /\ s # 0 /\ s = agent.made + 1
    BY <1>1 DEF s
  <2>5. PICK p \in Supervisor!Prompting \cup {"acquired", "closing"},
             w \in {"none", "ok", "error"} :
          /\ turn' = [turn EXCEPT ![r] = [turn[r] EXCEPT !.pc = p, !.session = s, !.result = w]]
          /\ agent' = n
               \/ (p \in Supervisor!Prompting /\ agent' = [n EXCEPT !.prompting = @ \cup {s}])
    <3>1. turn[r].result \in {"none", "ok", "error"}
      BY <1>1 DEF Supervisor!TurnState
    <3>2. Supervisor!StartsPrompt(r) \in Supervisor!Prompting
      BY DEF Supervisor!StartsPrompt, Supervisor!Prompting
    <3>3. CASE /\ turn' = [turn EXCEPT ![r].pc = "closing", ![r].session = s, ![r].result = "error"]
               /\ agent' = n
      BY <1>1, <3>3
    <3>4. ASSUME NEW p,
                 turn' = [turn EXCEPT ![r].session = s, ![r].pc = p]
          PROVE  turn' = [turn EXCEPT ![r] = [turn[r] EXCEPT !.pc = p, !.session = s,
                                                             !.result = turn[r].result]]
      <4>1. [[turn[r] EXCEPT !.session = s] EXCEPT !.pc = p] =
              [turn[r] EXCEPT !.pc = p, !.session = s, !.result = turn[r].result]
        BY <1>1 DEF Supervisor!TurnState
      <4>2. turn' = [turn EXCEPT ![r] = [[turn[r] EXCEPT !.session = s] EXCEPT !.pc = p]]
        BY <1>1, <3>4
      <4> QED BY <4>1, <4>2
    <3>5. CASE /\ turn' = [turn EXCEPT ![r].session = s, ![r].pc = "acquired"]
               /\ agent' = n
      BY <3>1, <3>4, <3>5
    <3>6. CASE /\ turn' = [turn EXCEPT ![r].session = s, ![r].pc = Supervisor!StartsPrompt(r)]
               /\ agent' = [n EXCEPT !.prompting = @ \cup {s}]
      BY <3>1, <3>2, <3>4, <3>6
    <3> QED BY <2>2, <3>3, <3>5, <3>6
  <2> DEFINE x == [turn[r] EXCEPT !.pc = p, !.session = s, !.result = w]
             y == reply[r]
  <2>6. x \in Supervisor!TurnState /\ x.pc = p /\ x.session = s
    BY <1>1, <2>4 DEF Supervisor!TurnState
  <2>7. /\ y \in [decision : {"none", "ok", "error"}, cleanup : {"none", "proven", "unproven"}]
        /\ reply' = [reply EXCEPT ![r] = y] /\ y.cleanup # "proven"
    BY <1>1, <1>2, <2>3 DEF Supervisor!TypeOK, Supervisor!ProofHolds
  <2>8. /\ agent' \in Supervisor!AgentState /\ agent'.made = s /\ agent'.late = agent.late
        /\ agent'.calls \subseteq agent.calls /\ s \in agent'.open
        /\ ~single => agent.open \subseteq agent'.open
        /\ agent'.prompting \subseteq agent.prompting \cup {s}
        /\ agent' = n \/ p \in Supervisor!Prompting
    BY <2>1, <2>4, <2>5 DEF Supervisor!AgentState
  <2>9. s \notin agent.prompting
    BY <1>1, <2>4 DEF Supervisor!Made
  <2>10. p = "acquired" => s \notin agent'.prompting
    BY <2>1, <2>8, <2>9 DEF Supervisor!Prompting
  <2>11. Supervisor!Alive(r) /\ p \notin {"none", "queued", "acquire", "acquiring", "ended"}
    BY <1>2 DEF Supervisor!Alive, Supervisor!Prompting
  <2>12. turn' = [turn EXCEPT ![r] = x]
    BY <2>5
  <2> HIDE DEF x, y
  <2> QED BY <1>2, <2>3, <2>4, <2>6, <2>7, <2>8, <2>10, <2>11, <2>12, TaskKeeps
<1> QED BY <1>5, <1>6, <1>7, <1>8

\* The task works in its session, and closes it.
LEMMA WorksKeep ==
  ASSUME Supervisor!NotTurns, Supervisor!IInv, NEW r \in Turn,
         \/ Supervisor!Begin(r) \/ Supervisor!PromptGivenUp(r) \/ Supervisor!DecisionInvalid(r)
         \/ Supervisor!AnswerUnusable(r) \/ Supervisor!DecisionValid(r)
         \/ Supervisor!TurnAnswered(r)
  PROVE  Supervisor!IInv'
<1>1. /\ Supervisor!TypeOK /\ turn \in [Turn -> Supervisor!TurnState]
      /\ turn[r] \in Supervisor!TurnState /\ agent \in Supervisor!AgentState
      /\ reply[r].decision \in {"none", "ok", "error"} /\ agent.made \in Nat
      /\ turn[r].session \in Nat
      /\ reply \in [Turn -> [decision : {"none", "ok", "error"},
                             cleanup : {"none", "proven", "unproven"}]]
  BY DEF Supervisor!IInv, Supervisor!TypeOK, Supervisor!TurnState, Supervisor!AgentState
<1>2. /\ ~holding /\ process \in {"supervising", "draining"}
      /\ turn[r].pc \in Supervisor!Prompting \cup {"acquired"}
      /\ UNCHANGED <<single, process, holding, serial, pending, idle, prewarming, caller>>
  BY DEF Supervisor!Begin, Supervisor!PromptGivenUp, Supervisor!DecisionInvalid,
     Supervisor!AnswerUnusable, Supervisor!DecisionValid, Supervisor!TurnAnswered,
     Supervisor!Runs, Supervisor!config, Supervisor!Prompting
<1>3. CASE Supervisor!Begin(r) /\ Supervisor!Fails(r, FALSE) /\ UNCHANGED agent
  <2>1. turn[r].pc = "acquired"
    BY <1>3 DEF Supervisor!Begin, Supervisor!Runs
  <2>2. /\ agent' \in Supervisor!AgentState /\ agent'.made >= agent.made
        /\ agent'.prompting \subseteq agent.prompting /\ agent.open \subseteq agent'.open
        /\ agent'.calls \subseteq agent.calls \cup {r} /\ agent'.late = agent.late
    BY <1>1, <1>3
  <2> QED BY <1>2, <1>3, <2>1, <2>2, FailKeeps
\* All the others.
<1>4. ASSUME NEW q \in Supervisor!Prompting \cup {"closing"}, NEW w \in {"none", "ok", "error"},
             NEW p \in SUBSET (agent.prompting \cup {turn[r].session}),
             NEW d \in {"none", "ok", "error"}, UNCHANGED channel,
             turn' = [turn EXCEPT ![r].pc = q, ![r].result = w],
             agent' = [agent EXCEPT !.prompting = p], reply' = [reply EXCEPT ![r].decision = d]
      PROVE  Supervisor!IInv'
  <2> DEFINE x == [turn[r] EXCEPT !.pc = q, !.result = w]
  <2>1. x \in Supervisor!TurnState /\ x.pc = q /\ x.session = turn[r].session
    BY <1>1 DEF Supervisor!TurnState
  <2>2. turn' = [turn EXCEPT ![r] = x]
    BY <1>1, <1>4
  <2> HIDE DEF x
  <2> QED BY <1>2, <1>4, <2>1, <2>2, WorkKeeps
<1>5. /\ agent = [agent EXCEPT !.prompting = agent.prompting]
      /\ reply = [reply EXCEPT ![r].decision = reply[r].decision]
      /\ turn[r].result \in {"none", "ok", "error"}
      /\ agent.prompting \in SUBSET (agent.prompting \cup {turn[r].session})
      /\ agent.prompting \ {turn[r].session} \in SUBSET (agent.prompting \cup {turn[r].session})
  BY <1>1 DEF Supervisor!AgentState, Supervisor!TurnState
<1>6. \A q : [turn EXCEPT ![r].pc = q] = [turn EXCEPT ![r].pc = q, ![r].result = turn[r].result]
  <2> SUFFICES ASSUME NEW q
               PROVE  [turn EXCEPT ![r].pc = q] =
                        [turn EXCEPT ![r].pc = q, ![r].result = turn[r].result]
    OBVIOUS
  <2>1. [turn[r] EXCEPT !.pc = q] = [turn[r] EXCEPT !.pc = q, !.result = turn[r].result]
    BY <1>1 DEF Supervisor!TurnState
  <2>2. [turn EXCEPT ![r].pc = q] = [turn EXCEPT ![r] = [turn[r] EXCEPT !.pc = q]]
    BY <1>1
  <2>3. [turn EXCEPT ![r].pc = q, ![r].result = turn[r].result] =
          [turn EXCEPT ![r] = [turn[r] EXCEPT !.pc = q, !.result = turn[r].result]]
    BY <1>1
  <2> QED BY <2>1, <2>2, <2>3
<1>7. "closing" \in Supervisor!Prompting \cup {"closing"}
  OBVIOUS
<1>8. CASE Supervisor!Begin(r) /\ turn[r].cancelled /\ kind[r] # "prompt"
  <2> DEFINE d == IF kind[r] = "staged" THEN "error" ELSE reply[r].decision
  <2>1. /\ turn' = [turn EXCEPT ![r].pc = "closing", ![r].result = "error"]
        /\ reply' = [reply EXCEPT ![r].decision = d]
        /\ UNCHANGED <<agent, channel>>
    BY <1>1, <1>8 DEF Supervisor!Begin
  <2>2. d \in {"none", "ok", "error"}
    BY <1>1
  <2> HIDE DEF d
  <2> QED BY <1>4, <1>5, <1>7, <2>1, <2>2
<1>9. CASE Supervisor!Begin(r) /\ ~turn[r].cancelled
  <2>1. /\ turn' = [turn EXCEPT ![r].pc = Supervisor!StartsPrompt(r)]
        /\ agent' = [agent EXCEPT !.prompting = agent.prompting \cup {turn[r].session}]
        /\ UNCHANGED <<channel, reply>>
    BY <1>1, <1>9 DEF Supervisor!Begin, Supervisor!AgentState
  <2>2. Supervisor!StartsPrompt(r) \in Supervisor!Prompting
    BY DEF Supervisor!StartsPrompt, Supervisor!Prompting
  <2>3. turn' = [turn EXCEPT ![r].pc = Supervisor!StartsPrompt(r), ![r].result = turn[r].result]
    BY <1>6, <2>1
  <2>4. agent.prompting \cup {turn[r].session} \in SUBSET (agent.prompting \cup {turn[r].session})
    OBVIOUS
  <2> QED BY <1>1, <1>4, <1>5, <2>1, <2>2, <2>3, <2>4
<1>10. CASE Supervisor!PromptGivenUp(r)
  <2>1. /\ turn' = [turn EXCEPT ![r].pc = "closing", ![r].result = "error"]
        /\ UNCHANGED <<channel, reply, agent>>
    BY <1>10 DEF Supervisor!PromptGivenUp, Supervisor!NowClosing
  <2> QED BY <1>1, <1>4, <1>5, <1>7, <2>1
<1>11. CASE Supervisor!DecisionInvalid(r)
  <2>1. turn' = [turn EXCEPT ![r].pc = "repairing"] /\ UNCHANGED <<channel, reply, agent>>
    BY <1>11 DEF Supervisor!DecisionInvalid
  <2>2. "repairing" \in Supervisor!Prompting
    BY DEF Supervisor!Prompting
  <2>3. turn' = [turn EXCEPT ![r].pc = "repairing", ![r].result = turn[r].result]
    BY <1>6, <2>1
  <2>4. /\ agent' = [agent EXCEPT !.prompting = agent.prompting] /\ UNCHANGED channel
        /\ reply' = [reply EXCEPT ![r].decision = reply[r].decision]
        /\ "repairing" \in Supervisor!Prompting \cup {"closing"}
    BY <1>5, <2>1, <2>2
  <2> QED BY <1>1, <1>4, <1>5, <2>3, <2>4
<1>12. CASE Supervisor!AnswerUnusable(r) \/ Supervisor!TurnAnswered(r)
  <2>1. PICK w \in {"error", "ok"} : turn' = [turn EXCEPT ![r].pc = "closing", ![r].result = w]
    BY <1>12 DEF Supervisor!AnswerUnusable, Supervisor!TurnAnswered, Supervisor!NowClosing
  <2>2. /\ agent' = [agent EXCEPT !.prompting = agent.prompting \ {turn[r].session}]
        /\ UNCHANGED <<channel, reply>>
    BY <1>1, <1>12 DEF Supervisor!AnswerUnusable, Supervisor!TurnAnswered, Supervisor!Quiet,
       Supervisor!AgentState
  <2> QED BY <1>1, <1>4, <1>5, <1>7, <2>1, <2>2
<1>13. CASE Supervisor!DecisionValid(r)
  <2>1. CASE /\ turn' = [turn EXCEPT ![r].pc = "closing", ![r].result = "error"]
             /\ agent' = [agent EXCEPT !.prompting = agent.prompting \ {turn[r].session}]
             /\ UNCHANGED <<channel, reply>>
    BY <1>1, <1>4, <1>5, <1>7, <2>1
  <2>2. CASE /\ turn' = [turn EXCEPT ![r].pc = "enriching"]
             /\ reply' = [reply EXCEPT ![r].decision = "ok"] /\ UNCHANGED <<agent, channel>>
    <3>1. turn' = [turn EXCEPT ![r].pc = "enriching", ![r].result = turn[r].result]
      BY <1>6, <2>2
    <3>2. "enriching" \in Supervisor!Prompting
      BY DEF Supervisor!Prompting
    <3>3. /\ agent' = [agent EXCEPT !.prompting = agent.prompting] /\ UNCHANGED channel
          /\ "enriching" \in Supervisor!Prompting \cup {"closing"}
      BY <1>5, <2>2, <3>2
    <3> DEFINE d == "ok"
    <3>4. d \in {"none", "ok", "error"} /\ reply' = [reply EXCEPT ![r].decision = d]
      BY <2>2
    <3> HIDE DEF d
    <3> QED BY <1>4, <1>5, <3>1, <3>3, <3>4
  <2> QED BY <1>1, <1>13, <2>1, <2>2 DEF Supervisor!DecisionValid, Supervisor!NowClosing,
      Supervisor!Quiet, Supervisor!AgentState
<1> QED BY <1>3, <1>8, <1>9, <1>10, <1>11, <1>12, <1>13 DEF Supervisor!Begin

\* The session is closed, or its closing was not confirmed: what the caller is told.
LEMMA ClosesKeep ==
  ASSUME Supervisor!NotTurns, Supervisor!IInv, NEW r \in Turn,
         Supervisor!SessionClosed(r) \/ Supervisor!SessionUnconfirmed(r)
  PROVE  Supervisor!IInv'
<1>1. /\ Supervisor!TypeOK /\ turn \in [Turn -> Supervisor!TurnState]
      /\ turn[r] \in Supervisor!TurnState /\ agent \in Supervisor!AgentState
      /\ reply[r].decision \in {"none", "ok", "error"} /\ agent.made \in Nat
      /\ turn[r].session \in Nat /\ turn[r].result \in {"none", "ok", "error"}
      /\ reply \in [Turn -> [decision : {"none", "ok", "error"},
                             cleanup : {"none", "proven", "unproven"}]]
  BY DEF Supervisor!IInv, Supervisor!TypeOK, Supervisor!TurnState, Supervisor!AgentState
<1>2. /\ ~holding /\ process \in {"supervising", "draining"} /\ turn[r].pc = "closing"
      /\ UNCHANGED <<single, process, holding, serial, pending, idle, prewarming, caller>>
      /\ channel' = channel /\ turn' = [turn EXCEPT ![r].pc = "ended"]
  BY DEF Supervisor!SessionClosed, Supervisor!SessionUnconfirmed, Supervisor!Runs,
     Supervisor!config, Supervisor!Ends
<1> DEFINE x == [turn[r] EXCEPT !.pc = "ended"]
           d == IF reply[r].decision # "none" THEN reply[r].decision ELSE turn[r].result
<1>3. /\ x \in Supervisor!TurnState /\ x.pc = "ended" /\ x.session = turn[r].session
      /\ turn' = [turn EXCEPT ![r] = x] /\ d \in {"none", "ok", "error"}
  BY <1>1, <1>2, Reached
<1>4. PICK y \in [decision : {"none", "ok", "error"}, cleanup : {"none", "proven", "unproven"}] :
        /\ reply' = [reply EXCEPT ![r] = y]
        /\ y.cleanup = "proven" => Supervisor!SessionClosed(r)
        /\ y.cleanup = "unproven" => Supervisor!SessionUnconfirmed(r)
  <2>1. CASE Supervisor!SessionClosed(r)
    <3> DEFINE y == [decision |-> d, cleanup |-> "proven"]
    <3>1. reply' = [reply EXCEPT ![r] = y]
      BY <1>1, <2>1 DEF Supervisor!SessionClosed, Supervisor!Answer
    <3>2. y \in [decision : {"none", "ok", "error"}, cleanup : {"none", "proven", "unproven"}]
      BY <1>3
    <3> QED BY <2>1, <3>1, <3>2
  <2>2. CASE Supervisor!SessionUnconfirmed(r)
    <3> DEFINE y == [decision |-> d, cleanup |-> "unproven"]
    <3>1. reply' = [reply EXCEPT ![r] = y]
      BY <1>1, <2>2 DEF Supervisor!SessionUnconfirmed, Supervisor!Answer
    <3>2. y \in [decision : {"none", "ok", "error"}, cleanup : {"none", "proven", "unproven"}]
      BY <1>3
    <3> QED BY <2>2, <3>1, <3>2
  <2> QED BY <2>1, <2>2
<1> HIDE DEF x, d
<1>5. /\ agent' \in Supervisor!AgentState /\ agent'.made = agent.made /\ agent'.late = agent.late
      /\ agent'.calls = agent.calls /\ agent'.prompting \subseteq agent.prompting
      /\ agent.open \ {turn[r].session} \subseteq agent'.open /\ agent'.made >= agent.made
      /\ Supervisor!SessionClosed(r) => turn[r].session \notin agent'.prompting
  <2>1. CASE Supervisor!SessionClosed(r)
    <3> DEFINE o == agent.open \ {turn[r].session}
               p == agent.prompting \ {turn[r].session}
    <3>1. agent' = [agent EXCEPT !.open = o, !.prompting = p]
      BY <1>1, <2>1 DEF Supervisor!SessionClosed, Supervisor!AgentState
    <3>2. o \in SUBSET Nat /\ p \in SUBSET Nat /\ p \subseteq agent.prompting /\
            turn[r].session \notin p
      BY <1>1 DEF Supervisor!AgentState
    <3> HIDE DEF o, p
    <3>3. /\ agent' \in Supervisor!AgentState /\ agent'.made = agent.made /\
               agent'.late = agent.late
          /\ agent'.calls = agent.calls /\ agent'.prompting = p /\ agent'.open = o
      BY <1>1, <3>1, <3>2 DEF Supervisor!AgentState
    <3> QED BY <1>1, <3>2, <3>3 DEF o
  <2>2. CASE UNCHANGED agent /\ ~Supervisor!SessionClosed(r)
    BY <1>1, <2>2
  <2> QED BY <2>1, <2>2 DEF Supervisor!SessionUnconfirmed
<1>6. Supervisor!Alive(r) /\ x.pc \notin Supervisor!Prompting
        \cup {"acquired", "acquire", "acquiring"}
  BY <1>2, <1>3 DEF Supervisor!Alive, Supervisor!Prompting
<1> QED BY <1>1, <1>2, <1>3, <1>4, <1>5, <1>6, TaskKeeps

\* What the loop does with a command or a queued turn: the turn it takes up ends or goes to
\* its task, with a session that was free; with one session, only when no other has it.
LEMMA LoopKeeps ==
  ASSUME Supervisor!IInv, Supervisor!WaitsOnce', process = "supervising", NEW r \in Turn,
         UNCHANGED <<single, process, caller>>,
         serial' \in Seq(Turn), pending' \in Seq(Turn), holding' \in BOOLEAN,
         prewarming' \in BOOLEAN,
         channel' \in Seq(Supervisor!Commands), idle' \in Nat,
         Supervisor!Range(channel') \subseteq Supervisor!Range(channel),
         single /\ Supervisor!Stops(channel) => Supervisor!Stops(channel'),
         single /\ Supervisor!Stops(channel) /\ ~Supervisor!Alive(r) => holding',
         single /\ Supervisor!Stops(channel) /\ holding /\ turn[r].pc = "acquire" => holding',
         Supervisor!Ready(channel') \cup ({idle'} \ {0})
           \subseteq Supervisor!Ready(channel) \cup ({idle} \ {0}),
         idle' # 0 => idle' \notin Supervisor!Ready(channel'),
         NEW x \in Supervisor!TurnState, turn' = [turn EXCEPT ![r] = x],
         \/ x.pc = turn[r].pc /\ x.session = turn[r].session
         \/ /\ turn[r].pc = "queued" /\ x.pc \in {"ended", "acquire", "acquired"}
            /\ x.pc = "acquired" <=> x.session # 0
            /\ x.session # 0 => /\ x.session \in Supervisor!Ready(channel) \cup {idle}
                                /\ x.session \notin Supervisor!Ready(channel') \cup {idle'}
            /\ x.pc # "ended" /\ single => Supervisor!Free,
         \/ reply' = reply
         \/ x.pc = "ended" /\ x.session = 0 /\ turn[r].pc = "queued"
              /\ reply' = [reply EXCEPT ![r] = Supervisor!WithoutSession],
         agent' \in Supervisor!AgentState, agent'.made = agent.made, agent'.late = agent.late,
         agent'.prompting = agent.prompting, single => agent'.calls = agent.calls,
         \A s \in agent.open \ agent'.open :
           /\ s \in Supervisor!Ready(channel) /\ s \notin Supervisor!Ready(channel')
           /\ s # idle' /\ x.session = turn[r].session
  PROVE  Supervisor!IInv'
<1>1. /\ Supervisor!TypeOK /\ Supervisor!OneOwner /\ Supervisor!Made
      /\ Supervisor!Opens /\ Supervisor!OneAtATime /\ Supervisor!ProofHolds
  BY DEF Supervisor!IInv
<1>2. /\ \A q \in Turn \ {r} : turn'[q] = turn[q] /\ reply'[q] = reply[q]
      /\ turn'[r] = x
      /\ turn' \in [Turn -> Supervisor!TurnState]
      /\ reply' \in [Turn -> [decision : {"none", "ok", "error"},
                              cleanup : {"none", "proven", "unproven"}]]
  <2>1. turn' \in [Turn -> Supervisor!TurnState] /\ turn'[r] = x
        /\ \A q \in Turn \ {r} : turn'[q] = turn[q]
    BY <1>1 DEF Supervisor!TypeOK
  <2>2. Supervisor!WithoutSession \in [decision : {"none", "ok", "error"},
                                      cleanup : {"none", "proven", "unproven"}]
    BY DEF Supervisor!WithoutSession
  <2>3. reply \in [Turn -> [decision : {"none", "ok", "error"},
                            cleanup : {"none", "proven", "unproven"}]]
    BY <1>1 DEF Supervisor!TypeOK
  <2>4. reply' = reply \/ reply' = [reply EXCEPT ![r] = Supervisor!WithoutSession]
    OBVIOUS
  <2> QED BY <2>1, <2>2, <2>3, <2>4
<1>3. /\ channel \in Seq(Supervisor!Commands) /\ x.session \in Nat /\ idle \in Nat
      /\ agent.made \in Nat /\ \A q \in Turn : turn[q].session \in Nat
  BY <1>1 DEF Supervisor!TypeOK, Supervisor!AgentState, Supervisor!TurnState
<1>4. turn[r].pc = "queued" => turn[r].session = 0
  BY <1>1 DEF Supervisor!Made
<1> DEFINE F == Supervisor!Ready(channel) \cup ({idle} \ {0})
           G == Supervisor!Ready(channel') \cup ({idle'} \ {0})
<1>5. /\ G \subseteq F /\ 0 \notin F /\ \A q \in Turn : turn[q].session \notin F
      /\ \A s \in F : s <= agent.made /\ s \notin agent.prompting /\ s \in agent.open
  BY <1>1, <1>3, ReadyAre DEF Supervisor!OneOwner, Supervisor!Made, Supervisor!Opens,
     Supervisor!Held
<1>6. /\ x.session = turn[r].session \/ x.session = 0 \/ x.session \in F
      /\ x.session \notin G
  BY <1>3, <1>5
<1>7. Supervisor!TypeOK'
  BY <1>1, <1>2 DEF Supervisor!TypeOK
<1>8. Supervisor!OneOwner'
  <2>1. \A p, q \in Turn : turn'[p].session = turn'[q].session /\ turn'[p].session # 0 => p = q
    <3> SUFFICES ASSUME NEW p \in Turn, NEW q \in Turn, turn'[p].session = turn'[q].session,
                        turn'[p].session # 0
                 PROVE  p = q
      OBVIOUS
    <3>1. CASE p # r /\ q # r
      BY <1>1, <1>2, <3>1 DEF Supervisor!OneOwner
    <3>2. CASE p = r \/ q = r
      BY <1>1, <1>2, <1>5, <1>6, <3>2 DEF Supervisor!OneOwner
    <3> QED BY <3>1, <3>2
  <2>2. \A s \in G : ~Supervisor!Held(s)'
    BY <1>2, <1>5, <1>6 DEF Supervisor!Held
  <2>3. idle' # 0 => idle' \in G
    OBVIOUS
  <2>4. Supervisor!Ready(channel') \subseteq G
    OBVIOUS
  <2> HIDE DEF G
  <2> QED BY <2>1, <2>2, <2>3, <2>4 DEF Supervisor!OneOwner, Supervisor!Held
<1>9. Supervisor!Made'
  <2>1. \A q \in Turn : turn'[q].session <= agent.made
    BY <1>1, <1>2, <1>3, <1>5, <1>6 DEF Supervisor!Made
  <2>2. 0 <= agent.made /\ 0 \notin agent.prompting
    BY <1>1, <1>3 DEF Supervisor!Made
  <2>3. \A s \in Supervisor!Ready(channel') \cup {idle'} : s = 0 \/ s \in F
    BY <1>5
  <2>4. ASSUME NEW q \in Turn
        PROVE  /\ turn'[q].pc \in {"none", "queued", "acquire", "acquiring"} => turn'[q].session = 0
               /\ turn'[q].pc \in Supervisor!Prompting \cup {"acquired"} => turn'[q].session # 0
               /\ turn'[q].pc = "acquired" => turn'[q].session \notin agent.prompting
    <3>1. CASE q # r
      BY <1>1, <1>2, <3>1 DEF Supervisor!Made
    <3>2. CASE q = r /\ x.pc = turn[r].pc /\ x.session = turn[r].session
      BY <1>1, <1>2, <3>2 DEF Supervisor!Made
    <3>3. CASE q = r /\ ~(x.pc = turn[r].pc /\ x.session = turn[r].session)
      BY <1>2, <1>4, <1>5, <1>6, <2>2, <3>3 DEF Supervisor!Prompting
    <3> QED BY <3>1, <3>2, <3>3
  <2>5. \A s \in agent.prompting : s # 0 /\ s <= agent.made
    BY <1>1 DEF Supervisor!Made
  <2> HIDE DEF F, G
  <2> QED BY <1>5, <2>1, <2>2, <2>3, <2>4, <2>5 DEF Supervisor!Made
<1>10. Supervisor!Opens'
  <2>1. \A s \in G : s \in agent'.open
    <3> SUFFICES ASSUME NEW s \in G PROVE s \in agent'.open
      OBVIOUS
    <3>1. s \in agent.open
      BY <1>5
    <3> QED BY <1>3, <3>1
  <2>2. ASSUME NEW q \in Turn, turn'[q].pc \in Supervisor!Prompting \cup {"acquired"}
        PROVE  turn'[q].session \in agent'.open
    <3>1. turn'[q].session \in agent.open
      <4>1. CASE q # r \/ (x.pc = turn[r].pc /\ x.session = turn[r].session)
        BY <1>1, <1>2, <2>2, <4>1 DEF Supervisor!Opens
      <4>2. CASE q = r /\ ~(x.pc = turn[r].pc /\ x.session = turn[r].session)
        <5>1. x.pc = "acquired" /\ x.session # 0 /\ turn[r].session = 0
          BY <1>2, <1>4, <2>2, <4>2 DEF Supervisor!Prompting
        <5>2. x.session \in F
          BY <1>6, <5>1
        <5> QED BY <1>2, <1>5, <4>2, <5>2
      <4> QED BY <4>1, <4>2
    <3>2. turn'[q].session \in Supervisor!Ready(channel) => x.session # turn[r].session
      BY <1>2, <1>5
    <3> QED BY <3>1, <3>2
  <2>3. Supervisor!Ready(channel') \cup ({idle'} \ {0}) = G
    OBVIOUS
  <2> HIDE DEF G
  <2> QED BY <2>1, <2>2, <2>3 DEF Supervisor!Opens
<1>11. Supervisor!OneAtATime'
  <2> SUFFICES ASSUME single
               PROVE  /\ idle' = 0 /\ "prewarm" \notin agent'.calls
                      /\ \A c \in Supervisor!Range(channel') : c.type # "prewarmed"
                      /\ \A p, q \in Turn : Supervisor!Alive(p)' /\ Supervisor!Alive(q)' => p = q
                      /\ agent'.late > 0 =>
                           /\ Supervisor!Stops(channel')
                           /\ \A q \in Turn : Supervisor!Alive(q)' => turn'[q].pc = "acquire" /\
                                holding'
    BY DEF Supervisor!OneAtATime
  <2>1. /\ idle = 0 /\ "prewarm" \notin agent.calls
        /\ \A c \in Supervisor!Range(channel) : c.type # "prewarmed"
        /\ \A p, q \in Turn : Supervisor!Alive(p) /\ Supervisor!Alive(q) => p = q
        /\ agent.late > 0 =>
             Supervisor!Stops(channel)
               /\ \A q \in Turn : Supervisor!Alive(q) => turn[q].pc = "acquire" /\ holding
    BY <1>1 DEF Supervisor!OneAtATime
  <2>2. Supervisor!Ready(channel) = {}
    BY <2>1 DEF Supervisor!Ready
  <2>3. idle' = 0 /\ "prewarm" \notin agent'.calls /\
          \A c \in Supervisor!Range(channel') : c.type # "prewarmed"
    BY <2>1, <2>2
  <2>4. \A q \in Turn \ {r} : Supervisor!Alive(q)' <=> Supervisor!Alive(q)
    BY <1>2 DEF Supervisor!Alive
  <2>5. CASE x.pc = turn[r].pc /\ x.session = turn[r].session
    <3>1. Supervisor!Alive(r)' <=> Supervisor!Alive(r)
      BY <1>2, <2>5 DEF Supervisor!Alive
    <3>2. \A q \in Turn : turn'[q].pc = turn[q].pc
      BY <1>2, <2>5
    <3>3. ASSUME agent.late > 0, NEW q \in Turn, Supervisor!Alive(q) PROVE holding'
      <4>1. Supervisor!Stops(channel) /\ turn[q].pc = "acquire" /\ holding
        BY <2>1, <3>3
      <4>2. CASE Supervisor!Alive(r)
        BY <2>1, <3>3, <4>1, <4>2
      <4>3. CASE ~Supervisor!Alive(r)
        BY <4>1, <4>3
      <4> QED BY <4>2, <4>3
    <3> QED BY <2>1, <2>3, <2>4, <3>1, <3>2, <3>3
  <2>6. CASE x.pc = "ended" /\ turn[r].pc = "queued"
    <3>1. ~Supervisor!Alive(r)' /\ ~Supervisor!Alive(r)
      BY <1>2, <2>6 DEF Supervisor!Alive
    <3> QED BY <1>2, <2>1, <2>3, <2>4, <3>1
  <2>7. CASE x.pc \in {"acquire", "acquired"} /\ turn[r].pc = "queued"
    <3>1. Supervisor!Free /\ ~Supervisor!Alive(r)
      BY <2>7 DEF Supervisor!Alive
    <3>2. \A q \in Turn : Supervisor!Alive(q)' => q = r
      BY <2>4, <3>1 DEF Supervisor!Free
    <3>3. x.pc = "acquire"
      BY <1>3, <2>1, <2>2, <2>7
    <3>4. agent.late > 0 => Supervisor!Stops(channel') /\ holding'
      BY <2>1, <3>1
    <3> QED BY <1>2, <2>3, <3>2, <3>3, <3>4
  <2> QED BY <2>5, <2>6, <2>7
<1>12. Supervisor!Between'
  BY DEF Supervisor!Between
<1>13. Supervisor!ProofHolds'
  <2> SUFFICES ASSUME NEW q \in Turn
               PROVE  /\ caller[q].pc = "idle" =>
                           turn'[q].pc = "none" /\ reply'[q].cleanup = "none" /\ ~caller[q].proven
                      /\ caller[q].proven => reply'[q].cleanup = "proven"
                      /\ reply'[q].cleanup = "proven" =>
                           turn'[q].pc = "ended" /\ turn'[q].session \notin agent.prompting
    BY DEF Supervisor!ProofHolds
  <2>1. CASE q # r
    BY <1>1, <1>2, <2>1 DEF Supervisor!ProofHolds
  <2>2. CASE q = r /\ x.pc = turn[r].pc /\ x.session = turn[r].session /\ reply' = reply
    BY <1>1, <1>2, <2>2 DEF Supervisor!ProofHolds
  <2>3. CASE q = r /\ turn[r].pc = "queued"
    <3>1. caller[r].pc # "idle" /\ reply[r].cleanup # "proven" /\ ~caller[r].proven
      BY <1>1, <2>3 DEF Supervisor!ProofHolds
    <3>2. 0 \notin agent.prompting
      BY <1>1 DEF Supervisor!Made
    <3> QED BY <1>2, <2>3, <3>1, <3>2
  <2> QED BY <2>1, <2>2, <2>3
<1> QED BY <1>7, <1>8, <1>9, <1>10, <1>11, <1>12, <1>13 DEF Supervisor!IInv

\* One command is handled: it is no longer in the channel, and a stop that is behind it
\* keeps the loop going.
LEMMA Handled ==
  ASSUME Supervisor!IInv, NEW command, Supervisor!Handles(command),
         command.type \notin {"io_closed", "shutdown"}
  PROVE  /\ process = "supervising" /\ UNCHANGED <<single, process>>
         /\ channel \in Seq(Supervisor!Commands)
         /\ channel' = Tail(channel) /\ channel' \in Seq(Supervisor!Commands)
         /\ Supervisor!Once(channel') /\ command \in Supervisor!Commands
         /\ Supervisor!Range(channel') \subseteq Supervisor!Range(channel)
         /\ Supervisor!QueuedIn(channel') \subseteq Supervisor!QueuedIn(channel)
         /\ Supervisor!Ready(channel') \subseteq Supervisor!Ready(channel)
         /\ Supervisor!Stops(channel) => Supervisor!Stops(channel') /\ channel' # <<>>
         /\ command.type = "turn" =>
              command.turn \in Supervisor!QueuedIn(channel) \ Supervisor!QueuedIn(channel')
         /\ command.type = "prewarmed" /\ command.session # 0 =>
              command.session \in Supervisor!Ready(channel) \ Supervisor!Ready(channel')
         /\ command \in Supervisor!Range(channel)
<1>1. /\ process = "supervising" /\ UNCHANGED <<single, process>>
      /\ channel # <<>> /\ Head(channel) = command /\ channel' = Tail(channel)
  BY DEF Supervisor!Handles, Supervisor!config
<1>2. channel \in Seq(Supervisor!Commands) /\ Supervisor!Once(channel)
  BY DEF Supervisor!IInv, Supervisor!TypeOK, Supervisor!WaitsOnce
<1> QED BY <1>1, <1>2, Taken, TakenParts

\* A loop with commands left goes on.
LEMMA LoopGoesOn ==
  ASSUME NEW c, NEW s, NEW t
  PROVE  /\ Supervisor!GoesOn(c, s, t) \in BOOLEAN
         /\ c # <<>> => Supervisor!GoesOn(c, s, t) = TRUE
BY DEF Supervisor!GoesOn

\* The turn that the loop takes up is no longer waiting; the others are where they were.
LEMMA NoLongerWaits ==
  ASSUME Supervisor!IInv, NEW r \in Turn, NEW x, turn' = [turn EXCEPT ![r] = x], single' = single,
         serial' \in Seq(Turn), pending' \in Seq(Turn), Supervisor!Once(channel'),
         Supervisor!IsInjective(serial'), Supervisor!IsInjective(pending'),
         Supervisor!Range(serial') \cup Supervisor!Range(pending')
           \subseteq Supervisor!Queues \ {r},
         Supervisor!QueuedIn(channel') \subseteq Supervisor!QueuedIn(channel) \ {r},
         IF single THEN pending' = <<>> ELSE serial' = <<>>
  PROVE  Supervisor!WaitsOnce'
<1>1. Supervisor!WaitsOnce /\ Supervisor!TypeOK
  BY DEF Supervisor!IInv
<1>2. \A q \in Turn \ {r} : turn'[q] = turn[q]
  BY <1>1 DEF Supervisor!TypeOK
<1>3. /\ Supervisor!QueuedIn(channel) \subseteq Turn
      /\ Supervisor!Queues \cap Supervisor!QueuedIn(channel) = {}
      /\ \A q \in Supervisor!Queues \cup Supervisor!QueuedIn(channel) : turn[q].pc = "queued"
  BY <1>1 DEF Supervisor!WaitsOnce
<1>4. Supervisor!Queues \subseteq Turn
  BY <1>1 DEF Supervisor!Queues, Supervisor!TypeOK, Supervisor!Range
<1>5. Supervisor!Queues' \subseteq Supervisor!Queues \ {r}
  BY DEF Supervisor!Queues
<1>6. \A q \in Supervisor!Queues' \cup Supervisor!QueuedIn(channel') : turn'[q].pc = "queued"
  BY <1>2, <1>3, <1>4, <1>5
<1>7. /\ Supervisor!QueuedIn(channel') \subseteq Turn
      /\ Supervisor!Queues' \cap Supervisor!QueuedIn(channel') = {}
  BY <1>3, <1>5
<1> QED BY <1>6, <1>7 DEF Supervisor!WaitsOnce

\* A waiting turn is rejected.
LEMMA DropKeeps ==
  ASSUME Supervisor!IInv, NEW r \in Turn, turn[r].pc = "queued", process = "supervising",
         UNCHANGED <<single, process, idle, caller>>,
         Supervisor!RejectAll({r}), Supervisor!Ended({r}),
         agent' = agent \/ (~single /\ agent' = [agent EXCEPT !.calls = @ \cup {"prewarm"}]),
         serial' \in Seq(Turn), pending' \in Seq(Turn), channel' \in Seq(Supervisor!Commands),
         Supervisor!Once(channel'), prewarming' \in BOOLEAN, holding' \in BOOLEAN,
         Supervisor!IsInjective(serial'), Supervisor!IsInjective(pending'),
         Supervisor!Range(serial') \cup Supervisor!Range(pending')
           \subseteq Supervisor!Queues \ {r},
         Supervisor!QueuedIn(channel') \subseteq Supervisor!QueuedIn(channel) \ {r},
         IF single THEN pending' = <<>> ELSE serial' = <<>>,
         Supervisor!Range(channel') \subseteq Supervisor!Range(channel),
         Supervisor!Ready(channel') \subseteq Supervisor!Ready(channel),
         Supervisor!Stops(channel) => Supervisor!Stops(channel') /\ holding'
  PROVE  Supervisor!IInv'
<1> DEFINE x == [turn[r] EXCEPT !.pc = "ended"]
<1>1. /\ turn \in [Turn -> Supervisor!TurnState] /\ turn[r] \in Supervisor!TurnState
      /\ agent \in Supervisor!AgentState /\ turn[r].session = 0 /\ idle \in Nat
      /\ idle # 0 => idle \notin Supervisor!Ready(channel)
      /\ reply \in [Turn -> [decision : {"none", "ok", "error"},
                             cleanup : {"none", "proven", "unproven"}]]
  BY DEF Supervisor!IInv, Supervisor!TypeOK, Supervisor!Made, Supervisor!OneOwner
<1>2. /\ x \in Supervisor!TurnState /\ x.pc = "ended" /\ x.session = 0
      /\ turn' = [turn EXCEPT ![r] = x]
      /\ reply' = [reply EXCEPT ![r] = Supervisor!WithoutSession]
  BY <1>1, Reached DEF Supervisor!RejectAll, Supervisor!Ended
<1>3. /\ agent' \in Supervisor!AgentState /\ agent'.made = agent.made /\ agent'.late = agent.late
      /\ agent'.prompting = agent.prompting /\ agent'.open = agent.open
      /\ single => agent'.calls = agent.calls
  <2>1. CASE agent' = agent
    BY <1>1, <2>1
  <2>2. CASE ~single /\ agent' = [agent EXCEPT !.calls = @ \cup {"prewarm"}]
    BY <1>1, <2>2 DEF Supervisor!AgentState
  <2> QED BY <2>1, <2>2
<1> HIDE DEF x
<1>4. Supervisor!WaitsOnce'
  BY <1>2, NoLongerWaits
<1>5. Supervisor!Ready(channel') \cup ({idle'} \ {0})
        \subseteq Supervisor!Ready(channel) \cup ({idle} \ {0})
  OBVIOUS
<1> QED BY <1>1, <1>2, <1>3, <1>4, <1>5, LoopKeeps

\* A turn is started, with the prepared session, or it asks for one, or it waits for the one
\* that is being prepared.
LEMMA StartsKeep ==
  ASSUME Supervisor!IInv, NEW r \in Turn, turn[r].pc = "queued", process = "supervising",
         UNCHANGED <<single, process, caller, reply>>,
         Supervisor!Start(r), single => Supervisor!Free, r \notin Supervisor!Range(pending),
         serial' \in Seq(Turn), channel' \in Seq(Supervisor!Commands),
         Supervisor!Once(channel'), holding' \in BOOLEAN,
         Supervisor!IsInjective(serial'),
           Supervisor!Range(serial') \subseteq Supervisor!Range(serial) \ {r},
         Supervisor!QueuedIn(channel') \subseteq Supervisor!QueuedIn(channel) \ {r},
         ~single => serial' = <<>>,
         Supervisor!Range(channel') \subseteq Supervisor!Range(channel),
         Supervisor!Ready(channel') \subseteq Supervisor!Ready(channel),
         Supervisor!Stops(channel) => Supervisor!Stops(channel') /\ holding'
  PROVE  Supervisor!IInv'
<1>1. /\ turn \in [Turn -> Supervisor!TurnState] /\ turn[r] \in Supervisor!TurnState
      /\ agent \in Supervisor!AgentState /\ idle \in Nat /\ prewarming \in BOOLEAN
      /\ pending \in Seq(Turn) /\ Supervisor!IsInjective(pending) /\ (single => pending = <<>>)
      /\ single \in BOOLEAN /\ (single => idle = 0)
      /\ idle # 0 => idle \notin Supervisor!Ready(channel)
      /\ Supervisor!WaitsOnce
  BY DEF Supervisor!IInv, Supervisor!TypeOK, Supervisor!OneOwner, Supervisor!WaitsOnce,
     Supervisor!OneAtATime
<1>2. /\ idle' \in {0, idle} /\ prewarming' \in BOOLEAN
      /\ agent' = agent \/ (~single /\ agent' = [agent EXCEPT !.calls = @ \cup {"prewarm"}])
      /\ \/ /\ turn' = turn /\ pending' = Append(pending, r) /\ ~single
         \/ /\ pending' = pending
            /\ turn' = Supervisor!Spawned(r, 0) \/ (turn' = Supervisor!Spawned(r, idle) /\
                 idle' = 0)
  BY <1>1 DEF Supervisor!Start, Supervisor!StartReview, Supervisor!StartChat,
     Supervisor!PrewarmedAgent
<1>3. /\ agent' \in Supervisor!AgentState /\ agent'.made = agent.made /\ agent'.late = agent.late
      /\ agent'.prompting = agent.prompting /\ agent'.open = agent.open
      /\ single => agent'.calls = agent.calls
  BY <1>1, <1>2 DEF Supervisor!AgentState
<1>4. /\ Supervisor!Ready(channel') \cup ({idle'} \ {0})
           \subseteq Supervisor!Ready(channel) \cup ({idle} \ {0})
      /\ idle' \in Nat /\ (idle' # 0 => idle' \notin Supervisor!Ready(channel'))
  BY <1>1, <1>2
<1>5. CASE turn' = turn /\ pending' = Append(pending, r) /\ ~single
  <2>1. /\ pending' \in Seq(Turn) /\ Supervisor!IsInjective(pending')
        /\ Supervisor!Range(pending') = Supervisor!Range(pending) \cup {r}
    BY <1>1, <1>5, Joins
  <2>2. turn' = [turn EXCEPT ![r] = turn[r]]
    BY <1>1, <1>5
  <2>3. Supervisor!WaitsOnce'
    <3>1. Supervisor!Queues' \subseteq Supervisor!Queues \cup {r}
      BY <2>1 DEF Supervisor!Queues
    <3>2. /\ Supervisor!QueuedIn(channel) \subseteq Turn
          /\ Supervisor!Queues \cap Supervisor!QueuedIn(channel) = {}
          /\ \A q \in Supervisor!Queues \cup Supervisor!QueuedIn(channel) : turn[q].pc = "queued"
      BY <1>1 DEF Supervisor!WaitsOnce
    <3> QED BY <1>5, <2>1, <3>1, <3>2 DEF Supervisor!WaitsOnce
  <2> QED BY <1>1, <1>2, <1>3, <1>4, <2>1, <2>2, <2>3, LoopKeeps
<1>6. ASSUME NEW s \in {0, idle}, s # 0 => idle' = 0, pending' = pending,
             turn' = Supervisor!Spawned(r, s)
      PROVE  Supervisor!IInv'
  <2> DEFINE x == [Supervisor!NoTurn EXCEPT !.pc = IF s = 0 THEN "acquire" ELSE "acquired",
                                            !.session = s]
  <2>1. /\ x \in Supervisor!TurnState /\ x.session = s /\
             x.pc = IF s = 0 THEN "acquire" ELSE "acquired"
        /\ turn' = [turn EXCEPT ![r] = x]
    <3>1. s \in Nat
      BY <1>1
    <3>2. turn' = [turn EXCEPT ![r] = x]
      BY <1>6 DEF Supervisor!Spawned
    <3> DEFINE p == IF s = 0 THEN "acquire" ELSE "acquired"
    <3>3. x = [Supervisor!NoTurn EXCEPT !.pc = p, !.session = s]
      OBVIOUS
    <3>4. p \in {"acquire", "acquired"}
      OBVIOUS
    <3> HIDE DEF p, x
    <3>5. x \in Supervisor!TurnState /\ x.session = s /\ x.pc = p
      BY <3>1, <3>3, <3>4 DEF Supervisor!NoTurn, Supervisor!TurnState
    <3> QED BY <3>2, <3>5 DEF p
  <2> HIDE DEF x
  <2>2. Supervisor!Range(serial') \cup Supervisor!Range(pending') \subseteq Supervisor!Queues \ {r}
    BY <1>6 DEF Supervisor!Queues
  <2>3. Supervisor!WaitsOnce'
    BY <1>1, <1>6, <2>1, <2>2, NoLongerWaits
  <2>4. s # 0 => s \in Supervisor!Ready(channel) \cup {idle}
                 /\ s \notin Supervisor!Ready(channel') \cup {idle'}
    BY <1>1, <1>4, <1>6
  <2> QED BY <1>1, <1>2, <1>3, <1>4, <1>6, <2>1, <2>3, <2>4, LoopKeeps
<1> QED BY <1>2, <1>5, <1>6

\* The turns that the loop takes from the channel or from its queue.
LEMMA TurnsKeep ==
  ASSUME Supervisor!NotTurns, Supervisor!IInv, NEW r \in Turn,
         Supervisor!DropClosedTurn(r) \/ Supervisor!QueueTurn(r) \/ Supervisor!StartTurn(r)
  PROVE  Supervisor!IInv'
<1> DEFINE m == Supervisor!Command("turn", r, 0)
<1>1. /\ Supervisor!TypeOK /\ Supervisor!WaitsOnce
      /\ turn \in [Turn -> Supervisor!TurnState] /\ serial \in Seq(Turn) /\ pending \in Seq(Turn)
      /\ Supervisor!IsInjective(serial) /\ Supervisor!IsInjective(pending)
      /\ single \in BOOLEAN /\ prewarming \in BOOLEAN
      /\ IF single THEN pending = <<>> ELSE serial = <<>>
  BY DEF Supervisor!IInv, Supervisor!TypeOK, Supervisor!WaitsOnce
<1>2. m.type = "turn" /\ m.turn = r /\ Supervisor!Handles(m)
  BY DEF Supervisor!Command, Supervisor!DropClosedTurn, Supervisor!QueueTurn,
     Supervisor!StartTurn
<1> HIDE DEF m
<1>3. /\ process = "supervising" /\ UNCHANGED <<single, process>>
      /\ channel' = Tail(channel) /\ channel' \in Seq(Supervisor!Commands)
      /\ Supervisor!Once(channel')
      /\ Supervisor!Range(channel') \subseteq Supervisor!Range(channel)
      /\ Supervisor!QueuedIn(channel') \subseteq Supervisor!QueuedIn(channel) \ {r}
      /\ Supervisor!Ready(channel') \subseteq Supervisor!Ready(channel)
      /\ Supervisor!Stops(channel) => Supervisor!Stops(channel') /\ channel' # <<>>
      /\ r \in Supervisor!QueuedIn(channel)
  BY <1>2, Handled
<1>4. /\ turn[r].pc = "queued" /\ r \notin Supervisor!Range(serial) \cup Supervisor!Range(pending)
      /\ Supervisor!QueuedIn(channel) \subseteq Turn
      /\ Supervisor!Queues \cap Supervisor!QueuedIn(channel) = {}
      /\ \A q \in Supervisor!Queues \cup Supervisor!QueuedIn(channel) : turn[q].pc = "queued"
  BY <1>1, <1>3 DEF Supervisor!WaitsOnce, Supervisor!Queues
<1>5. /\ holding' \in BOOLEAN /\ (channel' # <<>> => holding' = TRUE)
      /\ caller' = caller
  <2>1. /\ \/ holding' = Supervisor!GoesOn(Tail(channel), serial, turn)
           \/ holding' = Supervisor!GoesOn(Tail(channel), serial', turn)
           \/ holding' = Supervisor!GoesOn(Tail(channel), serial, turn')
        /\ caller' = caller
    BY DEF Supervisor!DropClosedTurn, Supervisor!QueueTurn, Supervisor!StartTurn
  <2>2. CASE holding' = Supervisor!GoesOn(Tail(channel), serial, turn)
    BY <1>3, <2>1, <2>2, LoopGoesOn
  <2>3. CASE holding' = Supervisor!GoesOn(Tail(channel), serial', turn)
    BY <1>3, <2>1, <2>3, LoopGoesOn
  <2>4. CASE holding' = Supervisor!GoesOn(Tail(channel), serial, turn')
    <3> DEFINE g == Supervisor!GoesOn(Tail(channel), serial, turn')
    <3>1. g \in BOOLEAN /\ (Tail(channel) # <<>> => g = TRUE)
      BY LoopGoesOn
    <3>2. holding' = g
      BY <2>4
    <3> HIDE DEF g
    <3> QED BY <1>3, <2>1, <3>1, <3>2
  <2> QED BY <2>1, <2>2, <2>3, <2>4
<1>6. CASE Supervisor!DropClosedTurn(r)
  <2>1. /\ UNCHANGED <<serial, pending, idle, prewarming, caller, agent>>
        /\ Supervisor!RejectAll({r}) /\ Supervisor!Ended({r})
    BY <1>6 DEF Supervisor!DropClosedTurn
  <2>2. Supervisor!Range(serial') \cup Supervisor!Range(pending') \subseteq Supervisor!Queues \ {r}
    BY <1>4, <2>1 DEF Supervisor!Queues
  <2> QED BY <1>1, <1>3, <1>4, <1>5, <2>1, <2>2, DropKeeps
<1>7. CASE Supervisor!QueueTurn(r)
  <2>1. /\ UNCHANGED <<pending, idle, prewarming, turn, reply, caller, agent>> /\ single
        /\ serial' = Append(serial, r)
    BY <1>7 DEF Supervisor!QueueTurn, Supervisor!MustQueue
  <2>2. /\ serial' \in Seq(Turn) /\ Supervisor!IsInjective(serial')
        /\ Supervisor!Range(serial') = Supervisor!Range(serial) \cup {r}
    BY <1>1, <1>4, <2>1, Joins
  <2>3. Supervisor!WaitsOnce'
    <3>1. Supervisor!Queues' \subseteq Supervisor!Queues \cup {r}
      BY <2>1, <2>2 DEF Supervisor!Queues
    <3> QED BY <1>1, <1>3, <1>4, <2>1, <2>2, <3>1 DEF Supervisor!WaitsOnce
  <2>4. /\ turn[r] \in Supervisor!TurnState /\ turn' = [turn EXCEPT ![r] = turn[r]]
        /\ agent' \in Supervisor!AgentState /\ idle \in Nat
        /\ idle # 0 => idle \notin Supervisor!Ready(channel)
    BY <1>1, <2>1 DEF Supervisor!TypeOK, Supervisor!IInv, Supervisor!OneOwner
  <2>5. Supervisor!Ready(channel') \cup ({idle'} \ {0})
          \subseteq Supervisor!Ready(channel) \cup ({idle} \ {0})
    BY <1>3, <2>1
  <2> QED BY <1>1, <1>3, <1>5, <2>1, <2>2, <2>3, <2>4, <2>5, LoopKeeps
<1>8. CASE Supervisor!StartTurn(r)
  <2>1. /\ UNCHANGED <<serial, reply, caller>> /\ Supervisor!Start(r)
        /\ single => Supervisor!Free
    BY <1>8 DEF Supervisor!StartTurn, Supervisor!MustQueue
  <2>2. Supervisor!Range(serial') \subseteq Supervisor!Range(serial) \ {r}
    BY <1>4, <2>1
  <2> QED BY <1>1, <1>3, <1>4, <1>5, <2>1, <2>2, StartsKeep
<1> QED BY <1>6, <1>7, <1>8

\* The next queued turn, when the agent is free.
LEMMA PopKeeps ==
  ASSUME Supervisor!IInv, Supervisor!PopSerial
  PROVE  Supervisor!IInv'
<1> DEFINE r == Head(serial)
<1>1. /\ Supervisor!TypeOK /\ Supervisor!WaitsOnce
      /\ serial \in Seq(Turn) /\ pending \in Seq(Turn) /\ channel \in Seq(Supervisor!Commands)
      /\ Supervisor!IsInjective(serial) /\ Supervisor!IsInjective(pending)
      /\ single \in BOOLEAN /\ prewarming \in BOOLEAN /\ Supervisor!Once(channel)
      /\ IF single THEN pending = <<>> ELSE serial = <<>>
  BY DEF Supervisor!IInv, Supervisor!TypeOK, Supervisor!WaitsOnce
<1>2. /\ process = "supervising" /\ single /\ channel = <<>> /\ serial # <<>> /\ Supervisor!Free
      /\ UNCHANGED <<single, process, channel, caller>> /\ serial' = Tail(serial)
      /\ holding' = Supervisor!GoesOn(<<>>, Tail(serial), turn')
      /\ \/ /\ Supervisor!RejectAll({r}) /\ Supervisor!Ended({r})
            /\ UNCHANGED <<pending, idle, agent, prewarming>>
         \/ Supervisor!Start(r) /\ UNCHANGED reply
  BY DEF Supervisor!PopSerial, Supervisor!config
<1>3. /\ serial' \in Seq(Turn) /\ Supervisor!IsInjective(serial') /\ r \in Turn
      /\ r \in Supervisor!Range(serial)
      /\ Supervisor!Range(serial') \subseteq Supervisor!Range(serial) \ {r}
  BY <1>1, <1>2, Leaves
<1> HIDE DEF r
<1>4. /\ holding' \in BOOLEAN /\ Supervisor!QueuedIn(channel) = {}
      /\ ~Supervisor!Stops(channel) /\ Supervisor!Range(pending) = {}
  BY <1>1, <1>2, LoopGoesOn, NothingSent DEF Supervisor!Stops
<1>5. turn[r].pc = "queued"
  BY <1>1, <1>3 DEF Supervisor!WaitsOnce, Supervisor!Queues
<1>6. CASE /\ Supervisor!RejectAll({r}) /\ Supervisor!Ended({r})
           /\ UNCHANGED <<pending, idle, agent, prewarming>>
  <2>1. Supervisor!Range(serial') \cup Supervisor!Range(pending') \subseteq Supervisor!Queues \ {r}
    BY <1>3, <1>4, <1>6 DEF Supervisor!Queues
  <2>2. Supervisor!QueuedIn(channel') \subseteq Supervisor!QueuedIn(channel) \ {r}
    BY <1>2, <1>4
  <2> QED BY <1>1, <1>2, <1>3, <1>4, <1>5, <1>6, <2>1, <2>2, DropKeeps
<1>7. CASE Supervisor!Start(r) /\ UNCHANGED reply
  BY <1>1, <1>2, <1>3, <1>4, <1>5, <1>7, StartsKeep
<1> QED BY <1>2, <1>6, <1>7

\* A cancellation: a waiting turn is rejected, a running one is told.
LEMMA CancelKeeps ==
  ASSUME Supervisor!NotTurns, Supervisor!IInv, NEW r \in Turn, Supervisor!CancelCommand(r)
  PROVE  Supervisor!IInv'
<1> DEFINE m == Supervisor!Command("cancel", r, 0)
<1>1. /\ Supervisor!WaitsOnce /\ turn \in [Turn -> Supervisor!TurnState]
      /\ serial \in Seq(Turn) /\ pending \in Seq(Turn) /\ turn[r] \in Supervisor!TurnState
      /\ Supervisor!IsInjective(serial) /\ Supervisor!IsInjective(pending)
      /\ single \in BOOLEAN /\ prewarming \in BOOLEAN /\ idle \in Nat
      /\ agent \in Supervisor!AgentState
      /\ idle # 0 => idle \notin Supervisor!Ready(channel)
      /\ IF single THEN pending = <<>> ELSE serial = <<>>
  BY DEF Supervisor!IInv, Supervisor!TypeOK, Supervisor!WaitsOnce, Supervisor!OneOwner
<1>2. m.type = "cancel" /\ Supervisor!Handles(m)
  BY DEF Supervisor!Command, Supervisor!CancelCommand
<1> HIDE DEF m
<1>3. /\ process = "supervising" /\ UNCHANGED <<single, process>>
      /\ channel' = Tail(channel) /\ channel' \in Seq(Supervisor!Commands)
      /\ Supervisor!Once(channel')
      /\ Supervisor!Range(channel') \subseteq Supervisor!Range(channel)
      /\ Supervisor!QueuedIn(channel') \subseteq Supervisor!QueuedIn(channel)
      /\ Supervisor!Ready(channel') \subseteq Supervisor!Ready(channel)
      /\ Supervisor!Stops(channel) => Supervisor!Stops(channel') /\ channel' # <<>>
  BY <1>2, Handled
<1>4. UNCHANGED <<idle, prewarming, caller, agent>>
  BY DEF Supervisor!CancelCommand
<1>5. holding' \in BOOLEAN /\ (channel' # <<>> /\ ~Supervisor!Registered(r) => holding' = TRUE)
  <2> DEFINE g == Supervisor!GoesOn(Tail(channel), serial', turn')
             b == ~Supervisor!Registered(r)
  <2>1. g \in BOOLEAN /\ (Tail(channel) # <<>> => g = TRUE) /\ b \in BOOLEAN
    BY LoopGoesOn
  <2>2. holding' = (b /\ g)
    BY DEF Supervisor!CancelCommand
  <2>3. b <=> ~Supervisor!Registered(r)
    OBVIOUS
  <2> HIDE DEF g, b
  <2> QED BY <1>3, <2>1, <2>2, <2>3
<1>6. /\ Supervisor!QueuedIn(channel) \subseteq Turn
      /\ Supervisor!Queues \cap Supervisor!QueuedIn(channel) = {}
      /\ \A q \in Supervisor!Queues \cup Supervisor!QueuedIn(channel) : turn[q].pc = "queued"
  BY <1>1 DEF Supervisor!WaitsOnce
<1>7. CASE r \in Supervisor!Queues
  <2>1. /\ Supervisor!RejectAll({r}) /\ Supervisor!Ended({r})
        /\ serial' = Supervisor!Removed(serial, r)
        /\ pending' = IF r \in Supervisor!Range(serial) THEN pending
                      ELSE Supervisor!Removed(pending, r)
    BY <1>7 DEF Supervisor!CancelCommand, Supervisor!Queues
  <2>2. /\ serial' \in Seq(Turn) /\ Supervisor!IsInjective(serial')
        /\ Supervisor!Range(serial') = Supervisor!Range(serial) \ {r}
    BY <1>1, <2>1, IsRemoved
  <2>3. /\ pending' \in Seq(Turn) /\ Supervisor!IsInjective(pending')
        /\ Supervisor!Range(pending') = Supervisor!Range(pending) \ {r}
    <3>1. CASE r \in Supervisor!Range(serial)
      <4>1. pending = <<>>
        BY <1>1, <3>1, NothingSent
      <4> QED BY <1>1, <2>1, <3>1, <4>1, NothingSent
    <3>2. CASE r \notin Supervisor!Range(serial)
      BY <1>1, <2>1, <3>2, IsRemoved
    <3> QED BY <3>1, <3>2
  <2>4. turn[r].pc = "queued" /\ ~Supervisor!Registered(r)
    BY <1>6, <1>7 DEF Supervisor!Registered, Supervisor!Prompting
  <2>5. /\ Supervisor!Range(serial') \cup Supervisor!Range(pending')
             \subseteq Supervisor!Queues \ {r}
        /\ Supervisor!QueuedIn(channel') \subseteq Supervisor!QueuedIn(channel) \ {r}
    BY <1>3, <1>6, <1>7, <2>2, <2>3 DEF Supervisor!Queues
  <2>6. IF single THEN pending' = <<>> ELSE serial' = <<>>
    <3>1. \A q : Supervisor!Removed(<<>>, q) = <<>>
      BY NothingSent DEF Supervisor!Removed
    <3> QED BY <1>1, <2>1, <3>1
  <2> QED BY <1>1, <1>3, <1>4, <1>5, <2>1, <2>2, <2>3, <2>4, <2>5, <2>6, DropKeeps
<1>8. CASE r \notin Supervisor!Queues
  <2>1. /\ UNCHANGED <<serial, pending, reply>>
        /\ turn' = IF Supervisor!Alive(r) THEN [turn EXCEPT ![r].cancelled = TRUE] ELSE turn
    BY <1>8 DEF Supervisor!CancelCommand, Supervisor!Queues
  <2>2. PICK x \in Supervisor!TurnState :
          turn' = [turn EXCEPT ![r] = x] /\ x.pc = turn[r].pc /\ x.session = turn[r].session
    <3>1. CASE Supervisor!Alive(r)
      <4> DEFINE x == [turn[r] EXCEPT !.cancelled = TRUE]
      <4>1. x \in Supervisor!TurnState /\ x.pc = turn[r].pc /\ x.session = turn[r].session
        BY <1>1 DEF Supervisor!TurnState
      <4>2. turn' = [turn EXCEPT ![r] = x]
        BY <1>1, <2>1, <3>1
      <4> QED BY <4>1, <4>2
    <3>2. CASE ~Supervisor!Alive(r)
      <4>1. turn' = [turn EXCEPT ![r] = turn[r]]
        BY <1>1, <2>1, <3>2
      <4> QED BY <1>1, <4>1
    <3> QED BY <3>1, <3>2
  <2>3. /\ ~Supervisor!Alive(r) => ~Supervisor!Registered(r)
        /\ turn[r].pc = "acquire" => ~Supervisor!Registered(r)
    BY DEF Supervisor!Alive, Supervisor!Registered, Supervisor!Prompting
  <2>4. Supervisor!WaitsOnce'
    <3>1. \A q \in Turn : turn'[q].pc = turn[q].pc
      BY <1>1, <2>2
    <3>2. Supervisor!Queues' = Supervisor!Queues /\ Supervisor!Queues \subseteq Turn
      BY <1>1, <2>1 DEF Supervisor!Queues, Supervisor!Range
    <3> QED BY <1>1, <1>3, <1>6, <2>1, <3>1, <3>2 DEF Supervisor!WaitsOnce
  <2>5. Supervisor!Ready(channel') \cup ({idle'} \ {0})
          \subseteq Supervisor!Ready(channel) \cup ({idle} \ {0})
    BY <1>3, <1>4
  <2> QED BY <1>1, <1>3, <1>4, <1>5, <2>1, <2>2, <2>3, <2>4, <2>5, LoopKeeps
<1> QED BY <1>7, <1>8

\* A prepared session arrives: it goes to the first waiting turn, or is kept, or closed.
LEMMA PreparedKeeps ==
  ASSUME Supervisor!NotTurns, Supervisor!IInv, NEW s \in 0..MaxSessions,
         Supervisor!PrewarmedCommand(s)
  PROVE  Supervisor!IInv'
<1> DEFINE m == Supervisor!Command("prewarmed", "none", s)
<1>1. /\ Supervisor!WaitsOnce /\ turn \in [Turn -> Supervisor!TurnState]
      /\ serial \in Seq(Turn) /\ pending \in Seq(Turn)
      /\ Supervisor!IsInjective(serial) /\ Supervisor!IsInjective(pending)
      /\ single \in BOOLEAN /\ prewarming \in BOOLEAN /\ idle \in Nat
      /\ agent \in Supervisor!AgentState
      /\ idle # 0 => idle \notin Supervisor!Ready(channel)
      /\ IF single THEN pending = <<>> ELSE serial = <<>>
      /\ Supervisor!OneAtATime
  BY DEF Supervisor!IInv, Supervisor!TypeOK, Supervisor!WaitsOnce, Supervisor!OneOwner
<1>2. m.type = "prewarmed" /\ m.session = s /\ Supervisor!Handles(m)
  BY DEF Supervisor!Command, Supervisor!PrewarmedCommand
<1> HIDE DEF m
<1>3. /\ process = "supervising" /\ UNCHANGED <<single, process>>
      /\ channel' = Tail(channel) /\ channel' \in Seq(Supervisor!Commands)
      /\ Supervisor!Once(channel') /\ m \in Supervisor!Range(channel) /\ m \in Supervisor!Commands
      /\ Supervisor!Range(channel') \subseteq Supervisor!Range(channel)
      /\ Supervisor!QueuedIn(channel') \subseteq Supervisor!QueuedIn(channel)
      /\ Supervisor!Ready(channel') \subseteq Supervisor!Ready(channel)
      /\ Supervisor!Stops(channel) => Supervisor!Stops(channel') /\ channel' # <<>>
      /\ s # 0 => s \in Supervisor!Ready(channel) \ Supervisor!Ready(channel')
  BY <1>2, Handled
<1>4. ~single /\ serial = <<>> /\ s \in Nat
  BY <1>1, <1>2, <1>3 DEF Supervisor!OneAtATime, Supervisor!Commands
<1>5. UNCHANGED <<serial, caller>>
  BY DEF Supervisor!PrewarmedCommand
<1>6. holding' \in BOOLEAN /\ (channel' # <<>> => holding' = TRUE)
  <2> DEFINE g == Supervisor!GoesOn(Tail(channel), serial, turn')
  <2>1. g \in BOOLEAN /\ (Tail(channel) # <<>> => g = TRUE)
    BY LoopGoesOn
  <2>2. holding' = g
    BY DEF Supervisor!PrewarmedCommand
  <2> HIDE DEF g
  <2> QED BY <1>3, <2>1, <2>2
<1>7. /\ Supervisor!QueuedIn(channel) \subseteq Turn
      /\ Supervisor!Queues \cap Supervisor!QueuedIn(channel) = {}
      /\ \A q \in Supervisor!Queues \cup Supervisor!QueuedIn(channel) : turn[q].pc = "queued"
  BY <1>1 DEF Supervisor!WaitsOnce
<1>8. Supervisor!Range(serial) = {}
  BY <1>4, NothingSent
<1>9. CASE pending # <<>>
  <2> DEFINE r == Head(pending)
  <2>1. /\ pending' = Tail(pending) /\ UNCHANGED idle
        /\ IF s # 0 THEN turn' = Supervisor!Spawned(r, s) /\ UNCHANGED reply
                    ELSE Supervisor!RejectAll({r}) /\ Supervisor!Ended({r})
        /\ prewarming' = (s # 0 \/ Len(pending) > 1)
        /\ agent' = agent \/ agent' = [agent EXCEPT !.calls = @ \cup {"prewarm"}]
    BY <1>9 DEF Supervisor!PrewarmedCommand
  <2>2. prewarming' \in BOOLEAN
    BY <2>1
  <2>3. /\ pending' \in Seq(Turn) /\ Supervisor!IsInjective(pending') /\ r \in Turn
        /\ r \in Supervisor!Range(pending)
        /\ Supervisor!Range(pending') = Supervisor!Range(pending) \ {r}
    BY <1>1, <1>9, <2>1, Leaves
  <2> HIDE DEF r
  <2>4. /\ turn[r].pc = "queued" /\ r \notin Supervisor!QueuedIn(channel)
        /\ Supervisor!Range(serial') \cup Supervisor!Range(pending')
             \subseteq Supervisor!Queues \ {r}
        /\ Supervisor!QueuedIn(channel') \subseteq Supervisor!QueuedIn(channel) \ {r}
    BY <1>3, <1>5, <1>7, <1>8, <2>3 DEF Supervisor!Queues
  <2>5. serial' \in Seq(Turn) /\ Supervisor!IsInjective(serial') /\ serial' = <<>>
    BY <1>1, <1>4, <1>5
  <2>6. CASE s = 0
    BY <1>1, <1>3, <1>4, <1>5, <1>6, <2>1, <2>2, <2>3, <2>4, <2>5, <2>6, DropKeeps
  <2>7. CASE s # 0
    <3> DEFINE x == [Supervisor!NoTurn EXCEPT !.pc = "acquired", !.session = s]
    <3>1. turn' = [turn EXCEPT ![r] = x]
      BY <2>1, <2>7 DEF Supervisor!Spawned
    <3>2. x \in Supervisor!TurnState /\ x.session = s /\ x.pc = "acquired"
      BY <1>4 DEF Supervisor!NoTurn, Supervisor!TurnState
    <3> HIDE DEF x
    <3>3. Supervisor!WaitsOnce'
      BY <1>3, <1>4, <2>3, <2>4, <2>5, <3>1, NoLongerWaits
    <3>4. /\ agent' \in Supervisor!AgentState /\ agent'.made = agent.made /\
               agent'.late = agent.late
          /\ agent'.prompting = agent.prompting /\ agent'.open = agent.open
      <4>1. CASE agent' = agent
        BY <1>1, <4>1
      <4>2. CASE agent' = [agent EXCEPT !.calls = @ \cup {"prewarm"}]
        BY <1>1, <4>2 DEF Supervisor!AgentState
      <4> QED BY <2>1, <4>1, <4>2
    <3>5. /\ Supervisor!Ready(channel') \cup ({idle'} \ {0})
               \subseteq Supervisor!Ready(channel) \cup ({idle} \ {0})
          /\ s \in Supervisor!Ready(channel) \cup {idle}
          /\ s \notin Supervisor!Ready(channel') \cup {idle'}
          /\ idle' # 0 => idle' \notin Supervisor!Ready(channel')
      BY <1>1, <1>3, <2>1, <2>7
    <3> QED BY <1>1, <1>3, <1>4, <1>5, <1>6, <2>1, <2>2, <2>3, <2>4, <2>5, <2>7, <3>1, <3>2,
        <3>3, <3>4, <3>5, LoopKeeps
  <2> QED BY <2>6, <2>7
<1>10. CASE pending = <<>>
  <2>1. /\ idle' = (IF idle = 0 THEN s ELSE idle)
        /\ agent' = IF idle # 0 /\ s # 0 THEN [agent EXCEPT !.open = @ \ {s}] ELSE agent
        /\ prewarming' = FALSE /\ UNCHANGED <<pending, turn, reply>>
    BY <1>10 DEF Supervisor!PrewarmedCommand
  <2>2. /\ agent' \in Supervisor!AgentState /\ agent'.made = agent.made /\ agent'.late = agent.late
        /\ agent'.prompting = agent.prompting
        /\ \A o \in agent.open \ agent'.open : o = s /\ idle # 0 /\ s # 0
    <3>1. CASE idle # 0 /\ s # 0
      <4>1. agent' = [agent EXCEPT !.open = @ \ {s}]
        BY <2>1, <3>1
      <4>2. agent.open \ {s} \in SUBSET Nat
        BY <1>1 DEF Supervisor!AgentState
      <4> QED BY <1>1, <3>1, <4>1, <4>2 DEF Supervisor!AgentState
    <3>2. CASE ~(idle # 0 /\ s # 0)
      BY <1>1, <2>1, <3>2
    <3> QED BY <3>1, <3>2
  <2>3. /\ idle' \in Nat /\ (idle' # 0 => idle' \notin Supervisor!Ready(channel'))
        /\ Supervisor!Ready(channel') \cup ({idle'} \ {0})
             \subseteq Supervisor!Ready(channel) \cup ({idle} \ {0})
    BY <1>1, <1>3, <1>4, <2>1
  <2>4. Supervisor!WaitsOnce'
    <3>1. Supervisor!Queues' = Supervisor!Queues
      BY <1>5, <2>1 DEF Supervisor!Queues
    <3> QED BY <1>1, <1>3, <1>5, <1>7, <2>1, <3>1 DEF Supervisor!WaitsOnce
  <2>5. CASE Turn = {}
    <3>1. /\ Supervisor!TypeOK /\ Supervisor!OneOwner /\ Supervisor!Made /\ Supervisor!Opens
      BY DEF Supervisor!IInv
    <3>2. Supervisor!TypeOK'
      BY <1>1, <1>3, <1>4, <1>5, <1>6, <2>1, <2>2, <2>3, <3>1 DEF Supervisor!TypeOK
    <3>3. Supervisor!OneOwner' /\ Supervisor!ProofHolds'
      BY <2>3, <2>5 DEF Supervisor!OneOwner, Supervisor!Held, Supervisor!ProofHolds
    <3>4. Supervisor!Made' /\ Supervisor!Opens'
      <4>1. \A o \in Supervisor!Ready(channel') \cup {idle'} :
              o \in Supervisor!Ready(channel) \cup {idle, 0}
        BY <2>3
      <4>2. 0 <= agent.made /\ 0 \notin agent.prompting
        BY <1>1, <3>1 DEF Supervisor!Made, Supervisor!AgentState
      <4>3. Supervisor!Made'
        BY <2>2, <2>5, <3>1, <4>1, <4>2 DEF Supervisor!Made
      <4>4. \A o \in Supervisor!Ready(channel') \cup ({idle'} \ {0}) : o \in agent'.open
        <5> SUFFICES ASSUME NEW o \in Supervisor!Ready(channel') \cup ({idle'} \ {0})
                     PROVE  o \in agent'.open
          OBVIOUS
        <5>1. o \in agent.open
          BY <1>3, <2>3, <3>1 DEF Supervisor!Opens
        <5>2. ~(o = s /\ idle # 0 /\ s # 0)
          BY <1>1, <1>3, <2>1
        <5> QED BY <2>2, <5>1, <5>2
      <4> QED BY <2>5, <4>3, <4>4 DEF Supervisor!Opens
    <3>5. Supervisor!OneAtATime' /\ Supervisor!Between'
      BY <1>3, <1>4 DEF Supervisor!OneAtATime, Supervisor!Between
    <3> QED BY <2>4, <3>2, <3>3, <3>4, <3>5 DEF Supervisor!IInv
  <2>6. ASSUME NEW r \in Turn PROVE Supervisor!IInv'
    <3>1. turn[r] \in Supervisor!TurnState /\ turn' = [turn EXCEPT ![r] = turn[r]]
      BY <1>1, <2>1
    <3>2. \A o \in agent.open \ agent'.open :
            o \in Supervisor!Ready(channel) /\ o \notin Supervisor!Ready(channel') /\ o # idle'
      BY <1>1, <1>3, <2>1, <2>2
    <3> QED BY <1>1, <1>3, <1>4, <1>5, <1>6, <2>1, <2>2, <2>3, <2>4, <3>1, <3>2, LoopKeeps
  <2> QED BY <2>5, <2>6
<1> QED BY <1>9, <1>10

\* Nothing has happened yet.
LEMMA SupervisorInit ==
  ASSUME Supervisor!Init PROVE Supervisor!IInv
<1>1. /\ single \in BOOLEAN /\ process = "absent" /\ holding = FALSE /\ channel = <<>>
      /\ serial = <<>> /\ pending = <<>> /\ idle = 0 /\ prewarming = FALSE
      /\ turn = [r \in Turn |-> Supervisor!NoTurn] /\ reply = [r \in Turn |-> Supervisor!NoReply]
      /\ caller = [r \in Turn |-> Supervisor!NoCaller] /\ agent = Supervisor!NoAgent
  BY DEF Supervisor!Init
<1>2. /\ agent \in Supervisor!AgentState /\ agent.prompting = {} /\ agent.made = 0
      /\ agent.calls = {} /\ agent.late = 0
  BY <1>1 DEF Supervisor!NoAgent, Supervisor!AgentState
<1>3. /\ turn \in [Turn -> Supervisor!TurnState]
      /\ \A r \in Turn : turn[r].pc = "none" /\ turn[r].session = 0
  BY <1>1 DEF Supervisor!NoTurn, Supervisor!TurnState
<1>4. /\ reply \in [Turn -> [decision : {"none", "ok", "error"},
                             cleanup : {"none", "proven", "unproven"}]]
      /\ \A r \in Turn : reply[r].cleanup = "none"
  BY <1>1 DEF Supervisor!NoReply
<1>5. /\ caller \in [Turn -> [pc : {"idle", "waiting", "holding", "cleanup", "done"},
                              bound : BOOLEAN, proven : BOOLEAN]]
      /\ \A r \in Turn : caller[r].pc = "idle" /\ ~caller[r].proven
  BY <1>1 DEF Supervisor!NoCaller
<1>6. Supervisor!TypeOK
  BY <1>1, <1>2, <1>3, <1>4, <1>5, NothingSent DEF Supervisor!TypeOK
<1>7. Supervisor!WaitsOnce /\ Supervisor!OneOwner
  BY <1>1, <1>3, NothingSent DEF Supervisor!WaitsOnce, Supervisor!OneOwner, Supervisor!Queues
<1>8. Supervisor!Made /\ Supervisor!Opens /\ Supervisor!ProofHolds
  BY <1>1, <1>2, <1>3, <1>4, <1>5, NothingSent DEF Supervisor!Made, Supervisor!Opens,
     Supervisor!ProofHolds, Supervisor!Prompting
<1>9. Supervisor!OneAtATime
  BY <1>1, <1>2, NothingSent DEF Supervisor!OneAtATime
<1>10. Supervisor!Between
  BY <1>1, <1>3, NothingSent DEF Supervisor!Between, Supervisor!Queues, Supervisor!Alive
<1> QED BY <1>6, <1>7, <1>8, <1>9, <1>10 DEF Supervisor!IInv

\* Every step of the supervisor, its turns, its callers and its agent.
LEMMA SupervisorStepKeeps ==
  ASSUME Supervisor!NotTurns, Supervisor!IInv, Supervisor!Next
  PROVE  Supervisor!IInv'
<1>1. ASSUME NEW r \in Turn, Supervisor!Task(r) PROVE Supervisor!IInv'
  BY <1>1, AcquiresKeep, WorksKeep, ClosesKeep DEF Supervisor!Task
<1>2. ASSUME NEW r \in Turn, Supervisor!Response(r) PROVE Supervisor!IInv'
  BY <1>2, AcquiresKeep, WorksKeep, ClosesKeep DEF Supervisor!Response
<1>3. ASSUME Supervisor!Loop PROVE Supervisor!IInv'
  BY <1>3, TurnsKeep, CancelKeeps, PreparedKeeps, PopKeeps, StopsKeep DEF Supervisor!Loop
<1>4. ASSUME NEW r \in Turn,
             \/ Supervisor!ReceiveAnswer(r) \/ Supervisor!ReceiveDecision(r)
             \/ Supervisor!DecisionFails(r) \/ Supervisor!DecisionRefused(r)
             \/ Supervisor!CallerTimesOut(r) \/ Supervisor!EnrichmentEnds(r)
             \/ Supervisor!CleanupAnswered(r) \/ Supervisor!CallerDropped(r)
      PROVE  Supervisor!IInv'
  BY <1>4, CallersKeep
<1> QED BY <1>1, <1>2, <1>3, <1>4, SubmitKeeps, StopsKeep, StartKeeps, RejectKeeps, CloseKeeps,
    StopKeeps, PrewarmKeeps, AgentKeeps DEF Supervisor!Next

\* What the invariant says of the sessions in use and of the retries.
LEMMA TurnsAreServed ==
  ASSUME Supervisor!IInv PROVE Supervisor!PromptKeepsSession /\ Supervisor!RetryFindsAgentQuiet
BY DEF Supervisor!IInv, Supervisor!Opens, Supervisor!ProofHolds, Supervisor!PromptKeepsSession,
   Supervisor!RetryFindsAgentQuiet
-----------------------------------------------------------------------------
(* One session of the agent                                                *)

\* A session that was not initialized satisfies its invariant.
LEMMA ClientInit == ASSUME Client!Init PROVE Client!IInv
<1>1. Client!Streams /\ Client!Heard /\ Client!Judging
  BY DEF Client!Init, Client!Streams, Client!Heard, Client!Judging
<1>2. Client!ReadyIsComplete /\ Client!ConfiguredValuesHold /\ Client!ValidatedReportIsCurrent
  BY DEF Client!Init, Client!ReadyIsComplete, Client!ConfiguredValuesHold,
     Client!ValidatedReportIsCurrent
<1>3. QED
  BY <1>1, <1>2 DEF Client!IInv

\* The first message of the inbox goes to the handled ones, and the sequence stays whole.
LEMMA FirstMoves ==
  ASSUME NEW S, NEW s \in Seq(S), NEW t \in Seq(S), t # <<>>
  PROVE  /\ Head(t) \in S /\ Tail(t) \in Seq(S) /\ Append(s, Head(t)) \in Seq(S)
         /\ s \o t = Append(s, Head(t)) \o Tail(t)
  OBVIOUS

\* A beginning that has every element as often as the whole is the whole.
LEMMA AllAreHandled ==
  ASSUME NEW s \in Seq(Message), NEW t \in Seq(Message),
         Client!IncludesAll(s, s \o t)
  PROVE  t = <<>>
<1> SUFFICES ASSUME t # <<>> PROVE FALSE
  OBVIOUS
<1> DEFINE m == Head(t)
           k == Len(s) + 1
           A == {i \in DOMAIN s : s[i] = m}
           B == {i \in DOMAIN (s \o t) : (s \o t)[i] = m}
<1>1. m \in Message /\ k \in DOMAIN (s \o t) /\ (s \o t)[k] = m /\ k \notin DOMAIN s
  OBVIOUS
<1>2. DOMAIN s = 1..Len(s) /\ DOMAIN (s \o t) = 1..Len(s \o t)
      /\ Len(s) \in Nat /\ Len(s \o t) \in Nat
  OBVIOUS
<1>3. A \subseteq B /\ k \in B /\ k \notin A
  <2>1. \A i \in DOMAIN s : i \in DOMAIN (s \o t) /\ (s \o t)[i] = s[i]
    OBVIOUS
  <2> QED BY <1>1, <2>1
<1>4. IsFiniteSet(B)
  <2>1. IsFiniteSet(1..Len(s \o t))
    BY <1>2, FS_Interval
  <2> QED BY <1>2, <2>1, FS_Subset
<1>5. Cardinality(A) >= Cardinality(B)
  <2>1. Client!Occurrences(m, s) = Cardinality(A)
    BY DEF Client!Occurrences, Cardinality, Client!Cardinality
  <2>2. Client!Occurrences(m, s \o t) = Cardinality(B)
    BY DEF Client!Occurrences, Cardinality, Client!Cardinality
  <2>3. Client!Occurrences(m, s) >= Client!Occurrences(m, s \o t)
    BY <1>1 DEF Client!IncludesAll
  <2> QED BY <2>1, <2>2, <2>3
<1> HIDE DEF m, k, A, B
<1>6. Cardinality(A) \in Nat /\ Cardinality(B) \in Nat /\ Cardinality(A) < Cardinality(B)
  <2>1. /\ IsFiniteSet(A) /\ Cardinality(A) <= Cardinality(B)
        /\ Cardinality(A) = Cardinality(B) => A = B
    BY <1>3, <1>4, FS_Subset
  <2>2. Cardinality(A) \in Nat /\ Cardinality(B) \in Nat
    BY <1>4, <2>1, FS_CardinalityType
  <2> QED BY <1>3, <2>1, <2>2
<1> QED BY <1>5, <1>6

\* What a message adds to the answer.
LEMMA HandledHeard ==
  ASSUME Client!Known, Client!IInv, Client!HandleMessage PROVE Client!Heard'
<1> DEFINE m == Head(inbox)
<1>1. /\ inbox \in Seq(Message) /\ inbox # <<>> /\ m \in Message
      /\ handled \in Seq(Message) /\ content \in Seq(Message)
      /\ handled' = Append(handled, m)
      /\ content' = IF m \in Client!Wording THEN Append(content, m) ELSE content
      /\ nonText' = (nonText \/ m = "image")
  BY DEF Client!IInv, Client!Streams, Client!HandleMessage, Client!Wording
<1> DEFINE k == Len(handled) + 1
<1>2. /\ k \in DOMAIN handled' /\ handled'[k] = m /\ k \notin DOMAIN handled
      /\ \A i \in DOMAIN handled' : i # k => i \in DOMAIN handled /\ handled'[i] = handled[i]
      /\ \A i \in DOMAIN handled : i \in DOMAIN handled' /\ handled'[i] = handled[i]
  BY <1>1
<1>3. /\ ~nonText => \A i \in DOMAIN handled : handled[i] # "image"
      /\ content = <<>> => \A i \in DOMAIN handled : handled[i] \notin Client!Wording
      /\ Len(content) = 1 => \E i \in DOMAIN handled :
           /\ handled[i] = content[1]
           /\ \A j \in DOMAIN handled \ {i} : handled[j] \notin Client!Wording
  BY DEF Client!IInv, Client!Heard
<1> HIDE DEF m, k
<1>4. ~nonText' => \A i \in DOMAIN handled' : handled'[i] # "image"
  BY <1>1, <1>2, <1>3
<1>5. CASE m \in Client!Wording
  <2>1. content' # <<>> /\ (Len(content') = 1 => content = <<>> /\ content'[1] = m)
    <3>1. content' = Append(content, m) /\ content \in Seq(Message) /\ m \in Message
      BY <1>1, <1>5
    <3>2. /\ Append(content, m) # <<>> /\ Len(Append(content, m)) = Len(content) + 1
          /\ Len(content) \in Nat /\ (Len(content) = 0 => content = <<>>)
          /\ Append(<<>>, m)[1] = m
      BY <3>1
    <3> QED BY <3>1, <3>2
  <2>2. Len(content') = 1 => \E i \in DOMAIN handled' :
           /\ handled'[i] = content'[1]
           /\ \A j \in DOMAIN handled' \ {i} : handled'[j] \notin Client!Wording
    BY <1>2, <1>3, <2>1
  <2> QED BY <1>4, <2>1, <2>2 DEF Client!Heard
<1>6. CASE m \notin Client!Wording
  <2>1. content' = content
    BY <1>1, <1>6
  <2>2. content' = <<>> => \A i \in DOMAIN handled' : handled'[i] \notin Client!Wording
    BY <1>2, <1>3, <1>6, <2>1
  <2>3. ASSUME Len(content') = 1
        PROVE  \E i \in DOMAIN handled' :
                 /\ handled'[i] = content'[1]
                 /\ \A j \in DOMAIN handled' \ {i} : handled'[j] \notin Client!Wording
    <3>1. PICK i \in DOMAIN handled :
            /\ handled[i] = content[1]
            /\ \A j \in DOMAIN handled \ {i} : handled[j] \notin Client!Wording
      BY <1>3, <2>1, <2>3
    <3> QED BY <1>2, <1>6, <2>1, <3>1
  <2> QED BY <1>4, <2>2, <2>3 DEF Client!Heard, Client!Wording
<1> QED BY <1>5, <1>6

\* A check that passes has judged the whole answer.
LEMMA JudgedReady ==
  ASSUME Client!Known, Client!IInv, Client!Judge PROVE Client!ReadyIsComplete'
<1>1. /\ clientPc = "barrier" /\ Client!IncludesAll(handled, expected) /\ expected = sent
      /\ sent = handled \o inbox /\ handled \in Seq(Message) /\ inbox \in Seq(Message)
      /\ sent' = sent /\ stop' = stop /\ content \in Seq(Message)
      /\ readiness' = IF stop = "end_turn" /\ ~nonText /\ content = <<"READY">>
                        THEN "passed" ELSE "failed"
  BY DEF Client!IInv, Client!Streams, Client!Judging, Client!Judge, Client!Concludes,
     Client!stream
<1> SUFFICES ASSUME readiness' = "passed"
             PROVE  /\ stop = "end_turn"
                    /\ \E i \in DOMAIN sent :
                         sent[i] = "READY" /\ \A j \in DOMAIN sent \ {i} : sent[j] = "tool"
  BY <1>1 DEF Client!ReadyIsComplete
<1>2. stop = "end_turn" /\ ~nonText /\ content = <<"READY">>
  BY <1>1
<1>3. sent = handled
  <2>1. inbox = <<>>
    BY <1>1, AllAreHandled
  <2> QED BY <1>1, <2>1
<1>4. PICK i \in DOMAIN handled :
        /\ handled[i] = "READY"
        /\ \A j \in DOMAIN handled \ {i} : handled[j] \notin {"READY", "text"}
  BY <1>2 DEF Client!IInv, Client!Heard, Client!Wording
<1>5. \A j \in DOMAIN handled : handled[j] \in {"READY", "text", "image", "tool"}
  <2>1. \A j \in DOMAIN handled : handled[j] \in Message
    BY <1>1
  <2> QED BY <2>1 DEF Client!Known
<1>6. \A j \in DOMAIN handled : handled[j] # "image"
  BY <1>2 DEF Client!IInv, Client!Heard
<1> QED BY <1>2, <1>3, <1>4, <1>5, <1>6

\* Every step of a session keeps its invariant.
LEMMA ClientStepKeeps ==
  ASSUME Client!Known, Client!IInv, [Client!Next]_(Client!vars) PROVE Client!IInv'
<1> USE DEF Client!IInv
<1>1. CASE UNCHANGED Client!vars
  BY <1>1 DEF Client!vars, Client!check, Client!selection, Client!stream, Client!workspace,
     Client!Streams, Client!Heard, Client!Judging, Client!ReadyIsComplete,
     Client!ConfiguredValuesHold, Client!ValidatedReportIsCurrent, Client!Kept
<1>2. CASE \/ Client!Initialize \/ Client!OpenSession \/ Client!SkipOption
           \/ Client!KeepOption \/ Client!SetOption \/ Client!Configured \/ Client!GiveUp
  <2>1. UNCHANGED <<Client!stream, Client!workspace, configured>>
    BY <1>2 DEF Client!Initialize, Client!OpenSession, Client!SkipOption, Client!KeepOption,
       Client!SetOption, Client!Configured, Client!GiveUp, Client!selection
  <2>2. /\ clientPc' \in {"open", "configure", "done", "ready"} /\ clientPc # "done"
        /\ readiness' = "passed" => readiness = "passed"
        /\ clientPc' = "ready" => Client!Kept'
    BY <1>2 DEF Client!Initialize, Client!OpenSession, Client!SkipOption, Client!KeepOption,
       Client!SetOption, Client!Configured, Client!GiveUp, Client!Concludes, Client!GoesTo,
       Client!Kept, Client!selection, Client!Option
  <2>3. Client!Streams' /\ Client!Heard' /\ Client!ValidatedReportIsCurrent'
    BY <2>1 DEF Client!stream, Client!workspace, Client!Streams, Client!Heard,
       Client!ValidatedReportIsCurrent
  <2>4. Client!Judging' /\ Client!ReadyIsComplete' /\ Client!ConfiguredValuesHold'
    BY <2>1, <2>2 DEF Client!stream, Client!Judging, Client!ReadyIsComplete,
       Client!ConfiguredValuesHold
  <2>5. QED
    BY <2>3, <2>4
<1>3. CASE Client!Prompt
  <2>1. Client!Streams' /\ Client!Heard' /\ Client!ValidatedReportIsCurrent'
    BY <1>3 DEF Client!Prompt, Client!Streams, Client!Heard, Client!ValidatedReportIsCurrent
  <2>2. Client!Judging' /\ Client!ReadyIsComplete' /\ Client!ConfiguredValuesHold'
    BY <1>3 DEF Client!Prompt, Client!GoesTo, Client!Judging, Client!ReadyIsComplete,
       Client!ConfiguredValuesHold, Client!Kept, Client!selection
  <2>3. QED
    BY <2>1, <2>2
<1>4. ASSUME NEW m \in Message, Client!AgentSends(m) PROVE Client!IInv'
  <2>1. Client!Streams'
    <3>1. /\ inbox \in Seq(Message) /\ handled \in Seq(Message) /\ sent = handled \o inbox
          /\ sent' = Append(sent, m) /\ inbox' = Append(inbox, m) /\ handled' = handled
          /\ content' = content /\ files' = files
      BY <1>4 DEF Client!AgentSends, Client!Streams, Client!workspace
    <3>2. inbox' \in Seq(Message) /\ sent' = handled \o inbox'
      <4>1. Append(inbox, m) \in Seq(Message)
            /\ Append(handled \o inbox, m) = handled \o Append(inbox, m)
        <5>1. inbox \in Seq(Message) /\ handled \in Seq(Message) /\ m \in Message
          BY <1>4, <3>1
        <5> QED BY <5>1
      <4> QED BY <3>1, <4>1
    <3> QED BY <3>1, <3>2 DEF Client!Streams
  <2>2. Client!Heard' /\ Client!ValidatedReportIsCurrent'
    BY <1>4 DEF Client!AgentSends, Client!Heard, Client!ValidatedReportIsCurrent,
       Client!workspace
  <2>3. Client!Judging' /\ Client!ReadyIsComplete' /\ Client!ConfiguredValuesHold'
    BY <1>4 DEF Client!AgentSends, Client!check, Client!selection, Client!Judging,
       Client!ReadyIsComplete, Client!ConfiguredValuesHold, Client!Kept
  <2>4. QED
    BY <2>1, <2>2, <2>3
<1>5. CASE Client!HandleMessage
  <2>1. /\ inbox \in Seq(Message) /\ inbox # <<>> /\ handled \in Seq(Message)
        /\ content \in Seq(Message) /\ sent = handled \o inbox
        /\ inbox' = Tail(inbox) /\ handled' = Append(handled, Head(inbox)) /\ sent' = sent
        /\ content' \in {content, Append(content, Head(inbox))} /\ files' = files
    BY <1>5 DEF Client!HandleMessage, Client!Streams, Client!workspace
  <2>2. Head(inbox) \in Message /\ Append(content, Head(inbox)) \in Seq(Message)
    BY <2>1
  <2>3. Client!Streams'
    <3>1. /\ inbox' \in Seq(Message) /\ handled' \in Seq(Message)
          /\ sent' = handled' \o inbox'
      BY <2>1, FirstMoves
    <3>2. content' \in Seq(Message)
      BY <2>1, <2>2 DEF Client!Streams
    <3> QED BY <2>1, <3>1, <3>2 DEF Client!Streams
  <2>4. Client!ValidatedReportIsCurrent' /\ Client!Judging' /\ Client!ReadyIsComplete'
        /\ Client!ConfiguredValuesHold'
    BY <1>5 DEF Client!HandleMessage, Client!check, Client!selection, Client!workspace,
       Client!ValidatedReportIsCurrent, Client!Judging, Client!ReadyIsComplete,
       Client!ConfiguredValuesHold, Client!Kept
  <2>5. QED
    BY <1>5, <2>3, <2>4, HandledHeard
<1>6. CASE Client!Respond
  <2>1. Client!Streams' /\ Client!Heard' /\ Client!ValidatedReportIsCurrent'
    BY <1>6 DEF Client!Respond, Client!Streams, Client!Heard, Client!ValidatedReportIsCurrent,
       Client!workspace
  <2>2. Client!Judging' /\ Client!ReadyIsComplete' /\ Client!ConfiguredValuesHold'
    BY <1>6 DEF Client!Respond, Client!GoesTo, Client!Judging, Client!ReadyIsComplete,
       Client!ConfiguredValuesHold, Client!Kept, Client!selection
  <2>3. QED
    BY <2>1, <2>2
<1>7. CASE Client!Judge
  <2>1. Client!Streams' /\ Client!Heard' /\ Client!ValidatedReportIsCurrent'
    BY <1>7 DEF Client!Judge, Client!stream, Client!workspace, Client!Streams, Client!Heard,
       Client!ValidatedReportIsCurrent
  <2>2. Client!Judging' /\ Client!ConfiguredValuesHold'
    BY <1>7 DEF Client!Judge, Client!Concludes, Client!Judging, Client!ConfiguredValuesHold
  <2>3. QED
    BY <1>7, <2>1, <2>2, JudgedReady
<1>8. ASSUME NEW f \in Client!File, NEW v \in {"v1", "v2", "bad"}, Client!WriteFile(f, v)
      PROVE  Client!IInv'
  <2>1. Client!Streams' /\ Client!Heard' /\ Client!ValidatedReportIsCurrent'
    BY <1>8 DEF Client!WriteFile, Client!stream, Client!Streams, Client!Heard,
       Client!ValidatedReportIsCurrent
  <2>2. Client!Judging' /\ Client!ReadyIsComplete' /\ Client!ConfiguredValuesHold'
    BY <1>8 DEF Client!WriteFile, Client!stream, Client!check, Client!selection,
       Client!Judging, Client!ReadyIsComplete, Client!ConfiguredValuesHold, Client!Kept
  <2>3. QED
    BY <2>1, <2>2
<1>9. CASE Client!ReadValidation
  <2>1. validated' = files.exposure /\ (\A f \in Client!File : files[f] # "none")
        /\ (\A f \in {"nodes", "exposure"} : files[f] # "bad") /\ files' = files
    BY <1>9 DEF Client!ReadValidation
  <2>2. Client!ValidatedReportIsCurrent'
    BY <2>1 DEF Client!ValidatedReportIsCurrent
  <2>3. Client!Streams' /\ Client!Heard'
    BY <1>9, <2>1 DEF Client!ReadValidation, Client!stream, Client!Streams, Client!Heard
  <2>4. Client!Judging' /\ Client!ReadyIsComplete' /\ Client!ConfiguredValuesHold'
    BY <1>9 DEF Client!ReadValidation, Client!stream, Client!check, Client!selection,
       Client!Judging, Client!ReadyIsComplete, Client!ConfiguredValuesHold, Client!Kept
  <2>5. QED
    BY <2>2, <2>3, <2>4
<1>10. QED
  BY <1>1, <1>2, <1>3, <1>4, <1>5, <1>6, <1>7, <1>8, <1>9 DEF Client!Next
-----------------------------------------------------------------------------
(* One review                                                              *)

\* A review that has not begun satisfies its invariant.
LEMMA ReviewerInit == ASSUME Protocol!Init PROVE Protocol!IInv
BY DEF Protocol!Init, Protocol!IInv, Protocol!Sug, Protocol!AnswerWasValid,
   Protocol!ReviewAnswer, Protocol!LinesAreTold, Protocol!CompleteIsFinal,
   Protocol!CompleteIsWhole, Protocol!Verdict, Protocol!ReportState

\* An allow is what a suggestion without an error says.
LEMMA OnlyAllowsAllow ==
  ASSUME NEW answer \in Protocol!ReviewAnswer, NEW settings \in Protocol!ValidPolicy,
         NEW action \in Protocol!Breach,
         Protocol!EvaluateAutomaticDisposition(settings, answer, action).disposition = "allow"
  PROVE  answer.decision = "allow" /\ ~answer.error
BY DEF Protocol!EvaluateAutomaticDisposition, Protocol!FailsClosed, Protocol!SafeNonAllow,
   Protocol!BreaksExposure, Protocol!BreachDisposition, Protocol!Routed,
   Protocol!ReviewAnswer, Protocol!Verdict

\* So a failed review never allows, once every answer without an error was validated.
LEMMA ValidAnswersAllow ==
  ASSUME Protocol!AnswerWasValid PROVE Protocol!FailedReviewNeverAllows
<1> SUFFICES ASSUME NEW settings \in Protocol!ValidPolicy, NEW action \in Protocol!Breach,
         Protocol!EvaluateAutomaticDisposition(settings, suggestion, action).disposition =
           "allow"
    PROVE valid /\ suggestion.decision = "allow" /\ ~suggestion.error
  BY DEF Protocol!FailedReviewNeverAllows
<1>1. suggestion.decision = "allow" /\ ~suggestion.error
  BY OnlyAllowsAllow DEF Protocol!AnswerWasValid
<1> QED BY <1>1 DEF Protocol!AnswerWasValid

\* What a failure or a decision makes of the suggestion.
LEMMA Answers ==
  ASSUME NEW d \in Protocol!Verdict, NEW r \in Protocol!ReportState, NEW e \in BOOLEAN
  PROVE  Protocol!Sug(d, e, r) \in Protocol!ReviewAnswer /\ Protocol!Sug(d, e, r).error = e
BY DEF Protocol!Sug, Protocol!ReviewAnswer

\* A review that fails keeps what its lines told.
LEMMA FailedSteps ==
  ASSUME Protocol!AnswerWasValid, Protocol!Fails
  PROVE  /\ Protocol!AnswerWasValid' /\ reviewerPc' = "done"
         /\ UNCHANGED <<provider, valid, published, nodes, surfaces, complete, frameErrors,
                        framing, lines, seen, repairs, progress, units>>
<1>1. PICK raw \in Protocol!Verdict : Protocol!FromError(raw)
  BY DEF Protocol!Fails, Protocol!Verdict
<1>2. Protocol!Sug(raw, TRUE, "missing") \in Protocol!ReviewAnswer
      /\ Protocol!Sug(raw, TRUE, "missing").error = TRUE
  BY Answers DEF Protocol!ReportState
<1> QED BY <1>1, <1>2
   DEF Protocol!Fails, Protocol!FromError, Protocol!AnswerWasValid, Protocol!accumulator,
       Protocol!turn, Protocol!guard

\* One line of the agent: a broken one is an error, whatever came before it.
LEMMA LineTold ==
  ASSUME Protocol!FramesDiffer, Protocol!LinesAreTold,
         NEW line \in Protocol!Line, Protocol!ReceiveLine(line)
  PROVE  Protocol!LinesAreTold'
<1>1. /\ provider = "acp" /\ provider' = provider
      /\ lines' = lines \cup ({line} \cap {"complete", "broken"})
      /\ \/ /\ complete' = (complete \/ line = "complete") /\ frameErrors' = frameErrors
            /\ Protocol!Framed(line)[2] = "frame" /\ Protocol!Acceptable(line)
         \/ /\ Protocol!Framed(line)[2] = "skip"
            /\ complete' = complete /\ frameErrors' = frameErrors
         \/ complete' = complete /\ frameErrors' = Append(frameErrors, line)
  BY DEF Protocol!ReceiveLine, Protocol!Telling, Protocol!Accepts, Protocol!accumulator
<1>2. line = "broken" => Protocol!Framed(line)[2] # "skip" /\ ~Protocol!Acceptable(line)
  BY DEF Protocol!Framed, Protocol!Acceptable, Protocol!FramesDiffer
<1>3. /\ frameErrors \in Seq(Protocol!Line) /\ frameErrors' \in Seq(Protocol!Line)
      /\ frameErrors # <<>> => frameErrors' # <<>>
      /\ line = "broken" => frameErrors' # <<>>
  BY <1>1, <1>2 DEF Protocol!LinesAreTold
<1>4. complete' => "complete" \in lines'
  BY <1>1 DEF Protocol!LinesAreTold
<1>5. "broken" \in lines' => frameErrors' # <<>>
  BY <1>1, <1>3 DEF Protocol!LinesAreTold
<1> QED BY <1>1, <1>3, <1>4, <1>5 DEF Protocol!LinesAreTold

\* Appending leaves no sequence empty.
LEMMA NeverEmpty ==
  ASSUME NEW S, NEW s \in Seq(S), NEW e \in S PROVE Append(s, e) # <<>>
<1>1. Len(Append(s, e)) = Len(s) + 1 /\ Len(s) \in Nat
  OBVIOUS
<1>2. Len(<<>>) = 0
  OBVIOUS
<1> QED BY <1>1, <1>2

\* Details that are finalized without an error had no broken line.
LEMMA FinalizedIsClean ==
  ASSUME Protocol!LinesAreTold, Protocol!Finalizes
  PROVE  /\ nodes = Node /\ surfaces = Surface
         /\ "complete" \in lines /\ "broken" \notin lines
<1>1. frameErrors = <<>>
  <2>1. frameErrors \in Seq(Protocol!Line)
    BY DEF Protocol!LinesAreTold
  <2>2. frameErrors \in Seq(Protocol!Line \cup {framing})
    BY <2>1
  <2>3. Append(frameErrors, framing) # <<>>
    BY <2>2, NeverEmpty
  <2> QED BY <2>3 DEF Protocol!Finalizes, Protocol!FinalErrors
<1> QED BY <1>1 DEF Protocol!LinesAreTold, Protocol!Finalizes, Protocol!Whole

\* Every step of a review keeps its invariant.
LEMMA ReviewerStepKeeps ==
  ASSUME Protocol!FramesDiffer, Protocol!IInv, [Protocol!Next]_(Protocol!vars)
  PROVE  Protocol!IInv'
<1>0. /\ Protocol!AnswerWasValid /\ Protocol!LinesAreTold /\ Protocol!CompleteIsFinal
      /\ Protocol!CompleteIsWhole
  BY DEF Protocol!IInv
<1> DEFINE Goal == /\ Protocol!AnswerWasValid' /\ Protocol!LinesAreTold'
                   /\ Protocol!CompleteIsFinal' /\ Protocol!CompleteIsWhole'
<1> SUFFICES Goal
  BY DEF Protocol!IInv
<1>1. CASE UNCHANGED Protocol!vars
  BY <1>0, <1>1 DEF Protocol!vars, Protocol!accumulator, Protocol!turn, Protocol!guard,
     Protocol!AnswerWasValid, Protocol!LinesAreTold, Protocol!CompleteIsFinal,
     Protocol!CompleteIsWhole
<1>2. ASSUME reviewerPc # "done", Protocol!Fails PROVE Goal
  BY <1>0, <1>2, FailedSteps DEF Protocol!LinesAreTold, Protocol!CompleteIsFinal,
     Protocol!CompleteIsWhole
<1>3. ASSUME NEW d \in Protocol!Verdict, NEW r \in {"missing", "within", "exceeded", "unknown"},
             Protocol!Suggests(d, r), valid' = TRUE,
             reviewerPc = "deciding" /\ reviewerPc' \in {"enriching", "done"},
             progress' \in {progress, "running"},
             UNCHANGED <<provider, nodes, surfaces, complete, frameErrors, framing, lines>>
      PROVE  Goal
  <2>1. Protocol!Sug(d, FALSE, r) \in Protocol!ReviewAnswer
    BY Answers DEF Protocol!ReportState
  <2>2. Protocol!AnswerWasValid'
    BY <1>3, <2>1 DEF Protocol!AnswerWasValid, Protocol!Suggests
  <2>3. progress # "complete"
    BY <1>0, <1>3 DEF Protocol!CompleteIsFinal
  <2> QED BY <1>0, <1>3, <2>2, <2>3 DEF Protocol!LinesAreTold, Protocol!CompleteIsFinal,
     Protocol!CompleteIsWhole
<1>4. ASSUME Protocol!AcpDecides \/ Protocol!HttpDecides \/ Protocol!HttpDecidesAtOnce
             \/ Protocol!ClaudeRefuses
      PROVE  Goal
  <2>1. PICK d \in Protocol!Verdict, r \in {"missing", "within", "exceeded", "unknown"} :
          /\ Protocol!Suggests(d, r) /\ valid' = TRUE
          /\ reviewerPc = "deciding" /\ reviewerPc' \in {"enriching", "done"}
          /\ progress' \in {progress, "running"}
          /\ UNCHANGED <<provider, nodes, surfaces, complete, frameErrors, framing, lines>>
    BY <1>4 DEF Protocol!AcpDecides, Protocol!HttpDecides, Protocol!HttpDecidesAtOnce,
       Protocol!ClaudeRefuses, Protocol!AcpDeciding, Protocol!HttpDeciding, Protocol!Publish,
       Protocol!accumulator, Protocol!turn, Protocol!Verdict
  <2> QED BY <1>3, <2>1
<1>5. ASSUME Protocol!AcpUnusable \/ (\E c \in BOOLEAN : Protocol!AcpTimesOut(c))
             \/ Protocol!AcpUnavailable \/ Protocol!HttpFails
             \/ (\E n \in 1..MaxToolCalls : Protocol!RunTools(n))
      PROVE  Goal
  <2>1. \/ reviewerPc # "done" /\ Protocol!Fails
        \/ UNCHANGED <<provider, reviewerPc, suggestion, valid, nodes, surfaces, complete,
                       frameErrors, framing, lines, progress>>
    BY <1>5 DEF Protocol!AcpUnusable, Protocol!AcpTimesOut, Protocol!AcpUnavailable,
       Protocol!HttpFails, Protocol!RunTools, Protocol!AcpDeciding, Protocol!HttpDeciding,
       Protocol!accumulator, Protocol!turn, Protocol!guard
  <2>2. CASE UNCHANGED <<provider, reviewerPc, suggestion, valid, nodes, surfaces, complete,
                         frameErrors, framing, lines, progress>>
    BY <1>0, <2>2 DEF Protocol!AnswerWasValid, Protocol!LinesAreTold,
       Protocol!CompleteIsFinal, Protocol!CompleteIsWhole
  <2> QED BY <1>2, <2>1, <2>2
<1>6. ASSUME NEW line \in Protocol!Line, Protocol!ReceiveLine(line) PROVE Goal
  <2>1. /\ UNCHANGED <<reviewerPc, suggestion, valid, progress>>
        /\ reviewerPc # "done"
    BY <1>6 DEF Protocol!ReceiveLine
  <2> QED BY <1>0, <1>6, <2>1, LineTold DEF Protocol!AnswerWasValid,
     Protocol!CompleteIsFinal, Protocol!CompleteIsWhole
<1>7. ASSUME NEW line \in Protocol!Frame, Protocol!AuditLine(line) PROVE Goal
  <2>1. /\ UNCHANGED <<provider, reviewerPc, suggestion, valid, progress, frameErrors>>
        /\ reviewerPc = "enriching" /\ provider # "acp"
        /\ lines' = lines \cup ({line} \cap {"complete", "broken"})
        /\ complete' = (complete \/ line = "complete") /\ line # "broken"
    BY <1>7 DEF Protocol!AuditLine, Protocol!HttpPhase, Protocol!Accepts, Protocol!Telling,
       Protocol!Frame, Protocol!FramesDiffer
  <2> QED BY <1>0, <2>1 DEF Protocol!AnswerWasValid, Protocol!LinesAreTold,
     Protocol!CompleteIsFinal, Protocol!CompleteIsWhole
<1>8. CASE Protocol!EnrichmentCompletes
  <2>1. /\ UNCHANGED <<provider, suggestion, valid, nodes, surfaces, complete, frameErrors,
                       lines>>
        /\ reviewerPc' = "done" /\ Protocol!Finalizes
    BY <1>8 DEF Protocol!EnrichmentCompletes, Protocol!Concludes, Protocol!accumulator,
       Protocol!turn
  <2> QED BY <1>0, <2>1, FinalizedIsClean DEF Protocol!AnswerWasValid,
     Protocol!LinesAreTold, Protocol!CompleteIsFinal, Protocol!CompleteIsWhole
<1>9. CASE Protocol!EnrichmentRepaired
  <2>1. /\ UNCHANGED <<provider, suggestion, valid, progress>>
        /\ reviewerPc # "done" /\ frameErrors' = <<>> /\ lines' = {} /\ complete' = FALSE
    BY <1>9 DEF Protocol!EnrichmentRepaired
  <2> QED BY <1>0, <2>1 DEF Protocol!AnswerWasValid, Protocol!LinesAreTold,
     Protocol!CompleteIsFinal, Protocol!CompleteIsWhole
<1>10. CASE Protocol!EnrichmentEnds \/ Protocol!EnrichmentLost
  <2>1. /\ UNCHANGED <<provider, suggestion, valid, complete, frameErrors, lines>>
        /\ reviewerPc' = "done" /\ progress' \in {"partial", "failed"}
    BY <1>10 DEF Protocol!EnrichmentEnds, Protocol!EnrichmentLost, Protocol!Concludes,
       Protocol!Unfinished, Protocol!accumulator, Protocol!turn
  <2> QED BY <1>0, <2>1 DEF Protocol!AnswerWasValid, Protocol!LinesAreTold,
     Protocol!CompleteIsFinal, Protocol!CompleteIsWhole
<1>11. CASE Protocol!AuditEnds
  <2>1. /\ UNCHANGED <<provider, valid, nodes, surfaces, complete, frameErrors, lines>>
        /\ reviewerPc' = "done" /\ provider # "acp"
        /\ progress' \in {"partial", "failed"} \/ Protocol!Whole
        /\ suggestion' \in {suggestion, Protocol!Sug("escalate", TRUE, "missing")}
    BY <1>11 DEF Protocol!AuditEnds, Protocol!FromError, Protocol!Unfinished,
       Protocol!accumulator, Protocol!turn
  <2>2. Protocol!AnswerWasValid'
    <3>1. Protocol!Sug("escalate", TRUE, "missing") \in Protocol!ReviewAnswer
          /\ Protocol!Sug("escalate", TRUE, "missing").error = TRUE
      BY Answers DEF Protocol!Verdict, Protocol!ReportState
    <3> QED BY <1>0, <2>1, <3>1 DEF Protocol!AnswerWasValid
  <2> QED BY <1>0, <2>1, <2>2 DEF Protocol!LinesAreTold, Protocol!CompleteIsFinal,
     Protocol!CompleteIsWhole, Protocol!Whole
<1>12. QED
  <2> HIDE DEF Goal
  <2> QED BY <1>1, <1>4, <1>5, <1>6, <1>7, <1>8, <1>9, <1>10, <1>11 DEF Protocol!Next

-----------------------------------------------------------------------------
(* The two decision functions                                              *)

\* Any input, and any input of a ticket, is valid.
LEMMA DisposingInit == ASSUME Disposing!Init PROVE Disposing!SharedIsTrusted
BY DEF Disposing!Init, Disposing!SharedIsTrusted

\* The step that shares a verdict keeps it so.
LEMMA ShareKeeps ==
  ASSUME Disposing!SharedIsTrusted, [Disposing!Share]_(Disposing!vars)
  PROVE  Disposing!SharedIsTrusted'
BY DEF Disposing!SharedIsTrusted, Disposing!Share, Disposing!vars

\* The guards that are left of a trusted review without an error are those of the ticket.
LEMMA TicketsAllowAlike ==
  ASSUME Disposing!SharedIsTrusted PROVE Disposing!TicketAllowsAsReview
<1> SUFFICES ASSUME ticketed
             PROVE  Disposing!Batched.disposition = "allow"
                      <=> Disposing!Reviewed.disposition = "allow"
  BY DEF Disposing!TicketAllowsAsReview
<1>1. ~evidence.error /\ evidence.trusted /\ evidence.report \in Disposing!ReportState
  BY DEF Disposing!SharedIsTrusted, Disposing!Sug
<1>2. CASE evidence.report \in {"invalid", "unknown"}
  BY <1>2 DEF Disposing!Batched, Disposing!Reviewed, Disposing!EvaluateAutomaticDisposition,
     Disposing!AutomaticDecisionFromBatch, Disposing!FailsClosed, Disposing!GuardedBatch,
     Disposing!SafeNonAllow
<1>3. CASE evidence.report \notin {"invalid", "unknown"}
  BY <1>1, <1>3 DEF Disposing!Batched, Disposing!Reviewed,
     Disposing!EvaluateAutomaticDisposition, Disposing!AutomaticDecisionFromBatch,
     Disposing!FailsClosed, Disposing!GuardedBatch, Disposing!BreaksExposure,
     Disposing!SafeNonAllow, Disposing!BreachDisposition
<1> QED BY <1>2, <1>3

-----------------------------------------------------------------------------
(* The composition: the components share no variable, so each step of the  *)
(* review is a step of one and leaves the others alone.                    *)

\* The store goes on as it does without the agent (run_prepared_evaluation writes what comes
\* back, whatever that is): the review only adds to its behaviours.
THEOREM StoreImplemented == ReviewSpec => Spec
<1>1. ReviewInit => Init
  BY DEF ReviewInit
<1>2. [ReviewNext]_reviewVars => [Next]_vars
  BY DEF ReviewNext, reviewVars, StoreStep, SupervisorStep, ClientStep, ReviewerStep, DecisionStep
<1> QED BY <1>1, <1>2, PTL DEF ReviewSpec, Spec

\* A step that leaves the supervisor alone keeps what is known of it.
LEMMA SupervisorRests ==
  ASSUME Supervisor!IInv, UNCHANGED supervisorVars PROVE Supervisor!IInv'
<1> USE DEF supervisorVars
<1>1. Supervisor!TypeOK' /\ Supervisor!WaitsOnce'
  BY DEF Supervisor!IInv, Supervisor!TypeOK, Supervisor!WaitsOnce, Supervisor!Queues
<1>2. Supervisor!OneOwner' /\ Supervisor!Made' /\ Supervisor!Opens'
  BY DEF Supervisor!IInv, Supervisor!OneOwner, Supervisor!Held, Supervisor!Made, Supervisor!Opens
<1>3. Supervisor!OneAtATime' /\ Supervisor!Between' /\ Supervisor!ProofHolds'
  BY DEF Supervisor!IInv, Supervisor!OneAtATime, Supervisor!Between, Supervisor!ProofHolds,
     Supervisor!Alive, Supervisor!Queues
<1> QED BY <1>1, <1>2, <1>3 DEF Supervisor!IInv

\* Turns keep to their sessions, and a retry finds the agent quiet (run_acp_supervisor).
THEOREM TurnsServed == ReviewSpec => []AgentServesOneTurn
<1>1. ReviewInit => Supervisor!IInv
  BY SupervisorInit DEF ReviewInit
<1>2. Supervisor!IInv /\ [ReviewNext]_reviewVars => Supervisor!IInv'
  <2> SUFFICES ASSUME Supervisor!IInv, [ReviewNext]_reviewVars PROVE Supervisor!IInv'
    OBVIOUS
  <2>1. Supervisor!Next \/ UNCHANGED supervisorVars
    BY DEF ReviewNext, reviewVars, StoreStep, SupervisorStep, ClientStep, ReviewerStep,
       DecisionStep
  <2> QED BY <2>1, ReviewAssumption, SupervisorStepKeeps, SupervisorRests
<1>3. Supervisor!IInv => AgentServesOneTurn
  BY TurnsAreServed DEF AgentServesOneTurn
<1> QED BY <1>1, <1>2, <1>3, PTL DEF ReviewSpec

\* The session that reviews run in was checked and is the one that was configured
\* (AcpSessionHealth, configure_session, validate_review).
THEOREM SessionChecked == ReviewSpec => []SessionIsAsChecked
<1>1. ReviewInit => Client!IInv
  BY ClientInit DEF ReviewInit
<1>2. Client!IInv /\ [ReviewNext]_reviewVars => Client!IInv'
  <2> SUFFICES ASSUME Client!IInv, [ReviewNext]_reviewVars PROVE Client!IInv'
    OBVIOUS
  <2>1. [Client!Next]_(Client!vars)
    BY DEF ReviewNext, reviewVars, StoreStep, SupervisorStep, ClientStep, ReviewerStep,
       DecisionStep, clientVars, Client!vars, Client!check, Client!selection, Client!stream,
       Client!workspace
  <2> QED BY <2>1, ReviewAssumption, ClientStepKeeps
<1>3. Client!IInv => SessionIsAsChecked
  BY DEF Client!IInv, SessionIsAsChecked
<1> QED BY <1>1, <1>2, <1>3, PTL DEF ReviewSpec

\* A failed review allows nothing, and complete details are complete (from_suggestion,
\* ReviewDetailRepairGuard).
THEOREM ReviewReported == ReviewSpec => []ReviewSaysWhatHappened
<1>1. ReviewInit => Protocol!IInv
  BY ReviewerInit DEF ReviewInit
<1>2. Protocol!IInv /\ [ReviewNext]_reviewVars => Protocol!IInv'
  <2> SUFFICES ASSUME Protocol!IInv, [ReviewNext]_reviewVars PROVE Protocol!IInv'
    OBVIOUS
  <2>1. [Protocol!Next]_(Protocol!vars)
    BY DEF ReviewNext, reviewVars, StoreStep, SupervisorStep, ClientStep, ReviewerStep,
       DecisionStep, reviewerVars, Protocol!vars, Protocol!deciding, Protocol!accumulator,
       Protocol!turn, Protocol!guard
  <2> QED BY <2>1, ReviewAssumption, ReviewerStepKeeps
<1>3. Protocol!IInv => ReviewSaysWhatHappened
  BY ValidAnswersAllow DEF Protocol!IInv, ReviewSaysWhatHappened
<1> QED BY <1>1, <1>2, <1>3, PTL DEF ReviewSpec

\* A shared verdict covers no request but one that repeats its own, and says of it what a
\* review would have said (automatic_decision_from_batch).
THEOREM TicketsSound == ReviewSpec => []TicketsAreSound
<1>1. ReviewInit => Disposing!SharedIsTrusted
  BY DisposingInit DEF ReviewInit
<1>2. Disposing!SharedIsTrusted /\ [ReviewNext]_reviewVars => Disposing!SharedIsTrusted'
  <2> SUFFICES ASSUME Disposing!SharedIsTrusted, [ReviewNext]_reviewVars
               PROVE  Disposing!SharedIsTrusted'
    OBVIOUS
  <2>1. [Disposing!Share]_(Disposing!vars)
    BY DEF ReviewNext, reviewVars, StoreStep, SupervisorStep, ClientStep, ReviewerStep,
       DecisionStep, decisionVars, Disposing!vars
  <2> QED BY <2>1, ShareKeeps
<1>3. TicketAuthority /\ Disposing!SharedIsTrusted => TicketsAreSound
  BY TicketsAllowAlike DEF TicketsAreSound
<1> QED BY <1>1, <1>2, <1>3, StoreImplemented, Sharing, PTL DEF ReviewSpec
=============================================================================
