---------------------------- MODULE CompactionProofs ----------------------------
(***************************************************************************)
(* Proofs about Compaction, for every bound: whatever is compacted and     *)
(* however often, the model is shown what was measured and what came       *)
(* since, and a summary has read what it hides.                            *)
(*                                                                         *)
(* A plan is made by three loops, one over the messages (the history), one *)
(* that groups what they show, and one over the groups from the newest     *)
(* back; the checkpoint it leads to is read by the first loop again.  The  *)
(* loops are related through keys: a history picks the messages whose run  *)
(* and request are visible (Picks), a group is a piece of it with one key  *)
(* (IsCut), and the keys a new checkpoint leaves visible are those of the  *)
(* groups that were kept (KeptIsVisible).  So what is retained is what     *)
(* will be shown (PlanHistory).                                            *)
(***************************************************************************)
EXTENDS Operations, FiniteSetTheorems, WellFoundedInduction, TLAPS

\* A bad number among the naturals has a smallest one: the induction the provers can follow.
LEMMA SmallestBad ==
  ASSUME NEW S \in SUBSET Nat, S # {}
  PROVE  \E n \in S : \A m \in S : ~(m < n)
<1>1. PICK n \in S : \A m \in S : <<m, n>> \notin OpToRel(<, Nat)
  BY WFMin, NatLessThanWellFounded, Zenon
<1>2. \A m \in S : ~(m < n)
  BY <1>1, Zenon DEF OpToRel
<1> QED BY <1>2

\* A loop's induction, over the set of rounds after which a fact holds.
LEMMA EveryRound ==
  ASSUME NEW N \in Nat, NEW G \in SUBSET (0..N), 0 \in G, \A n \in 1..N : n - 1 \in G => n \in G
  PROVE  \A n \in 0..N : n \in G
<1> DEFINE Bad == {n \in 0..N : n \notin G}
<1> SUFFICES ASSUME Bad # {} PROVE FALSE
  OBVIOUS
<1>1. Bad \in SUBSET Nat
  OBVIOUS
<1>2. PICK n \in Bad : \A m \in Bad : ~(m < n)
  BY <1>1, SmallestBad
<1>3. n \in 1..N /\ n - 1 \in 0..N
  BY <1>2
<1>4. n - 1 \in G
  BY <1>2, <1>3
<1> QED BY <1>2, <1>3, <1>4

-----------------------------------------------------------------------------
(***************************************************************************)
(* The loops of the module, over rounds.  HistoryOf is the history as a    *)
(* function of the checkpoint and the log.                                 *)
(***************************************************************************)
Key(m) == <<m.run, m.request>>

VisibleIn(c, m) == IF m.role = "user" THEN m.run \notin c.runs ELSE <<m.run, m.request>> \notin c.requests

Opening(c) == IF c.present THEN <<Summary>> ELSE <<>>

AddToGroups(groups, m) ==
  IF m.role = "tool" /\ groups # <<>> /\ \E a \in ToSet(Last(groups)) : Answers(a, m)
  THEN [groups EXCEPT ![Len(groups)] = Append(@, m)]
  ELSE Append(groups, <<m>>)

Round(x, kind, of, id) ==
  CASE kind = "history" -> IF VisibleIn(of, id) THEN Append(x, id) ELSE x
    [] kind = "keys"    -> IF Key(id) \in of THEN Append(x, id) ELSE x
    [] kind = "groups"  -> AddToGroups(x, id)

Iterates(g, n, start, kind, of, order) ==
  g = [s \in SUBSET (1..n) |->
         IF s = {} THEN start ELSE Round(g[s \ {Max(s)}], kind, of, order[Max(s)])]

\* The last round of a loop.
LEMMA MaxIs ==
  ASSUME NEW n \in Nat, NEW s \in SUBSET (1..n), s # {}
  PROVE  /\ Max(s) \in s /\ (\A m \in s : m <= Max(s))
         /\ n \in s => Max(s) = n
         /\ n \notin s /\ n > 0 => s \in SUBSET (1..(n - 1))
<1>1. \E m \in s : \A k \in s : m >= k
  <2> DEFINE Above == {m \in 0..n : \A k \in s : m >= k}
  <2>1. n \in Above /\ Above \in SUBSET Nat
    OBVIOUS
  <2>2. PICK m \in Above : \A k \in Above : ~(k < m)
    BY <2>1, SmallestBad
  <2>3. m \in s
    <3> SUFFICES ASSUME m \notin s PROVE FALSE
      OBVIOUS
    <3>1. PICK k \in s : TRUE
      OBVIOUS
    <3>2. m - 1 \in 0..n /\ \A j \in s : m - 1 >= j
      OBVIOUS
    <3> QED BY <3>2, <2>2
  <2> QED BY <2>3
<1>2. Max(s) \in s /\ (\A m \in s : m <= Max(s))
  BY <1>1 DEF Max
<1>3. n \in s => Max(s) = n
  <2>1. Max(s) \in 1..n
    BY <1>2
  <2> QED BY <1>2, <2>1
<1>4. n \notin s /\ n > 0 => s \in SUBSET (1..(n - 1))
  OBVIOUS
<1> QED BY <1>2, <1>3, <1>4

\* Every such loop has a function that runs it.
LEMMA IteratesExist ==
  ASSUME NEW N \in Nat, NEW start, NEW kind, NEW of, NEW order
  PROVE  \E g : Iterates(g, N, start, kind, of, order)
<1> DEFINE Bad == {n \in Nat : ~\E g : Iterates(g, n, start, kind, of, order)}
<1> SUFFICES ASSUME Bad # {} PROVE FALSE
  OBVIOUS
<1>1. PICK n \in Bad : \A m \in Bad : ~(m < n)
  BY SmallestBad
<1>2. n # 0
  <2> SUFFICES ASSUME n = 0 PROVE FALSE
    OBVIOUS
  <2> DEFINE g == [s \in SUBSET (1..0) |-> start]
  <2>1. \A s \in SUBSET (1..0) : s = {}
    OBVIOUS
  <2>2. g = [s \in SUBSET (1..0) |-> IF s = {} THEN start ELSE Round(g[s \ {Max(s)}], kind, of, order[Max(s)])]
    BY <2>1
  <2>3. Iterates(g, 0, start, kind, of, order)
    BY <2>2 DEF Iterates
  <2> QED BY <2>3
<1>3. n - 1 \in Nat /\ n - 1 \notin Bad
  BY <1>1, <1>2
<1>4. PICK g : Iterates(g, n - 1, start, kind, of, order)
  BY <1>3
<1> DEFINE h == [s \in SUBSET (1..n) |-> IF n \in s THEN Round(g[s \ {n}], kind, of, order[n]) ELSE g[s]]
<1>5. ASSUME NEW s \in SUBSET (1..n)
      PROVE  h[s] = IF s = {} THEN start ELSE Round(h[s \ {Max(s)}], kind, of, order[Max(s)])
  <2>1. n \in Nat
    BY <1>1
  <2>2. CASE s = {}
    <3>1. h[s] = g[s] /\ s \in SUBSET (1..(n - 1))
      BY <2>2
    <3> QED BY <3>1, <2>2, <1>4 DEF Iterates
  <2>3. CASE s # {} /\ n \in s
    <3>1. Max(s) = n
      BY <2>1, <2>3, MaxIs
    <3>2. h[s] = Round(g[s \ {n}], kind, of, order[n])
      BY <2>3
    <3>3. s \ {n} \in SUBSET (1..n) /\ n \notin s \ {n}
      OBVIOUS
    <3>4. h[s \ {n}] = g[s \ {n}]
      BY <3>3
    <3> QED BY <2>3, <3>1, <3>2, <3>4
  <2>4. CASE s # {} /\ n \notin s
    <3>1. s \in SUBSET (1..(n - 1))
      BY <1>2, <2>1, <2>4
    <3>2. h[s] = g[s]
      BY <2>4
    <3>3. s \ {Max(s)} \in SUBSET (1..n) /\ n \notin s \ {Max(s)}
      BY <2>4
    <3>4. h[s \ {Max(s)}] = g[s \ {Max(s)}]
      BY <3>3
    <3>5. g[s] = Round(g[s \ {Max(s)}], kind, of, order[Max(s)])
      BY <3>1, <2>4, <1>4 DEF Iterates
    <3> QED BY <2>4, <3>2, <3>4, <3>5
  <2> QED BY <2>2, <2>3, <2>4
<1>6. h = [s \in SUBSET (1..n) |-> h[s]]
  OBVIOUS
<1>7. Iterates(h, n, start, kind, of, order)
  <2> HIDE DEF h
  <2>1. [s \in SUBSET (1..n) |-> h[s]] =
          [s \in SUBSET (1..n) |-> IF s = {} THEN start ELSE Round(h[s \ {Max(s)}], kind, of, order[Max(s)])]
    BY <1>5
  <2> QED BY <1>6, <2>1 DEF Iterates
<1> QED BY <1>1, <1>7

\* f[n] is the outcome of the first n rounds of a loop.
Rounds(f, N, start, kind, of, order) ==
  /\ f[0] = start
  /\ \A n \in 1..N : f[n] = Round(f[n - 1], kind, of, order[n])

\* Its rounds, one by one.
LEMMA IteratesAreRounds ==
  ASSUME NEW N \in Nat, NEW start, NEW kind, NEW of, NEW order, NEW g, Iterates(g, N, start, kind, of, order)
  PROVE  \E f : Rounds(f, N, start, kind, of, order) /\ f[N] = g[1..N]
<1> DEFINE f == [n \in 0..N |-> g[1..n]]
<1>1. f[0] = start
  <2>1. f[0] = g[1..0] /\ 1..0 = {} /\ 1..0 \in SUBSET (1..N)
    OBVIOUS
  <2> QED BY <2>1 DEF Iterates
<1>2. ASSUME NEW n \in 1..N PROVE f[n] = Round(f[n - 1], kind, of, order[n])
  <2>1. f[n] = g[1..n] /\ f[n - 1] = g[1..(n - 1)]
    OBVIOUS
  <2>2. 1..n \in SUBSET (1..N) /\ 1..n # {} /\ (1..n) \ {n} = 1..(n - 1)
    OBVIOUS
  <2>3. Max(1..n) = n
    <3>1. n \in Nat /\ n \in 1..n
      OBVIOUS
    <3> QED BY <2>2, <3>1, MaxIs
  <2>4. g[1..n] = Round(g[(1..n) \ {Max(1..n)}], kind, of, order[Max(1..n)])
    BY <2>2 DEF Iterates
  <2> QED BY <2>1, <2>2, <2>3, <2>4
<1>3. f[N] = g[1..N]
  OBVIOUS
<1> HIDE DEF f
<1> QED BY <1>1, <1>2, <1>3 DEF Rounds

HistoryOf(c, messages) ==
  FoldLeft(LAMBDA shown, m : IF VisibleIn(c, m) THEN Append(shown, m) ELSE shown, Opening(c), messages)

\* The history is what a checkpoint makes of a log.
LEMMA HistoryNow ==
  /\ History = HistoryOf(checkpoint, log)
  /\ History' = HistoryOf(checkpoint', log')
<1>1. History = HistoryOf(checkpoint, log)
  BY DEF History, HistoryOf, FoldLeft, MapThenFoldSet, Show, IsShown, VisibleIn, Opening
<1>2. History' = HistoryOf(checkpoint', log')
  BY DEF History, HistoryOf, FoldLeft, MapThenFoldSet, Show, IsShown, VisibleIn, Opening
<1> QED BY <1>1, <1>2

\* buildModelHistory goes through the log message by message.
LEMMA HistoryRounds ==
  ASSUME NEW c, NEW messages, NEW N \in Nat, DOMAIN messages = 1..N
  PROVE  \E f : Rounds(f, N, Opening(c), "history", c, messages) /\ HistoryOf(c, messages) = f[N]
<1> DEFINE start == Opening(c)
           FoldStep(g) == g = [s \in SUBSET (1..N) |->
                             IF s = {} THEN start
                             ELSE IF VisibleIn(c, messages[Max(s)])
                                  THEN Append(g[s \ {Max(s)}], messages[Max(s)]) ELSE g[s \ {Max(s)}]]
           iter == CHOOSE g : FoldStep(g)
<1>1. HistoryOf(c, messages) = iter[1..N]
  BY DEF HistoryOf, FoldLeft, MapThenFoldSet
<1>2. \A x, id : Round(x, "history", c, id) = IF VisibleIn(c, id) THEN Append(x, id) ELSE x
  BY DEF Round
<1>3. \A g : FoldStep(g) <=> Iterates(g, N, start, "history", c, messages)
  BY <1>2 DEF Iterates
<1> HIDE DEF start
<1>4. \E g : FoldStep(g)
  BY <1>3, IteratesExist
<1>5. FoldStep(iter)
  BY <1>4
<1> HIDE DEF iter, FoldStep
<1>6. \E f : Rounds(f, N, start, "history", c, messages) /\ HistoryOf(c, messages) = f[N]
  BY <1>1, <1>3, <1>5, IteratesAreRounds
<1> QED BY <1>6 DEF start

\* grouped does so, too.
LEMMA GroupRounds ==
  ASSUME NEW messages, NEW N \in Nat, DOMAIN messages = 1..N
  PROVE  \E f : Rounds(f, N, <<>>, "groups", 0, messages) /\ Grouped(messages) = f[N]
<1> DEFINE FoldStep(g) == g = [s \in SUBSET (1..N) |->
                             IF s = {} THEN <<>> ELSE AddToGroups(g[s \ {Max(s)}], messages[Max(s)])]
           iter == CHOOSE g : FoldStep(g)
<1>1. Grouped(messages) = iter[1..N]
  BY DEF Grouped, FoldLeft, MapThenFoldSet, AddToGroups
<1>2. \A x, id : Round(x, "groups", 0, id) = AddToGroups(x, id)
  BY DEF Round
<1>3. \A g : FoldStep(g) <=> Iterates(g, N, <<>>, "groups", 0, messages)
  BY <1>2 DEF Iterates
<1>4. \E g : FoldStep(g)
  BY <1>3, IteratesExist
<1>5. FoldStep(iter)
  BY <1>4
<1> HIDE DEF iter, FoldStep
<1> QED BY <1>1, <1>3, <1>5, IteratesAreRounds

(***************************************************************************)
(* A loop from the newest back.                                            *)
(***************************************************************************)
IteratesBack(g, from, N, groups) ==
  g = [s \in SUBSET (from..N) |-> IF s = {} THEN NoPlan ELSE Split(groups[Min(s)], g[s \ {Min(s)}])]

\* The last round of a loop from the newest back.
LEMMA MinIs ==
  ASSUME NEW s \in SUBSET Nat, s # {}
  PROVE  /\ Min(s) \in s /\ (\A m \in s : Min(s) <= m)
         /\ \A n \in s : (\A m \in s : n <= m) => Min(s) = n
<1>1. PICK n \in s : \A m \in s : ~(m < n)
  BY SmallestBad
<1>2. \A m \in s : n <= m
  BY <1>1
<1>3. Min(s) \in s /\ (\A m \in s : Min(s) <= m)
  BY <1>2 DEF Min
<1>4. ASSUME NEW k \in s, \A m \in s : k <= m PROVE Min(s) = k
  <2>1. k <= Min(s) /\ Min(s) <= k /\ k \in Nat /\ Min(s) \in Nat
    BY <1>3, <1>4
  <2> QED BY <2>1
<1> QED BY <1>3, <1>4

\* Every loop from the newest back has a function that runs it.
LEMMA IteratesBackExist ==
  ASSUME NEW N \in Nat, NEW groups
  PROVE  \E g : IteratesBack(g, 1, N, groups)
<1> DEFINE Good(n) == \E g : IteratesBack(g, N + 1 - n, N, groups)
           G == {n \in 0..N : Good(n)}
<1>1. Good(0)
  <2> DEFINE g == [s \in SUBSET ((N + 1)..N) |-> NoPlan]
  <2>1. \A s \in SUBSET ((N + 1)..N) : s = {}
    OBVIOUS
  <2>2. g = [s \in SUBSET ((N + 1)..N) |-> IF s = {} THEN NoPlan ELSE Split(groups[Min(s)], g[s \ {Min(s)}])]
    BY <2>1
  <2>3. IteratesBack(g, N + 1 - 0, N, groups)
    BY <2>2 DEF IteratesBack
  <2> QED BY <2>3
<1>2. ASSUME NEW n \in 1..N, Good(n - 1) PROVE Good(n)
  <2> DEFINE k == N + 1 - n
  <2>0. k \in 1..N /\ N + 1 - (n - 1) = k + 1
    OBVIOUS
  <2>1. PICK g : IteratesBack(g, k + 1, N, groups)
    BY <1>2, <2>0
  <2> HIDE DEF k
  <2> DEFINE h == [s \in SUBSET (k..N) |-> IF k \in s THEN Split(groups[k], g[s \ {k}]) ELSE g[s]]
  <2>2. ASSUME NEW s \in SUBSET (k..N)
        PROVE  h[s] = IF s = {} THEN NoPlan ELSE Split(groups[Min(s)], h[s \ {Min(s)}])
    <3>1. k \in s \/ s \in SUBSET ((k + 1)..N)
      BY <2>0
    <3>2. s \in SUBSET Nat
      BY <2>0
    <3>3. CASE s = {}
      <4>1. h[s] = g[s] /\ s \in SUBSET ((k + 1)..N)
        BY <3>3
      <4> QED BY <4>1, <3>3, <2>1 DEF IteratesBack
    <3>4. CASE k \in s
      <4>1. \A m \in s : k <= m
        BY <2>0
      <4>2. Min(s) = k
        BY <3>2, <3>4, <4>1, MinIs
      <4>3. h[s] = Split(groups[k], g[s \ {k}])
        BY <3>4
      <4>4. s \ {k} \in SUBSET (k..N) /\ k \notin s \ {k}
        OBVIOUS
      <4>5. h[s \ {k}] = g[s \ {k}]
        BY <4>4
      <4> QED BY <3>4, <4>2, <4>3, <4>5
    <3>5. CASE s # {} /\ k \notin s
      <4>1. s \in SUBSET ((k + 1)..N)
        BY <3>1, <3>5
      <4>2. h[s] = g[s]
        BY <3>5
      <4>3. s \ {Min(s)} \in SUBSET (k..N) /\ k \notin s \ {Min(s)}
        BY <3>5
      <4>4. h[s \ {Min(s)}] = g[s \ {Min(s)}]
        BY <4>3
      <4>5. g[s] = Split(groups[Min(s)], g[s \ {Min(s)}])
        BY <4>1, <3>5, <2>1 DEF IteratesBack
      <4> QED BY <3>5, <4>2, <4>4, <4>5
    <3> QED BY <3>3, <3>4, <3>5
  <2>3. h = [s \in SUBSET (k..N) |-> h[s]]
    OBVIOUS
  <2>4. IteratesBack(h, k, N, groups)
    <3> HIDE DEF h
    <3>1. [s \in SUBSET (k..N) |-> h[s]] =
            [s \in SUBSET (k..N) |-> IF s = {} THEN NoPlan ELSE Split(groups[Min(s)], h[s \ {Min(s)}])]
      BY <2>2
    <3> QED BY <2>3, <3>1 DEF IteratesBack
  <2> QED BY <2>4 DEF k
<1> HIDE DEF Good
<1>3. G \in SUBSET (0..N) /\ 0 \in G /\ \A n \in 1..N : n - 1 \in G => n \in G
  BY <1>1, <1>2
<1>4. Good(N)
  <2> HIDE DEF G
  <2>1. N \in G
    BY <1>3, EveryRound
  <2> QED BY <2>1 DEF G
<1>5. N + 1 - N = 1
  OBVIOUS
<1> QED BY <1>4, <1>5 DEF Good

\* f[j] is the plan when the groups from j on have been looked at.
RoundsBack(f, N, groups) ==
  /\ f[N + 1] = NoPlan
  /\ \A j \in 1..N : f[j] = Split(groups[j], f[j + 1])

\* buildCompactionPlan goes through the groups from the newest back.
LEMMA PlanRounds ==
  ASSUME NEW N \in Nat, DOMAIN Grouped(History) = 1..N
  PROVE  \E f : RoundsBack(f, N, Grouped(History)) /\ BuildPlan = f[1]
<1> DEFINE groups == Grouped(History)
           FoldStep(g) == g = [s \in SUBSET (1..N) |-> IF s = {} THEN NoPlan ELSE Split(groups[Min(s)], g[s \ {Min(s)}])]
           iter == CHOOSE g : FoldStep(g)
<1>1. BuildPlan = iter[1..N]
  BY DEF BuildPlan, FoldRight, MapThenFoldSet
<1> HIDE DEF groups
<1>2. \A g : FoldStep(g) <=> IteratesBack(g, 1, N, groups)
  BY DEF IteratesBack
<1>3. \E g : FoldStep(g)
  BY <1>2, IteratesBackExist
<1>4. FoldStep(iter)
  BY <1>3
<1> HIDE DEF iter, FoldStep
<1> DEFINE f == [j \in 1..(N + 1) |-> iter[j..N]]
<1>5. f[N + 1] = NoPlan
  <2>1. f[N + 1] = iter[(N + 1)..N] /\ (N + 1)..N = {} /\ (N + 1)..N \in SUBSET (1..N)
    OBVIOUS
  <2> QED BY <2>1, <1>2, <1>4 DEF IteratesBack
<1>6. ASSUME NEW j \in 1..N PROVE f[j] = Split(groups[j], f[j + 1])
  <2>1. f[j] = iter[j..N] /\ f[j + 1] = iter[(j + 1)..N]
    OBVIOUS
  <2>2. j..N \in SUBSET (1..N) /\ j..N # {} /\ (j..N) \ {j} = (j + 1)..N
    OBVIOUS
  <2>3. Min(j..N) = j
    <3>1. j \in j..N /\ j..N \in SUBSET Nat /\ \A m \in j..N : j <= m
      OBVIOUS
    <3> QED BY <2>2, <3>1, MinIs
  <2>4. iter[j..N] = Split(groups[Min(j..N)], iter[(j..N) \ {Min(j..N)}])
    BY <2>2, <1>2, <1>4 DEF IteratesBack
  <2> QED BY <2>1, <2>2, <2>3, <2>4
<1>7. f[1] = iter[1..N]
  OBVIOUS
<1> HIDE DEF f
<1>8. RoundsBack(f, N, groups) /\ BuildPlan = f[1]
  BY <1>1, <1>5, <1>6, <1>7 DEF RoundsBack
<1> QED BY <1>8 DEF groups

-----------------------------------------------------------------------------
(***************************************************************************)
(* Every loop over messages picks those with certain keys, in their order. *)
(* A user's message is hidden with its run, an answer and its results with *)
(* their request: what is visible is a set of keys, too.                   *)
(***************************************************************************)
Visible(c) ==
  {k \in (1..MaxChatRuns) \X Nat : IF k[2] = 0 THEN k[1] \notin c.runs ELSE k \notin c.requests}

ChatType ==
  {m \in [role : {"user", "assistant", "tool"}, run : 1..MaxChatRuns, request : Nat, result : Nat] :
     m.role = "user" <=> m.request = 0}

MessageType == ChatType \cup {Summary}

Picks(f, s, N, start, T) ==
  /\ f[0] = start
  /\ \A n \in 1..N : f[n] = IF Key(s[n]) \in T THEN Append(f[n - 1], s[n]) ELSE f[n - 1]

\* Whether a message is hidden depends on its key.
LEMMA VisibleIs ==
  ASSUME NEW c, NEW m \in ChatType
  PROVE  VisibleIn(c, m) <=> Key(m) \in Visible(c)
BY DEF VisibleIn, Visible, Key, ChatType

\* The history picks the messages whose keys are visible.
LEMMA HistoryPicks ==
  ASSUME NEW c, NEW s \in Seq(ChatType)
  PROVE  \E f : Picks(f, s, Len(s), Opening(c), Visible(c)) /\ HistoryOf(c, s) = f[Len(s)]
<1>1. Len(s) \in Nat /\ DOMAIN s = 1..Len(s)
  OBVIOUS
<1>2. PICK f : Rounds(f, Len(s), Opening(c), "history", c, s) /\ HistoryOf(c, s) = f[Len(s)]
  BY <1>1, HistoryRounds
<1>3. ASSUME NEW n \in 1..Len(s)
      PROVE  f[n] = IF Key(s[n]) \in Visible(c) THEN Append(f[n - 1], s[n]) ELSE f[n - 1]
  <2>1. s[n] \in ChatType
    OBVIOUS
  <2>2. f[n] = IF VisibleIn(c, s[n]) THEN Append(f[n - 1], s[n]) ELSE f[n - 1]
    BY <1>2 DEF Rounds, Round
  <2> QED BY <2>1, <2>2, VisibleIs
<1> QED BY <1>2, <1>3 DEF Picks, Rounds

\* Messages can be picked by any keys.
LEMMA PicksExist ==
  ASSUME NEW s, NEW N \in Nat, NEW start, NEW T
  PROVE  \E f : Picks(f, s, N, start, T)
<1>1. PICK g : Iterates(g, N, start, "keys", T, s)
  BY IteratesExist
<1>2. PICK f : Rounds(f, N, start, "keys", T, s)
  BY <1>1, IteratesAreRounds
<1>3. Picks(f, s, N, start, T)
  BY <1>2 DEF Rounds, Round, Picks
<1> QED BY <1>3

\* What is picked first does not depend on what comes after.
LEMMA PicksAgree ==
  ASSUME NEW N \in Nat, NEW M \in Nat, N <= M, NEW start, NEW T, NEW s, NEW z, \A n \in 1..N : z[n] = s[n],
         NEW f, Picks(f, s, N, start, T), NEW g, Picks(g, z, M, start, T)
  PROVE  \A n \in 0..N : g[n] = f[n]
<1> DEFINE G == {n \in 0..N : g[n] = f[n]}
<1>1. 0 \in G
  BY DEF Picks
<1>2. ASSUME NEW n \in 1..N, n - 1 \in G PROVE n \in G
  <2>1. n \in 1..M /\ g[n - 1] = f[n - 1] /\ z[n] = s[n]
    BY <1>2
  <2> QED BY <2>1 DEF Picks
<1>3. G \in SUBSET (0..N)
  OBVIOUS
<1> HIDE DEF G
<1>4. \A n \in 0..N : n \in G
  BY <1>1, <1>2, <1>3, EveryRound
<1> QED BY <1>4 DEF G

\* What is picked are messages.
LEMMA PicksSeq ==
  ASSUME NEW S, NEW s \in Seq(S), NEW start \in Seq(S), NEW T, NEW f, Picks(f, s, Len(s), start, T)
  PROVE  \A n \in 0..Len(s) : f[n] \in Seq(S)
<1> DEFINE N == Len(s)
           G == {n \in 0..N : f[n] \in Seq(S)}
<1>1. 0 \in G
  BY DEF Picks
<1>2. ASSUME NEW n \in 1..N, n - 1 \in G PROVE n \in G
  <2>1. s[n] \in S /\ f[n - 1] \in Seq(S)
    BY <1>2
  <2>2. f[n] = Append(f[n - 1], s[n]) \/ f[n] = f[n - 1]
    BY DEF Picks
  <2>3. Append(f[n - 1], s[n]) \in Seq(S)
    BY <2>1
  <2>4. f[n] \in Seq(S)
    BY <2>1, <2>2, <2>3
  <2> QED BY <2>4
<1>3. G \in SUBSET (0..N) /\ N \in Nat
  OBVIOUS
<1> HIDE DEF G, N
<1>4. \A n \in 0..N : n \in G
  BY <1>1, <1>2, <1>3, EveryRound
<1> QED BY <1>4 DEF G, N

Starts(x, y) == Len(x) <= Len(y) /\ \A i \in 1..Len(x) : y[i] = x[i]

\* What is picked is only continued.
LEMMA PicksGrow ==
  ASSUME NEW S, NEW s \in Seq(S), NEW start \in Seq(S), NEW T, NEW f, Picks(f, s, Len(s), start, T)
  PROVE  \A m \in 0..Len(s) : \A n \in 0..m : Starts(f[n], f[m])
<1> DEFINE N == Len(s)
           G == {m \in 0..N : \A n \in 0..m : Starts(f[n], f[m])}
<1>0. \A n \in 0..N : f[n] \in Seq(S)
  BY PicksSeq
<1>1. 0 \in G
  <2>1. f[0] \in Seq(S) /\ \A n \in 0..0 : n = 0
    BY <1>0
  <2> QED BY <2>1 DEF Starts
<1>2. ASSUME NEW m \in 1..N, m - 1 \in G PROVE m \in G
  <2>1. f[m - 1] \in Seq(S) /\ f[m] \in Seq(S) /\ s[m] \in S
    BY <1>0
  <2>2. Starts(f[m - 1], f[m])
    <3>1. f[m] = Append(f[m - 1], s[m]) \/ f[m] = f[m - 1]
      BY DEF Picks
    <3>2. CASE f[m] = f[m - 1]
      BY <2>1, <3>2 DEF Starts
    <3>3. CASE f[m] = Append(f[m - 1], s[m])
      <4> DEFINE x == f[m - 1]
      <4>1. Len(Append(x, s[m])) = Len(x) + 1 /\ \A i \in 1..Len(x) : Append(x, s[m])[i] = x[i]
        BY <2>1
      <4>2. Len(x) \in Nat
        BY <2>1
      <4> HIDE DEF x
      <4>3. Starts(x, Append(x, s[m]))
        BY <4>1, <4>2 DEF Starts
      <4> QED BY <3>3, <4>3 DEF x
    <3> QED BY <3>1, <3>2, <3>3
  <2>3. ASSUME NEW n \in 0..m PROVE Starts(f[n], f[m])
    <3>1. CASE n = m
      BY <2>1, <3>1 DEF Starts
    <3>2. CASE n # m
      <4>1. n \in 0..(m - 1) /\ f[n] \in Seq(S)
        BY <1>0, <3>2
      <4>2. Starts(f[n], f[m - 1])
        BY <1>2, <4>1
      <4> QED BY <2>1, <2>2, <4>1, <4>2 DEF Starts
    <3> QED BY <3>1, <3>2
  <2> QED BY <2>3
<1>3. G \in SUBSET (0..N) /\ N \in Nat
  OBVIOUS
<1> HIDE DEF G, N
<1>4. \A n \in 0..N : n \in G
  BY <1>1, <1>2, <1>3, EveryRound
<1> QED BY <1>4 DEF G, N

\* Where a picked message is found.
LEMMA PickPlace ==
  ASSUME NEW S, NEW s \in Seq(S), NEW start \in Seq(S), NEW T, NEW f, Picks(f, s, Len(s), start, T),
         NEW n \in 1..Len(s), Key(s[n]) \in T
  PROVE  /\ Len(f[n]) = Len(f[n - 1]) + 1
         /\ Len(f[n]) \in 1..Len(f[Len(s)])
         /\ f[Len(s)][Len(f[n])] = s[n]
<1>1. f[n - 1] \in Seq(S) /\ f[n] \in Seq(S) /\ f[Len(s)] \in Seq(S) /\ s[n] \in S
  BY PicksSeq
<1>2. f[n] = Append(f[n - 1], s[n])
  BY DEF Picks
<1>3. Starts(f[n], f[Len(s)])
  BY PicksGrow
<1>4. Len(f[n]) = Len(f[n - 1]) + 1 /\ f[n][Len(f[n])] = s[n]
  BY <1>1, <1>2
<1> QED BY <1>1, <1>3, <1>4 DEF Starts

\* Where a message of the outcome comes from.
LEMMA PickSource ==
  ASSUME NEW S, NEW s \in Seq(S), NEW start \in Seq(S), NEW T, NEW f, Picks(f, s, Len(s), start, T)
  PROVE  \A n \in 0..Len(s) : \A p \in 1..Len(f[n]) :
           \/ p \in 1..Len(start) /\ f[n][p] = start[p]
           \/ \E i \in 1..n : f[n][p] = s[i] /\ Key(s[i]) \in T
<1> DEFINE N == Len(s)
           From(n, p) == \/ p \in 1..Len(start) /\ f[n][p] = start[p]
                         \/ \E i \in 1..n : f[n][p] = s[i] /\ Key(s[i]) \in T
           G == {n \in 0..N : \A p \in 1..Len(f[n]) : From(n, p)}
<1>1. 0 \in G
  BY DEF Picks
<1>2. ASSUME NEW n \in 1..N, n - 1 \in G PROVE n \in G
  <2>1. f[n - 1] \in Seq(S) /\ f[n] \in Seq(S) /\ s[n] \in S
    BY PicksSeq
  <2>2. ASSUME NEW p \in 1..Len(f[n]) PROVE From(n, p)
    <3>1. CASE p \in 1..Len(f[n - 1]) /\ f[n][p] = f[n - 1][p]
      <4>1. From(n - 1, p)
        BY <1>2, <3>1
      <4>2. 1..(n - 1) \subseteq 1..n
        OBVIOUS
      <4> QED BY <3>1, <4>1, <4>2
    <3>2. CASE Key(s[n]) \in T /\ f[n][p] = s[n]
      <4>1. n \in 1..n
        OBVIOUS
      <4> QED BY <3>2, <4>1
    <3>3. CASE Key(s[n]) \in T
      <4>1. f[n] = Append(f[n - 1], s[n])
        BY <3>3 DEF Picks
      <4> QED BY <2>1, <3>1, <3>2, <3>3, <4>1
    <3>4. CASE Key(s[n]) \notin T
      <4>1. f[n] = f[n - 1]
        BY <3>4 DEF Picks
      <4> QED BY <3>1, <4>1
    <3> QED BY <3>3, <3>4
  <2> QED BY <2>2
<1>3. G \in SUBSET (0..N) /\ N \in Nat
  OBVIOUS
<1> HIDE DEF G, N, From
<1>4. \A n \in 0..N : n \in G
  BY <1>1, <1>2, <1>3, EveryRound
<1> QED BY <1>4 DEF G, N, From

\* Picking fewer keys from what was picked is picking them at once.
LEMMA PickTwice ==
  ASSUME NEW S, NEW s \in Seq(S), NEW start \in Seq(S), NEW T, NEW f, Picks(f, s, Len(s), start, T),
         NEW U, \A n \in 1..Len(s) : Key(s[n]) \in U => Key(s[n]) \in T,
         NEW first, NEW g, Picks(g, s, Len(s), first, U),
         NEW e, e[Len(start)] = first,
         \A p \in (Len(start) + 1)..Len(f[Len(s)]) :
           e[p] = IF Key(f[Len(s)][p]) \in U THEN Append(e[p - 1], f[Len(s)][p]) ELSE e[p - 1]
  PROVE  g[Len(s)] = e[Len(f[Len(s)])]
<1> DEFINE N == Len(s)
           G == {n \in 0..N : g[n] = e[Len(f[n])]}
<1>1. 0 \in G
  BY DEF Picks
<1>2. ASSUME NEW n \in 1..N, n - 1 \in G PROVE n \in G
  <2>1. g[n - 1] = e[Len(f[n - 1])]
    BY <1>2
  <2>2. g[n] = IF Key(s[n]) \in U THEN Append(g[n - 1], s[n]) ELSE g[n - 1]
    BY DEF Picks
  <2>3. CASE Key(s[n]) \in T
    <3> DEFINE p == Len(f[n])
    <3>1. p = Len(f[n - 1]) + 1 /\ p \in 1..Len(f[N]) /\ f[N][p] = s[n]
      BY <2>3, PickPlace
    <3>2. Len(start) <= Len(f[n - 1]) /\ Len(f[n - 1]) \in Nat /\ Len(start) \in Nat
      <4>0. n - 1 \in 0..Len(s) /\ 0 \in 0..(n - 1)
        OBVIOUS
      <4>1. Starts(f[0], f[n - 1])
        BY <4>0, PicksGrow
      <4>2. f[0] = start /\ f[n - 1] \in Seq(S)
        BY <4>0, PicksSeq DEF Picks
      <4> QED BY <4>1, <4>2 DEF Starts
    <3>3. p \in (Len(start) + 1)..Len(f[N]) /\ p - 1 = Len(f[n - 1])
      BY <3>1, <3>2
    <3> HIDE DEF p
    <3>4. e[p] = IF Key(s[n]) \in U THEN Append(e[p - 1], s[n]) ELSE e[p - 1]
      BY <3>1, <3>3
    <3>5. g[n - 1] = e[p - 1]
      BY <2>1, <3>3
    <3>6. g[n] = e[p]
      BY <2>2, <3>4, <3>5
    <3> QED BY <3>6 DEF p
  <2>4. CASE Key(s[n]) \notin T
    <3>1. f[n] = f[n - 1]
      BY <2>4 DEF Picks
    <3>2. g[n] = g[n - 1]
      BY <2>2, <2>4
    <3>3. g[n] = e[Len(f[n])]
      BY <2>1, <3>1, <3>2
    <3> QED BY <3>3
  <2> QED BY <2>3, <2>4
<1>3. G \in SUBSET (0..N) /\ N \in Nat
  OBVIOUS
<1> HIDE DEF G, N
<1>4. \A n \in 0..N : n \in G
  BY <1>1, <1>2, <1>3, EveryRound
<1>5. N \in 0..N
  BY <1>3
<1> QED BY <1>4, <1>5 DEF G, N

-----------------------------------------------------------------------------
(***************************************************************************)
(* A result follows its answer or another result of it, and nothing else   *)
(* has the key of an earlier message.                                      *)
(***************************************************************************)
FitsAt(s, q) ==
  /\ s[q].role = "tool" => q > 1 /\ Key(s[q - 1]) = Key(s[q])
  /\ \A p \in 1..(q - 1) : Key(s[p]) = Key(s[q]) => s[q].role = "tool"

Turns(s) == \A q \in 1..Len(s) : FitsAt(s, q)

\* A history starts with the summary, or with nothing.
LEMMA OpeningIs ==
  ASSUME NEW start \in {<<>>, <<Summary>>}
  PROVE  /\ start \in Seq(MessageType) /\ (\A p \in 1..Len(start) : p = 1 /\ start[p] = Summary)
         /\ Len(start) = 0 \/ Len(start) = 1
<1>1. Summary \in MessageType
  BY DEF MessageType
<1>2. <<Summary>> \in Seq(MessageType) /\ Len(<<Summary>>) = 1 /\ <<Summary>>[1] = Summary
  <2> HIDE DEF MessageType
  <2> QED BY <1>1
<1>3. <<>> \in Seq(MessageType) /\ Len(<<>>) = 0
  OBVIOUS
<1>4. CASE start = <<>>
  BY <1>3, <1>4
<1>5. CASE start = <<Summary>>
  <2> HIDE DEF Summary
  <2> QED BY <1>2, <1>5
<1> QED BY <1>4, <1>5

\* What is shown of a conversation in turns is in turns.
LEMMA PicksTurns ==
  ASSUME NEW s \in Seq(MessageType), Turns(s), NEW start \in {<<>>, <<Summary>>}, NEW T,
         \A n \in 1..Len(s) : Key(s[n]) # Key(Summary),
         NEW f, Picks(f, s, Len(s), start, T)
  PROVE  Turns(f[Len(s)])
<1> DEFINE N == Len(s)
           InTurn(n) == /\ Turns(f[n])
                        /\ n > 0 /\ Key(s[n]) \in T => Len(f[n]) > 0 /\ f[n][Len(f[n])] = s[n]
           G == {n \in 0..N : InTurn(n)}
<1>0. start \in Seq(MessageType)
  BY OpeningIs
<1>1. 0 \in G
  <2>1. Turns(start)
    <3>1. start = <<>> \/ (Len(start) = 1 /\ start[1] = Summary)
      OBVIOUS
    <3>2. Summary.role # "tool"
      BY DEF Summary, Chat
    <3> QED BY <3>1, <3>2 DEF Turns, FitsAt
  <2> QED BY <2>1 DEF Picks
<1>2. ASSUME NEW n \in 1..N, n - 1 \in G PROVE n \in G
  <2>1. f[n - 1] \in Seq(MessageType) /\ f[n] \in Seq(MessageType) /\ s[n] \in MessageType
    BY <1>0, PicksSeq
  <2>2. CASE Key(s[n]) \notin T
    <3>1. f[n] = f[n - 1]
      BY <2>2 DEF Picks
    <3> QED BY <1>2, <2>2, <3>1
  <2>3. CASE Key(s[n]) \in T
    <3> DEFINE x == f[n - 1]
               y == f[n]
               q == Len(y)
    <3>1. /\ Len(x) \in Nat /\ q = Len(x) + 1 /\ y[q] = s[n] /\ \A i \in 1..Len(x) : y[i] = x[i]
      <4>1. y = Append(x, s[n])
        BY <2>3 DEF Picks
      <4> QED BY <2>1, <4>1
    <3>2. ASSUME NEW p \in 1..Len(x), Key(x[p]) = Key(s[n]) PROVE s[n].role = "tool"
      <4>1. (p \in 1..Len(start) /\ x[p] = start[p]) \/ \E i \in 1..(n - 1) : x[p] = s[i]
        <5>1. n - 1 \in 0..Len(s)
          OBVIOUS
        <5> QED BY <1>0, <5>1, PickSource
      <4>2. ~(p \in 1..Len(start) /\ x[p] = start[p])
        <5>1. p \in 1..Len(start) => start[p] = Summary
          OBVIOUS
        <5> QED BY <3>2, <5>1
      <4>3. PICK i \in 1..(n - 1) : x[p] = s[i]
        BY <4>1, <4>2
      <4> QED BY <3>2, <4>3 DEF Turns, FitsAt
    <3>3. ASSUME s[n].role = "tool" PROVE q > 1 /\ Key(y[q - 1]) = Key(s[n])
      <4>1. n > 1 /\ Key(s[n - 1]) = Key(s[n])
        BY <3>3 DEF Turns, FitsAt
      <4>2. Len(x) > 0 /\ x[Len(x)] = s[n - 1]
        BY <1>2, <2>3, <4>1
      <4>3. q > 1 /\ q - 1 \in 1..Len(x) /\ q - 1 = Len(x)
        BY <3>1, <4>2
      <4>4. y[q - 1] = x[Len(x)]
        BY <3>1, <4>3
      <4> QED BY <4>1, <4>2, <4>3, <4>4
    <3>4. Turns(x)
      BY <1>2
    <3> HIDE DEF x, y, q
    <3>5. ASSUME NEW r \in 1..q PROVE FitsAt(y, r)
      <4>1. CASE r = q
        <5>1. \A p \in 1..(q - 1) : p \in 1..Len(x) /\ y[p] = x[p]
          BY <3>1
        <5> QED BY <3>1, <3>2, <3>3, <4>1, <5>1 DEF FitsAt
      <4>2. CASE r # q
        <5>1. r \in 1..Len(x) /\ y[r] = x[r] /\ \A p \in 1..(r - 1) : y[p] = x[p]
          BY <3>1, <4>2
        <5>2. r > 1 => y[r - 1] = x[r - 1]
          BY <5>1
        <5>3. FitsAt(x, r)
          BY <3>4, <5>1 DEF Turns
        <5> QED BY <5>1, <5>2, <5>3 DEF FitsAt
      <4> QED BY <4>1, <4>2
    <3>6. Turns(y)
      BY <3>5 DEF Turns, q
    <3>7. Len(y) > 0 /\ y[Len(y)] = s[n]
      BY <3>1 DEF q
    <3> QED BY <3>6, <3>7 DEF y
  <2> QED BY <2>2, <2>3
<1>3. G \in SUBSET (0..N) /\ N \in Nat
  OBVIOUS
<1> HIDE DEF G, N, InTurn
<1>4. \A n \in 0..N : n \in G
  BY <1>1, <1>2, <1>3, EveryRound
<1>5. N \in 0..N
  BY <1>3
<1> QED BY <1>4, <1>5 DEF G, N, InTurn

\* After N messages z continues with new, up to K, all of it to be picked.
Continued(z, N, K, new, T) ==
  K = N + Len(new) /\ \A i \in 1..Len(new) : z[N + i] = new[i] /\ Key(new[i]) \in T

Joined(x, y, z) == z = x \o y

\* When all that follows is picked, it is appended.
LEMMA PicksAppend ==
  ASSUME NEW N \in Nat, NEW K, NEW T, NEW start, NEW new \in Seq(MessageType), NEW z,
         Continued(z, N, K, new, T), NEW g, Picks(g, z, K, start, T), g[N] \in Seq(MessageType)
  PROVE  Joined(g[N], new, g[K])
<1> DEFINE M == Len(new)
           y == g[N]
<1>0. M \in Nat /\ K = N + M /\ (\A i \in 1..M : z[N + i] = new[i] /\ Key(new[i]) \in T)
      /\ y \in Seq(MessageType) /\ Len(new) = M /\ g[N] = y
  BY DEF Continued
<1> HIDE DEF M, y
<1> SUFFICES g[K] = y \o new
  BY DEF y, Joined
<1> DEFINE L == Len(y)
           Said(i) == /\ g[N + i] \in Seq(MessageType) /\ Len(g[N + i]) = L + i
                      /\ \A p \in 1..L : g[N + i][p] = y[p]
                      /\ \A p \in 1..i : g[N + i][L + p] = new[p]
           G == {i \in 0..M : Said(i)}
<1>1. L \in Nat
  BY <1>0
<1>2. 0 \in G
  <2>1. N + 0 = N
    OBVIOUS
  <2>2. Said(0)
    BY <1>0, <1>1, <2>1
  <2> QED BY <1>0, <2>2
<1>3. ASSUME NEW i \in 1..M, i - 1 \in G PROVE i \in G
  <2> DEFINE x == g[N + (i - 1)]
             k == N + i
  <2>1. z[k] = new[i] /\ Key(new[i]) \in T /\ new[i] \in MessageType
    BY <1>0
  <2>2. k \in 1..K /\ k - 1 = N + (i - 1)
    BY <1>0
  <2>3. g[k] = Append(x, new[i])
    <3> HIDE DEF k
    <3>1. g[k] = IF Key(z[k]) \in T THEN Append(g[k - 1], z[k]) ELSE g[k - 1]
      BY <2>2 DEF Picks
    <3> QED BY <2>1, <2>2, <3>1
  <2>4. /\ x \in Seq(MessageType) /\ Len(x) = L + (i - 1)
        /\ \A p \in 1..L : x[p] = y[p]
        /\ \A p \in 1..(i - 1) : x[L + p] = new[p]
    <3>1. Said(i - 1)
      BY <1>3
    <3> HIDE DEF L, G
    <3> QED BY <3>1
  <2> HIDE DEF x, L, k
  <2>6. /\ Append(x, new[i]) \in Seq(MessageType) /\ Len(Append(x, new[i])) = L + i
        /\ \A p \in 1..(L + (i - 1)) : Append(x, new[i])[p] = x[p]
        /\ Append(x, new[i])[L + i] = new[i]
    BY <2>1, <2>4, <1>1
  <2>7. \A p \in 1..L : Append(x, new[i])[p] = y[p]
    BY <2>4, <1>1, <2>6
  <2>8. \A p \in 1..i : Append(x, new[i])[L + p] = new[p]
    <3> TAKE p \in 1..i
    <3>1. CASE p = i
      BY <2>6, <3>1
    <3>2. CASE p # i
      <4>1. p \in 1..(i - 1) /\ L + p \in 1..(L + (i - 1))
        BY <1>1, <3>2
      <4> QED BY <2>4, <2>6, <4>1
    <3> QED BY <3>1, <3>2
  <2>9. Said(i)
    BY <2>3, <2>6, <2>7, <2>8 DEF k
  <2> QED BY <2>9
<1>4. G \in SUBSET (0..M)
  OBVIOUS
<1>5. Said(M)
  <2> HIDE DEF G, Said
  <2>1. \A i \in 0..M : i \in G
    BY <1>0, <1>2, <1>3, <1>4, EveryRound
  <2>2. M \in 0..M
    BY <1>0
  <2> QED BY <2>1, <2>2 DEF G
<1> DEFINE x == g[K]
<1>6. /\ x \in Seq(MessageType) /\ Len(x) = Len(y) + Len(new)
      /\ \A p \in 1..Len(y) : x[p] = y[p]
      /\ \A p \in 1..Len(new) : x[Len(y) + p] = new[p]
  BY <1>0, <1>5
<1> HIDE DEF x, G, Said, L
<1>7. ASSUME NEW p \in 1..Len(x) PROVE x[p] = (y \o new)[p]
  <2>1. p \in 1..Len(y) \/ (p - Len(y) \in 1..Len(new) /\ p = Len(y) + (p - Len(y)))
    BY <1>0, <1>6
  <2>2. CASE p \in 1..Len(y)
    BY <1>0, <1>6, <2>2
  <2>3. CASE p - Len(y) \in 1..Len(new) /\ p = Len(y) + (p - Len(y))
    <3>1. x[p] = new[p - Len(y)]
      BY <1>0, <1>6, <2>3
    <3>2. (y \o new)[p] = new[p - Len(y)]
      BY <1>0, <1>6, <2>3
    <3> QED BY <3>1, <3>2
  <2> QED BY <2>1, <2>2, <2>3
<1>8. y \o new \in Seq(MessageType) /\ Len(y \o new) = Len(x)
  <2>1. y \in Seq(MessageType)
    BY <1>0
  <2>2. y \o new \in Seq(MessageType) /\ Len(y \o new) = Len(y) + Len(new)
    BY <2>1
  <2> QED BY <1>6, <2>2
<1>9. x = y \o new
  BY <1>0, <1>6, <1>7, <1>8
<1> QED BY <1>9 DEF x

\* Messages that are shown are appended to what is shown.
LEMMA HistoryAppends ==
  ASSUME NEW c, NEW s \in Seq(ChatType), NEW new \in Seq(ChatType),
         \A i \in 1..Len(new) : Key(new[i]) \in Visible(c)
  PROVE  HistoryOf(c, s \o new) = HistoryOf(c, s) \o new
<1> DEFINE N == Len(s)
           M == Len(new)
           z == s \o new
           K == Len(z)
           T == Visible(c)
           start == Opening(c)
<1>1. /\ z \in Seq(ChatType) /\ K = N + M /\ N \in Nat /\ M \in Nat /\ K \in Nat /\ N <= K
      /\ \A n \in 1..N : z[n] = s[n]
      /\ \A i \in 1..M : z[N + i] = new[i]
  OBVIOUS
<1>2. PICK f : Picks(f, s, N, start, T) /\ HistoryOf(c, s) = f[N]
  BY HistoryPicks
<1>3. PICK g : Picks(g, z, K, start, T) /\ HistoryOf(c, z) = g[K]
  BY <1>1, HistoryPicks
<1>5. f[N] \in Seq(MessageType) /\ new \in Seq(MessageType)
  <2>1. start \in Seq(MessageType)
    BY OpeningIs DEF Opening
  <2>2. s \in Seq(MessageType) /\ new \in Seq(MessageType)
    BY DEF MessageType
  <2>3. \A n \in 0..Len(s) : f[n] \in Seq(MessageType)
    <3> HIDE DEF start, T, MessageType
    <3> QED BY <1>2, <2>1, <2>2, PicksSeq
  <2> QED BY <2>2, <2>3
<1>6. \A i \in 1..M : z[N + i] = new[i] /\ Key(new[i]) \in T
  BY <1>1
<1>7. HistoryOf(c, s \o new) = g[K]
  BY <1>3
<1>8. Len(new) = M
  OBVIOUS
<1> HIDE DEF z, T, N, M, K, start
<1>9. g[N] = f[N]
  <2>1. \A n \in 0..N : g[n] = f[n]
    BY <1>1, <1>2, <1>3, PicksAgree
  <2> QED BY <1>1, <2>1
<1>10. g[K] = f[N] \o new
  <2>1. /\ N \in Nat /\ new \in Seq(MessageType) /\ g[N] \in Seq(MessageType)
        /\ Continued(z, N, K, new, T)
    BY <1>1, <1>5, <1>6, <1>8, <1>9 DEF Continued
  <2>2. Picks(g, z, K, start, T)
    BY <1>3
  <2>3. Joined(g[N], new, g[K])
    BY <2>1, <2>2, PicksAppend
  <2> QED BY <1>9, <2>3 DEF Joined
<1> QED BY <1>2, <1>7, <1>10

-----------------------------------------------------------------------------
(***************************************************************************)
(* What grouped makes of the first n messages: pieces that start at b, one *)
(* key to a piece, none of which starts with a result.                     *)
(***************************************************************************)
PieceOf(b, groups, s, j) ==
  /\ groups[j] \in Seq(MessageType) /\ Len(groups[j]) = b[j + 1] - b[j]
  /\ \A i \in 1..Len(groups[j]) : groups[j][i] = s[b[j] + i - 1] /\ Key(groups[j][i]) = Key(s[b[j]])
  /\ s[b[j]].role # "tool"

IsCut(b, groups, s, n) ==
  /\ groups \in Seq(Seq(MessageType))
  /\ b \in [1..(Len(groups) + 1) -> 1..(n + 1)]
  /\ b[1] = 1 /\ b[Len(groups) + 1] = n + 1
  /\ \A j, k \in 1..(Len(groups) + 1) : j < k => b[j] < b[k]
  /\ \A j \in 1..Len(groups) : PieceOf(b, groups, s, j)
  /\ \A p \in 1..n : \E j \in 1..Len(groups) : b[j] <= p /\ p < b[j + 1]

\* A result has its answer in the last group.
LEMMA ResultOfLast ==
  ASSUME NEW s \in Seq(MessageType), Turns(s), NEW n \in 1..Len(s), NEW x, NEW b, IsCut(b, x, s, n - 1),
         s[n].role = "tool"
  PROVE  /\ Len(x) > 0 /\ Key(s[b[Len(x)]]) = Key(s[n])
         /\ \E a \in ToSet(Last(x)) : Answers(a, s[n])
<1> DEFINE K == Len(x)
           m == s[n]
<1>1. n > 1 /\ Key(s[n - 1]) = Key(m)
  BY DEF Turns, FitsAt
<1>2. x \in Seq(Seq(MessageType)) /\ K \in Nat /\ b[1] = 1 /\ b[K + 1] = n
  BY DEF IsCut
<1>3. K > 0
  BY <1>1, <1>2
<1>4. K \in 1..K /\ PieceOf(b, x, s, K) /\ b[K] < b[K + 1] /\ b[K] \in Nat /\ b[K] >= 1
  <2>1. K \in 1..K /\ K \in 1..(K + 1) /\ K + 1 \in 1..(K + 1) /\ K < K + 1
    BY <1>2, <1>3
  <2> QED BY <2>1 DEF IsCut
<1> DEFINE g == x[K]
<1>5. g \in Seq(MessageType) /\ Len(g) = n - b[K] /\ Len(g) \in 1..Len(g) /\ 1 \in 1..Len(g)
  BY <1>2, <1>4 DEF PieceOf
<1>6. /\ g[Len(g)] = s[b[K] + Len(g) - 1] /\ Key(g[Len(g)]) = Key(s[b[K]])
      /\ g[1] = s[b[K] + 1 - 1] /\ Key(g[1]) = Key(s[b[K]])
  BY <1>4, <1>5 DEF PieceOf
<1>7. b[K] + Len(g) - 1 = n - 1 /\ b[K] + 1 - 1 = b[K]
  BY <1>4, <1>5
<1>8. Key(s[b[K]]) = Key(m) /\ g[1] = s[b[K]]
  BY <1>1, <1>6, <1>7
<1>9. Last(x) = g /\ g[1] \in ToSet(g)
  BY <1>5 DEF Last, ToSet
<1>10. Answers(g[1], m)
  <2>1. g[1] \in MessageType /\ m \in MessageType
    BY <1>5
  <2>2. g[1].role # "tool"
    BY <1>4, <1>8 DEF PieceOf
  <2>3. g[1].run = m.run /\ g[1].request = m.request
    BY <1>8 DEF Key
  <2> QED BY <2>1, <2>2, <2>3 DEF Answers, MessageType, ChatType, Summary, Chat
<1> QED BY <1>3, <1>8, <1>9, <1>10

\* A result goes on the last group.
LEMMA GroupGoesOn ==
  ASSUME NEW s \in Seq(MessageType), NEW n \in 1..Len(s), NEW x, NEW b, IsCut(b, x, s, n - 1),
         Len(x) > 0, Key(s[b[Len(x)]]) = Key(s[n])
  PROVE  \E c : IsCut(c, [x EXCEPT ![Len(x)] = Append(@, s[n])], s, n)
<1> DEFINE K == Len(x)
           m == s[n]
           y == [x EXCEPT ![K] = Append(@, m)]
           c == [b EXCEPT ![K + 1] = n + 1]
<1>0. n \in Nat /\ n >= 1
  OBVIOUS
<1>1. /\ x \in Seq(Seq(MessageType)) /\ K \in Nat /\ m \in MessageType
      /\ b \in [1..(K + 1) -> 1..n] /\ b[1] = 1 /\ b[K + 1] = n /\ K \in 1..K
  BY DEF IsCut
<1>rising. \A j, k \in 1..(K + 1) : j < k => b[j] < b[k]
  BY DEF IsCut
<1>pieces. \A j \in 1..K : PieceOf(b, x, s, j)
  BY DEF IsCut
<1>whole. \A p \in 1..(n - 1) : \E j \in 1..K : b[j] <= p /\ p < b[j + 1]
  BY DEF IsCut
<1>2. /\ y \in Seq(Seq(MessageType)) /\ Len(y) = K /\ y[K] = Append(x[K], m)
      /\ \A j \in 1..K : j # K => y[j] = x[j]
  <2>1. x[K] \in Seq(MessageType)
    BY <1>1
  <2>2. Append(x[K], m) \in Seq(MessageType)
    BY <1>1, <2>1
  <2> QED BY <1>1, <2>2
<1>3. /\ c \in [1..(K + 1) -> 1..(n + 1)] /\ c[1] = 1 /\ c[K + 1] = n + 1
      /\ \A j \in 1..K : c[j] = b[j]
  BY <1>1
<1> HIDE DEF y, c, K, m
<1>4. ASSUME NEW j \in 1..(K + 1), NEW k \in 1..(K + 1), j < k PROVE c[j] < c[k]
  <2>1. j \in 1..K /\ K \in Nat
    BY <1>1, <1>4
  <2>2. c[j] = b[j] /\ b[j] < b[k] /\ b[j] \in 1..n /\ b[k] \in 1..n
    BY <1>0, <1>1, <1>3, <1>4, <1>rising, <2>1
  <2>3. k = K + 1 \/ k \in 1..K
    BY <2>1
  <2>4. k = K + 1 => c[k] = n + 1
    BY <1>3
  <2>5. k \in 1..K => c[k] = b[k]
    BY <1>3
  <2> QED BY <1>0, <2>2, <2>3, <2>4, <2>5
<1>5. ASSUME NEW j \in 1..K PROVE PieceOf(c, y, s, j)
  <2>1. PieceOf(b, x, s, j) /\ c[j] = b[j]
    BY <1>3, <1>pieces
  <2>2. CASE j # K
    <3>1. y[j] = x[j] /\ j + 1 \in 1..K /\ c[j + 1] = b[j + 1]
      BY <1>1, <1>2, <1>3, <2>2
    <3> QED BY <2>1, <3>1 DEF PieceOf
  <2>3. CASE j = K
    <3> DEFINE g == x[K]
    <3>1. /\ g \in Seq(MessageType) /\ Len(g) = n - b[K] /\ b[K] \in 1..n
          /\ \A i \in 1..Len(g) : g[i] = s[b[K] + i - 1] /\ Key(g[i]) = Key(s[b[K]])
          /\ s[b[K]].role # "tool"
      <4>1. PieceOf(b, x, s, K)
        BY <1>1, <1>pieces
      <4>2. b[K + 1] = n /\ b[K] \in 1..n
        BY <1>1
      <4> QED BY <4>1, <4>2 DEF PieceOf
    <3> HIDE DEF g, m
    <3>2. /\ Append(g, m) \in Seq(MessageType) /\ Len(Append(g, m)) = n + 1 - b[K]
          /\ \A i \in 1..Len(g) : Append(g, m)[i] = g[i]
          /\ Append(g, m)[Len(g) + 1] = m /\ Len(Append(g, m)) = Len(g) + 1
      BY <1>0, <1>1, <3>1
    <3>3. m = s[b[K] + (Len(g) + 1) - 1] /\ Key(m) = Key(s[b[K]])
      <4>1. b[K] + (Len(g) + 1) - 1 = n
        BY <1>0, <3>1
      <4>2. m = s[n]
        BY DEF m
      <4>3. s[b[K] + (Len(g) + 1) - 1] = s[n]
        BY <4>1
      <4>4. Key(s[n]) = Key(s[b[K]])
        BY <1>1 DEF K
      <4> QED BY <4>2, <4>3, <4>4
    <3>4. ASSUME NEW i \in 1..Len(Append(g, m))
          PROVE  Append(g, m)[i] = s[b[K] + i - 1] /\ Key(Append(g, m)[i]) = Key(s[b[K]])
      <4>1. i \in 1..Len(g) \/ i = Len(g) + 1
        <5>1. Len(g) \in Nat
          BY <3>1
        <5> QED BY <3>2, <5>1
      <4> QED BY <3>1, <3>2, <3>3, <4>1
    <3>5. y[K] = Append(g, m) /\ c[K] = b[K] /\ c[K + 1] - c[K] = n + 1 - b[K]
      BY <1>1, <1>2, <1>3 DEF g, m
    <3> QED BY <2>3, <3>1, <3>2, <3>4, <3>5 DEF PieceOf
  <2> QED BY <2>2, <2>3
<1>6. ASSUME NEW p \in 1..n PROVE \E j \in 1..K : c[j] <= p /\ p < c[j + 1]
  <2>1. CASE p = n
    <3>1. c[K] <= p /\ p < c[K + 1]
      BY <1>0, <1>1, <1>3, <2>1
    <3> QED BY <1>1, <3>1
  <2>2. CASE p # n
    <3>1. p \in 1..(n - 1)
      BY <2>2
    <3>2. PICK j \in 1..K : b[j] <= p /\ p < b[j + 1]
      BY <1>whole, <3>1
    <3>3. c[j] = b[j] /\ (c[j + 1] = b[j + 1] \/ c[j + 1] = n + 1)
      <4>1. j + 1 \in 1..K \/ j + 1 = K + 1
        BY <1>1
      <4> QED BY <1>3, <4>1
    <3> QED BY <3>2, <3>3
  <2> QED BY <2>1, <2>2
<1>7. IsCut(c, y, s, n)
  BY <1>2, <1>3, <1>4, <1>5, <1>6 DEF IsCut
<1> QED BY <1>7 DEF y, K, m

\* Any other message starts a group.
LEMMA GroupStarts ==
  ASSUME NEW s \in Seq(MessageType), NEW n \in 1..Len(s), NEW x, NEW b, IsCut(b, x, s, n - 1), s[n].role # "tool"
  PROVE  \E c : IsCut(c, Append(x, <<s[n]>>), s, n)
<1> DEFINE K == Len(x)
           m == s[n]
           y == Append(x, <<m>>)
           c == [j \in 1..(K + 2) |-> IF j = K + 2 THEN n + 1 ELSE b[j]]
<1>0. n \in Nat /\ n >= 1
  OBVIOUS
<1>1. /\ x \in Seq(Seq(MessageType)) /\ K \in Nat /\ m \in MessageType
      /\ b \in [1..(K + 1) -> 1..n] /\ b[1] = 1 /\ b[K + 1] = n
  BY DEF IsCut
<1>rising. \A j, k \in 1..(K + 1) : j < k => b[j] < b[k]
  BY DEF IsCut
<1>pieces. \A j \in 1..K : PieceOf(b, x, s, j)
  BY DEF IsCut
<1>whole. \A p \in 1..(n - 1) : \E j \in 1..K : b[j] <= p /\ p < b[j + 1]
  BY DEF IsCut
<1> DEFINE one == <<m>>
<1>2. one \in Seq(MessageType) /\ Len(one) = 1 /\ one[1] = m
  <2> HIDE DEF m, MessageType
  <2> QED BY <1>1
<1> HIDE DEF one
<1>3. /\ y \in Seq(Seq(MessageType)) /\ Len(y) = K + 1 /\ y[K + 1] = one
      /\ \A j \in 1..K : y[j] = x[j]
  <2>1. y = Append(x, one)
    BY DEF one
  <2> HIDE DEF y
  <2> QED BY <1>1, <1>2, <2>1
<1>4. /\ c \in [1..(K + 2) -> 1..(n + 1)] /\ c[1] = 1 /\ c[K + 2] = n + 1
      /\ \A j \in 1..(K + 1) : c[j] = b[j]
  BY <1>1
<1> HIDE DEF y, c, K, m
<1>5. ASSUME NEW j \in 1..(K + 2), NEW k \in 1..(K + 2), j < k PROVE c[j] < c[k]
  <2>1. j \in 1..(K + 1) /\ c[j] = b[j] /\ b[j] \in 1..n
    BY <1>0, <1>1, <1>4, <1>5
  <2>2. CASE k = K + 2
    BY <1>0, <1>4, <2>1, <2>2
  <2>3. CASE k # K + 2
    <3>1. k \in 1..(K + 1)
      BY <1>1, <2>3
    <3> QED BY <1>4, <1>5, <1>rising, <2>1, <3>1
  <2> QED BY <2>2, <2>3
<1>6. ASSUME NEW j \in 1..(K + 1) PROVE PieceOf(c, y, s, j)
  <2>1. CASE j # K + 1
    <3>1. j \in 1..K /\ y[j] = x[j] /\ c[j] = b[j] /\ c[j + 1] = b[j + 1] /\ PieceOf(b, x, s, j)
      <4>1. j \in 1..K /\ j + 1 \in 1..(K + 1)
        BY <1>1, <2>1
      <4> QED BY <1>3, <1>4, <1>pieces, <4>1
    <3> QED BY <3>1 DEF PieceOf
  <2>2. CASE j = K + 1
    <3>1. y[j] = one /\ c[j] = n /\ c[j + 1] = n + 1
      <4>1. K + 1 \in 1..(K + 1) /\ (K + 1) + 1 = K + 2
        BY <1>1
      <4>2. c[K + 1] = n
        BY <1>1, <1>4, <4>1
      <4> QED BY <1>3, <1>4, <2>2, <4>1, <4>2
    <3>2. \A i \in 1..Len(one) : i = 1 /\ n + i - 1 = n
      BY <1>2
    <3>3. s[n] = m /\ m.role # "tool"
      BY DEF m
    <3>4. /\ y[j] \in Seq(MessageType) /\ Len(y[j]) = c[j + 1] - c[j] /\ s[c[j]].role # "tool"
      BY <1>0, <1>2, <3>1, <3>3
    <3>5. \A i \in 1..Len(y[j]) : y[j][i] = s[c[j] + i - 1] /\ Key(y[j][i]) = Key(s[c[j]])
      BY <1>2, <3>1, <3>2, <3>3
    <3> QED BY <3>4, <3>5 DEF PieceOf
  <2> QED BY <2>1, <2>2
<1>7. ASSUME NEW p \in 1..n PROVE \E j \in 1..(K + 1) : c[j] <= p /\ p < c[j + 1]
  <2>1. CASE p = n
    <3>0. K + 1 \in 1..(K + 1) /\ (K + 1) + 1 = K + 2
      BY <1>1
    <3>1. c[K + 1] <= p /\ p < c[(K + 1) + 1] /\ K + 1 \in 1..(K + 1)
      BY <1>0, <1>1, <1>4, <2>1, <3>0
    <3> QED BY <3>1
  <2>2. CASE p # n
    <3>1. p \in 1..(n - 1)
      BY <2>2
    <3>2. PICK j \in 1..K : b[j] <= p /\ p < b[j + 1]
      BY <1>whole, <3>1
    <3>3. c[j] = b[j] /\ c[j + 1] = b[j + 1] /\ j \in 1..(K + 1)
      <4>1. j \in 1..(K + 1) /\ j + 1 \in 1..(K + 1)
        BY <1>1
      <4> QED BY <1>4, <4>1
    <3> QED BY <3>2, <3>3
  <2> QED BY <2>1, <2>2
<1>8. IsCut(c, y, s, n)
  <2>1. Len(y) + 1 = K + 2
    BY <1>1, <1>3
  <2> QED BY <1>3, <1>4, <1>5, <1>6, <1>7, <2>1 DEF IsCut
<1> QED BY <1>8 DEF y, m

\* The groups are the messages, cut into pieces.
LEMMA GroupedIsCut ==
  ASSUME NEW s \in Seq(MessageType), Turns(s)
  PROVE  \E b : IsCut(b, Grouped(s), s, Len(s))
<1> DEFINE N == Len(s)
<1>1. N \in Nat /\ DOMAIN s = 1..N
  OBVIOUS
<1>2. PICK f : Rounds(f, N, <<>>, "groups", 0, s) /\ Grouped(s) = f[N]
  BY <1>1, GroupRounds
<1> DEFINE G == {n \in 0..N : \E b : IsCut(b, f[n], s, n)}
<1>3. 0 \in G
  <2> DEFINE b == [j \in 1..1 |-> 1]
  <2>1. b \in [1..1 -> 1..1] /\ b[1] = 1
    OBVIOUS
  <2> HIDE DEF b
  <2>2. f[0] = <<>> /\ <<>> \in Seq(Seq(MessageType)) /\ Len(<<>>) = 0
    BY <1>2 DEF Rounds
  <2>3. IsCut(b, <<>>, s, 0)
    BY <2>1, <2>2 DEF IsCut
  <2> QED BY <2>2, <2>3
<1>4. ASSUME NEW n \in 1..N, n - 1 \in G PROVE n \in G
  <2>1. PICK b : IsCut(b, f[n - 1], s, n - 1)
    BY <1>4
  <2> DEFINE x == f[n - 1]
  <2>2. f[n] = AddToGroups(x, s[n])
    BY <1>2 DEF Rounds, Round
  <2>3. x \in Seq(Seq(MessageType))
    BY <2>1 DEF IsCut
  <2> HIDE DEF x
  <2>4. IsCut(b, x, s, n - 1)
    BY <2>1 DEF x
  <2>5. CASE s[n].role = "tool"
    <3>1. Len(x) > 0 /\ Key(s[b[Len(x)]]) = Key(s[n]) /\ \E a \in ToSet(Last(x)) : Answers(a, s[n])
      BY <2>4, <2>5, ResultOfLast
    <3>2. x # <<>>
      BY <2>3, <3>1
    <3>3. f[n] = [x EXCEPT ![Len(x)] = Append(@, s[n])]
      BY <2>2, <2>5, <3>1, <3>2 DEF AddToGroups
    <3>4. \E c : IsCut(c, [x EXCEPT ![Len(x)] = Append(@, s[n])], s, n)
      BY <2>4, <3>1, GroupGoesOn
    <3> QED BY <3>3, <3>4
  <2>6. CASE s[n].role # "tool"
    <3>1. f[n] = Append(x, <<s[n]>>)
      BY <2>2, <2>6 DEF AddToGroups
    <3>2. \E c : IsCut(c, Append(x, <<s[n]>>), s, n)
      BY <2>4, <2>6, GroupStarts
    <3>3. \E c : IsCut(c, f[n], s, n)
      BY <3>1, <3>2
    <3> QED BY <3>3
  <2> QED BY <2>5, <2>6
<1>5. G \in SUBSET (0..N)
  OBVIOUS
<1>6. N \in G
  <2> HIDE DEF G, N
  <2>1. \A n \in 0..N : n \in G
    BY <1>1, <1>3, <1>4, <1>5, EveryRound
  <2>2. N \in 0..N
    BY <1>1
  <2> QED BY <2>1, <2>2
<1> QED BY <1>2, <1>6

\* The induction of a loop from the newest back.
LEMMA EveryRoundBack ==
  ASSUME NEW N \in Nat, NEW G \in SUBSET (1..(N + 1)), N + 1 \in G, \A j \in 1..N : j + 1 \in G => j \in G
  PROVE  \A j \in 1..(N + 1) : j \in G
<1> DEFINE F == {n \in 0..N : N + 1 - n \in G}
<1>1. F \in SUBSET (0..N) /\ 0 \in F
  OBVIOUS
<1>2. ASSUME NEW n \in 1..N, n - 1 \in F PROVE n \in F
  <2>1. N + 1 - n \in 1..N /\ (N + 1 - n) + 1 = N + 1 - (n - 1) /\ n \in 0..N
    OBVIOUS
  <2>2. N + 1 - (n - 1) \in G
    BY <1>2
  <2>3. N + 1 - n \in G
    BY <2>1, <2>2
  <2> QED BY <2>1, <2>3
<1> HIDE DEF F
<1>3. \A n \in 0..N : n \in F
  BY <1>1, <1>2, EveryRound
<1>4. ASSUME NEW j \in 1..(N + 1) PROVE j \in G
  <2>1. N + 1 - j \in 0..N /\ N + 1 - (N + 1 - j) = j
    OBVIOUS
  <2>2. N + 1 - j \in F
    BY <1>3, <2>1
  <2>3. N + 1 - (N + 1 - j) \in G
    BY <2>2 DEF F
  <2> QED BY <2>1, <2>3
<1> QED BY <1>4

-----------------------------------------------------------------------------
(***************************************************************************)
(* The plan, from the newest group back.                                   *)
(***************************************************************************)
PlanType == [selected : Seq(MessageType), retained : Seq(MessageType), tokens : Nat]

\* A group is retained or selected as a whole, before what is newer.
LEMMA SplitIs ==
  ASSUME NEW group \in Seq(MessageType), NEW split \in PlanType
  PROVE  /\ Split(group, split) \in PlanType
         /\ Kept(group, split.tokens) => /\ Split(group, split).retained = group \o split.retained
                                         /\ Split(group, split).selected = split.selected
         /\ ~Kept(group, split.tokens) => /\ Split(group, split).selected = group \o split.selected
                                          /\ Split(group, split).retained = split.retained
<1>1. Len(group) \in Nat /\ split.tokens \in Nat /\ split.tokens + Len(group) \in Nat
  BY DEF PlanType
<1>2. group \o split.retained \in Seq(MessageType) /\ group \o split.selected \in Seq(MessageType)
  BY DEF PlanType
<1>3. CASE Kept(group, split.tokens)
  <2>1. \E t \in Nat : Split(group, split) = [split EXCEPT !.retained = group \o split.retained, !.tokens = t]
    BY <1>1, <1>3 DEF Split
  <2> QED BY <1>2, <1>3, <2>1 DEF PlanType
<1>4. CASE ~Kept(group, split.tokens)
  <2>1. Split(group, split) = [split EXCEPT !.selected = group \o split.selected]
    BY <1>4 DEF Split
  <2> QED BY <1>2, <1>4, <2>1 DEF PlanType
<1> QED BY <1>3, <1>4

Keeps(groups, f, j) == Kept(groups[j], f[j + 1].tokens)

\* Each round of the plan is a plan.
LEMMA PlansTyped ==
  ASSUME NEW groups \in Seq(Seq(MessageType)), NEW f, RoundsBack(f, Len(groups), groups)
  PROVE  \A j \in 1..(Len(groups) + 1) : f[j] \in PlanType
<1> DEFINE N == Len(groups)
           G == {j \in 1..(N + 1) : f[j] \in PlanType}
<1>1. N \in Nat /\ G \in SUBSET (1..(N + 1))
  OBVIOUS
<1>2. N + 1 \in G
  <2>1. f[N + 1] = NoPlan
    BY DEF RoundsBack
  <2>2. NoPlan \in PlanType
    BY DEF NoPlan, PlanType
  <2> HIDE DEF N
  <2> QED BY <1>1, <2>1, <2>2
<1>3. ASSUME NEW j \in 1..N, j + 1 \in G PROVE j \in G
  <2>1. f[j + 1] \in PlanType /\ groups[j] \in Seq(MessageType)
    BY <1>3
  <2>2. f[j] = Split(groups[j], f[j + 1])
    BY DEF RoundsBack
  <2>3. f[j] \in PlanType
    BY <2>1, <2>2, SplitIs
  <2> QED BY <2>3
<1> HIDE DEF G, N
<1>4. \A j \in 1..(N + 1) : j \in G
  BY <1>1, <1>2, <1>3, EveryRoundBack
<1> QED BY <1>4 DEF G, N

\* What one round does.
LEMMA RoundBackIs ==
  ASSUME NEW groups \in Seq(Seq(MessageType)), NEW f, RoundsBack(f, Len(groups), groups), NEW j \in 1..Len(groups)
  PROVE  /\ groups[j] \in Seq(MessageType) /\ f[j + 1] \in PlanType /\ f[j] \in PlanType
         /\ Keeps(groups, f, j) => f[j].retained = groups[j] \o f[j + 1].retained /\ f[j].selected = f[j + 1].selected
         /\ ~Keeps(groups, f, j) => f[j].selected = groups[j] \o f[j + 1].selected /\ f[j].retained = f[j + 1].retained
<1>1. groups[j] \in Seq(MessageType) /\ j + 1 \in 1..(Len(groups) + 1) /\ j \in 1..(Len(groups) + 1)
  OBVIOUS
<1>2. f[j + 1] \in PlanType /\ f[j] \in PlanType
  BY <1>1, PlansTyped
<1>3. f[j] = Split(groups[j], f[j + 1])
  BY DEF RoundsBack
<1> DEFINE g == groups[j]
           after == f[j + 1]
<1>4. g \in Seq(MessageType) /\ after \in PlanType /\ f[j] = Split(g, after) /\ f[j] \in PlanType
  BY <1>1, <1>2, <1>3
<1>5. Keeps(groups, f, j) <=> Kept(g, after.tokens)
  BY DEF Keeps
<1> HIDE DEF g, after
<1>6. /\ Kept(g, after.tokens) => f[j].retained = g \o after.retained /\ f[j].selected = after.selected
      /\ ~Kept(g, after.tokens) => f[j].selected = g \o after.selected /\ f[j].retained = after.retained
  BY <1>4, SplitIs
<1> QED BY <1>4, <1>5, <1>6 DEF g, after

\* The messages of two sequences.
LEMMA JoinedSet ==
  ASSUME NEW S, NEW x \in Seq(S), NEW y \in Seq(S)
  PROVE  ToSet(x \o y) = ToSet(x) \cup ToSet(y)
<1>2. /\ Len(x \o y) = Len(x) + Len(y) /\ Len(x) \in Nat /\ Len(y) \in Nat
      /\ \A i \in 1..Len(x) : (x \o y)[i] = x[i]
      /\ \A i \in 1..Len(y) : (x \o y)[Len(x) + i] = y[i]
  OBVIOUS
<1>3. ASSUME NEW i \in 1..Len(x \o y) PROVE (x \o y)[i] \in ToSet(x) \cup ToSet(y)
  <2>1. i \in 1..Len(x) \/ (i - Len(x) \in 1..Len(y) /\ Len(x) + (i - Len(x)) = i)
    BY <1>2
  <2>2. CASE i \in 1..Len(x)
    BY <1>2, <2>2 DEF ToSet
  <2>3. CASE i - Len(x) \in 1..Len(y) /\ Len(x) + (i - Len(x)) = i
    <3>1. (x \o y)[i] = y[i - Len(x)]
      BY <1>2, <2>3
    <3> QED BY <2>3, <3>1 DEF ToSet
  <2> QED BY <2>1, <2>2, <2>3
<1>4. ASSUME NEW i \in 1..Len(x) PROVE x[i] \in ToSet(x \o y)
  <2>1. i \in 1..Len(x \o y) /\ (x \o y)[i] = x[i]
    BY <1>2
  <2> QED BY <2>1 DEF ToSet
<1>5. ASSUME NEW i \in 1..Len(y) PROVE y[i] \in ToSet(x \o y)
  <2>1. Len(x) + i \in 1..Len(x \o y) /\ (x \o y)[Len(x) + i] = y[i]
    BY <1>2
  <2>2. DOMAIN (x \o y) = 1..Len(x \o y)
    OBVIOUS
  <2> QED BY <2>1, <2>2 DEF ToSet
<1>6. ToSet(x \o y) = ToSet(x) \cup ToSet(y)
  <2>1. /\ DOMAIN x = 1..Len(x) /\ DOMAIN y = 1..Len(y) /\ DOMAIN (x \o y) = 1..Len(x \o y)
    OBVIOUS
  <2> QED BY <1>3, <1>4, <1>5, <2>1 DEF ToSet
<1> QED BY <1>6

\* What is selected is what the groups that are not kept hold.
LEMMA SelectedIs ==
  ASSUME NEW groups \in Seq(Seq(MessageType)), NEW f, RoundsBack(f, Len(groups), groups)
  PROVE  /\ \A i \in 1..Len(groups) : ~Keeps(groups, f, i) => ToSet(groups[i]) \subseteq ToSet(f[1].selected)
         /\ \A m \in ToSet(f[1].selected) : \E i \in 1..Len(groups) : ~Keeps(groups, f, i) /\ m \in ToSet(groups[i])
<1> DEFINE N == Len(groups)
           Holds(j) ==
             /\ \A i \in j..N : ~Keeps(groups, f, i) => ToSet(groups[i]) \subseteq ToSet(f[j].selected)
             /\ \A m \in ToSet(f[j].selected) : \E i \in j..N : ~Keeps(groups, f, i) /\ m \in ToSet(groups[i])
           G == {j \in 1..(N + 1) : Holds(j)}
<1>1. N \in Nat /\ G \in SUBSET (1..(N + 1))
  OBVIOUS
<1>2. N + 1 \in G
  <2>1. f[N + 1] = NoPlan
    BY DEF RoundsBack
  <2>2. ToSet(f[N + 1].selected) = {}
    BY <2>1 DEF NoPlan, ToSet
  <2>3. (N + 1)..N = {}
    BY <1>1
  <2>4. Holds(N + 1)
    BY <2>2, <2>3
  <2> HIDE DEF N, Holds
  <2> QED BY <1>1, <2>4
<1>3. ASSUME NEW j \in 1..N, j + 1 \in G PROVE j \in G
  <2>1. Holds(j + 1)
    BY <1>3
  <2>2. j..N = {j} \cup ((j + 1)..N)
    BY <1>1
  <2>3. CASE Keeps(groups, f, j)
    <3>1. f[j].selected = f[j + 1].selected
      BY <2>3, RoundBackIs
    <3>2. Holds(j)
      BY <2>1, <2>2, <2>3, <3>1
    <3> QED BY <3>2
  <2>4. CASE ~Keeps(groups, f, j)
    <3>1. f[j].selected = groups[j] \o f[j + 1].selected
      BY <2>4, RoundBackIs
    <3>2. groups[j] \in Seq(MessageType) /\ f[j + 1].selected \in Seq(MessageType)
      BY RoundBackIs DEF PlanType
    <3>3. ToSet(f[j].selected) = ToSet(groups[j]) \cup ToSet(f[j + 1].selected)
      <4> DEFINE x == groups[j]
                 y == f[j + 1].selected
      <4>1. x \in Seq(MessageType) /\ y \in Seq(MessageType)
        BY <3>2
      <4> HIDE DEF x, y, MessageType
      <4>2. ToSet(x \o y) = ToSet(x) \cup ToSet(y)
        BY <4>1, JoinedSet
      <4> QED BY <3>1, <4>2 DEF x, y
    <3>4. Holds(j)
      BY <2>1, <2>2, <2>4, <3>3
    <3> QED BY <3>4
  <2> QED BY <2>3, <2>4
<1> HIDE DEF G, N, Holds
<1>4. \A j \in 1..(N + 1) : j \in G
  BY <1>1, <1>2, <1>3, EveryRoundBack
<1>5. Holds(1)
  <2>1. 1 \in 1..(N + 1)
    BY <1>1
  <2> QED BY <1>4, <2>1 DEF G
<1> QED BY <1>5 DEF Holds, N

\* Where no key is picked, nothing changes.
LEMMA PickNone ==
  ASSUME NEW s, NEW N \in Nat, NEW M \in Nat, M >= N, NEW start, NEW U, NEW e, Picks(e, s, M, start, U),
         \A p \in (N + 1)..M : Key(s[p]) \notin U
  PROVE  e[M] = e[N]
<1> DEFINE G == {i \in 0..(M - N) : e[N + i] = e[N]}
<1>1. 0 \in G
  OBVIOUS
<1>2. ASSUME NEW i \in 1..(M - N), i - 1 \in G PROVE i \in G
  <2>1. N + i \in (N + 1)..M /\ N + i \in 1..M /\ N + i - 1 = N + (i - 1)
    OBVIOUS
  <2>2. e[N + i] = e[N + (i - 1)]
    BY <2>1 DEF Picks
  <2>3. e[N + (i - 1)] = e[N]
    BY <1>2
  <2> QED BY <2>2, <2>3
<1>3. G \in SUBSET (0..(M - N)) /\ M - N \in Nat
  OBVIOUS
<1> HIDE DEF G
<1>4. \A i \in 0..(M - N) : i \in G
  BY <1>1, <1>2, <1>3, EveryRound
<1>5. M - N \in 0..(M - N) /\ N + (M - N) = M
  OBVIOUS
<1> QED BY <1>4, <1>5 DEF G

\* What is retained is what is picked by the keys of the groups that are kept.
LEMMA RetainedIsPicked ==
  ASSUME NEW s \in Seq(MessageType), NEW groups, NEW b, IsCut(b, groups, s, Len(s)),
         NEW f, RoundsBack(f, Len(groups), groups),
         NEW U, \A j \in 1..Len(groups) : Keeps(groups, f, j) <=> Key(s[b[j]]) \in U,
         NEW e, Picks(e, s, Len(s), <<>>, U)
  PROVE  f[1].retained = e[Len(s)]
<1> DEFINE K == Len(groups)
           N == Len(s)
           Meets(j) == e[b[j] - 1] \o f[j].retained = e[N]
           G == {j \in 1..(K + 1) : Meets(j)}
<1>1. /\ groups \in Seq(Seq(MessageType)) /\ K \in Nat /\ N \in Nat
      /\ b \in [1..(K + 1) -> 1..(N + 1)] /\ b[1] = 1 /\ b[K + 1] = N + 1
  BY DEF IsCut
<1>2. \A j, k \in 1..(K + 1) : j < k => b[j] < b[k]
  BY DEF IsCut
<1>3. \A j \in 1..K : PieceOf(b, groups, s, j)
  BY DEF IsCut
<1>4. <<>> \in Seq(MessageType) /\ \A n \in 0..N : e[n] \in Seq(MessageType)
  <2>1. <<>> \in Seq(MessageType)
    OBVIOUS
  <2> QED BY <2>1, PicksSeq
<1>5. K + 1 \in G
  <2>1. f[K + 1].retained = <<>>
    BY DEF RoundsBack, NoPlan
  <2>2. b[K + 1] - 1 = N /\ e[N] \in Seq(MessageType)
    BY <1>1, <1>4
  <2>3. e[N] \o <<>> = e[N]
    BY <2>2
  <2>4. Meets(K + 1)
    BY <2>1, <2>2, <2>3
  <2> HIDE DEF Meets, K
  <2> QED BY <1>1, <2>4
<1>6. ASSUME NEW j \in 1..K, j + 1 \in G PROVE j \in G
  <2> DEFINE lo == b[j] - 1
             hi == b[j + 1] - 1
  <2>1. j \in 1..(K + 1) /\ j + 1 \in 1..(K + 1)
    BY <1>1
  <2>2. /\ b[j] \in 1..(N + 1) /\ b[j + 1] \in 1..(N + 1) /\ b[j] < b[j + 1]
        /\ lo \in Nat /\ hi \in Nat /\ lo < hi /\ hi <= N /\ lo \in 0..N /\ hi \in 0..N /\ lo + 1 = b[j]
    <3>1. b[j] \in 1..(N + 1) /\ b[j + 1] \in 1..(N + 1) /\ b[j] < b[j + 1]
      <4>1. j < j + 1
        OBVIOUS
      <4> HIDE DEF K, N
      <4> QED BY <1>1, <1>2, <2>1, <4>1
    <3> HIDE DEF N
    <3> QED BY <1>1, <3>1
  <2>3. e[hi] \o f[j + 1].retained = e[N]
    BY <1>6
  <2>4. /\ groups[j] \in Seq(MessageType) /\ Len(groups[j]) = hi - lo
        /\ \A i \in 1..Len(groups[j]) : groups[j][i] = s[lo + i] /\ Key(groups[j][i]) = Key(s[b[j]])
    <3>1. PieceOf(b, groups, s, j)
      BY <1>3
    <3>2. b[j + 1] - b[j] = hi - lo
      BY <2>2
    <3>3. \A i \in 1..Len(groups[j]) : b[j] + i - 1 = lo + i
      BY <2>2, <3>1 DEF PieceOf
    <3> QED BY <3>1, <3>2, <3>3 DEF PieceOf
  <2>5. Picks(e, s, hi, <<>>, U)
    <3>1. 1..hi \subseteq 1..N
      BY <2>2
    <3> QED BY <3>1 DEF Picks
  <2>6. e[lo] \in Seq(MessageType) /\ e[hi] \in Seq(MessageType) /\ f[j + 1].retained \in Seq(MessageType)
    BY <1>1, <1>4, <2>2, RoundBackIs DEF PlanType
  <2>7. CASE Keeps(groups, f, j)
    <3>1. f[j].retained = groups[j] \o f[j + 1].retained
      BY <1>1, <2>7, RoundBackIs
    <3>2. Key(s[b[j]]) \in U
      BY <2>7
    <3> HIDE DEF lo, hi
    <3>3. Continued(s, lo, hi, groups[j], U)
      <4>1. hi = lo + Len(groups[j])
        BY <2>2, <2>4
      <4> QED BY <2>4, <3>2, <4>1 DEF Continued
    <3>4. Joined(e[lo], groups[j], e[hi])
      <4> DEFINE g == groups[j]
      <4>1. g \in Seq(MessageType) /\ Continued(s, lo, hi, g, U)
        BY <2>4, <3>3
      <4> HIDE DEF g
      <4>2. Joined(e[lo], g, e[hi])
        BY <2>2, <2>5, <2>6, <4>1, PicksAppend
      <4> QED BY <4>2 DEF g
    <3>5. e[lo] \o f[j].retained = e[N]
      <4> DEFINE x == e[lo]
                 y == groups[j]
                 z == f[j + 1].retained
      <4>1. x \in Seq(MessageType) /\ y \in Seq(MessageType) /\ z \in Seq(MessageType)
        BY <2>4, <2>6
      <4>2. (x \o y) \o z = e[N] /\ f[j].retained = y \o z
        BY <2>3, <3>1, <3>4 DEF Joined
      <4> HIDE DEF x, y, z
      <4>3. (x \o y) \o z = x \o (y \o z)
        BY <4>1
      <4> QED BY <4>2, <4>3 DEF x
    <3>6. Meets(j)
      BY <3>5 DEF lo
    <3> QED BY <2>1, <3>6
  <2>8. CASE ~Keeps(groups, f, j)
    <3>1. f[j].retained = f[j + 1].retained
      BY <1>1, <2>8, RoundBackIs
    <3>2. ASSUME NEW p \in (lo + 1)..hi PROVE Key(s[p]) \notin U
      <4> HIDE DEF lo, hi
      <4>1. p - lo \in 1..Len(groups[j]) /\ lo + (p - lo) = p
        BY <2>2, <2>4
      <4>2. Key(s[p]) = Key(s[b[j]])
        BY <2>4, <4>1
      <4> QED BY <2>8, <4>2
    <3>3. e[hi] = e[lo]
      <4> HIDE DEF lo, hi
      <4> QED BY <2>2, <2>5, <3>2, PickNone
    <3>4. Meets(j)
      BY <2>3, <3>1, <3>3
    <3> QED BY <2>1, <3>4
  <2> QED BY <2>7, <2>8
<1>7. G \in SUBSET (1..(K + 1))
  OBVIOUS
<1> HIDE DEF G, K, N, Meets
<1>8. \A j \in 1..(K + 1) : j \in G
  BY <1>1, <1>5, <1>6, <1>7, EveryRoundBack
<1>9. Meets(1)
  <2>1. 1 \in 1..(K + 1)
    BY <1>1
  <2> QED BY <1>8, <2>1 DEF G
<1>10. e[0] \o f[1].retained = e[N]
  <2>1. b[1] - 1 = 0
    BY <1>1
  <2> QED BY <1>9, <2>1 DEF Meets
<1>11. e[0] = <<>> /\ f[1].retained \in Seq(MessageType)
  <2>1. 1 \in 1..(K + 1)
    BY <1>1
  <2> QED BY <1>1, <2>1, PlansTyped DEF Picks, PlanType, K
<1>12. <<>> \o f[1].retained = f[1].retained
  BY <1>11
<1> QED BY <1>10, <1>11, <1>12 DEF N

\* The summary has a key of its own, which is never visible.
LEMMA SummaryKey ==
  /\ Summary.role = "system" /\ Key(Summary) = <<0, 0>>
  /\ \A m \in ChatType : Key(m) # Key(Summary) /\ m # Summary
  /\ \A m \in MessageType : Key(m) = Key(Summary) => m = Summary
  /\ \A c : Key(Summary) \notin Visible(c)
<1>1. Summary.role = "system" /\ Key(Summary) = <<0, 0>>
  BY DEF Summary, Chat, Key
<1>2. \A m \in ChatType : m.run \in 1..MaxChatRuns /\ m.role # "system" /\ Key(m)[1] = m.run
  BY DEF ChatType, Key
<1>3. <<0, 0>>[1] = 0
  OBVIOUS
<1>4. \A m \in ChatType : Key(m) # Key(Summary) /\ m # Summary
  BY <1>1, <1>2, <1>3, ChatAssumption
<1>5. \A c : <<0, 0>> \notin Visible(c)
  BY ChatAssumption DEF Visible
<1> QED BY <1>1, <1>4, <1>5 DEF MessageType

\* What the groups are to the rest of the plan.
PlanGroups(s, groups, b) ==
  /\ \A j \in 1..Len(groups) : /\ groups[j] \in Seq(MessageType) /\ groups[j][1] = s[b[j]]
                               /\ b[j] \in 1..Len(s) /\ s[b[j]] \in ToSet(groups[j])
                               /\ s[b[j]].role # "tool"
  /\ \A j \in 1..Len(groups) : \A m \in ToSet(groups[j]) :
       Key(m) = Key(s[b[j]]) /\ \E p \in 1..Len(s) : m = s[p]
  /\ \A p \in 1..Len(s) : \E j \in 1..Len(groups) : s[p] \in ToSet(groups[j])
  /\ \A i, j \in 1..Len(groups) : Key(s[b[i]]) = Key(s[b[j]]) => i = j
  /\ \A j \in 1..Len(groups) : s[b[j]] = Summary => groups[j] = <<Summary>>

\* The pieces have these properties because the messages come in turns.
LEMMA GroupFacts ==
  ASSUME NEW s \in Seq(MessageType), Turns(s), NEW groups, NEW b, IsCut(b, groups, s, Len(s))
  PROVE  PlanGroups(s, groups, b)
<1> DEFINE K == Len(groups)
           N == Len(s)
<1>1. /\ groups \in Seq(Seq(MessageType)) /\ K \in Nat /\ N \in Nat
      /\ b \in [1..(K + 1) -> 1..(N + 1)] /\ b[1] = 1 /\ b[K + 1] = N + 1
  BY DEF IsCut
<1>2. \A j, k \in 1..(K + 1) : j < k => b[j] < b[k]
  BY DEF IsCut
<1>3. \A j \in 1..K : PieceOf(b, groups, s, j)
  BY DEF IsCut
<1>4. \A p \in 1..N : \E j \in 1..K : b[j] <= p /\ p < b[j + 1]
  BY DEF IsCut
<1>5. \A p \in 1..N : s[p] \in MessageType /\ FitsAt(s, p)
  BY DEF Turns
<1> HIDE DEF K, N
<1>6. ASSUME NEW j \in 1..K
      PROVE  /\ groups[j] \in Seq(MessageType) /\ Len(groups[j]) = b[j + 1] - b[j] /\ Len(groups[j]) \in Nat
             /\ Len(groups[j]) >= 1
             /\ b[j] \in 1..N /\ b[j + 1] \in 1..(N + 1) /\ DOMAIN groups[j] = 1..Len(groups[j])
             /\ \A i \in 1..Len(groups[j]) : groups[j][i] = s[b[j] + i - 1] /\ Key(groups[j][i]) = Key(s[b[j]])
             /\ s[b[j]].role # "tool"
  <2>1. j \in 1..(K + 1) /\ j + 1 \in 1..(K + 1) /\ j < j + 1
    BY <1>1
  <2>2. b[j] \in 1..(N + 1) /\ b[j + 1] \in 1..(N + 1) /\ b[j] < b[j + 1]
    BY <1>1, <1>2, <2>1
  <2>3. b[j] \in 1..N /\ b[j + 1] - b[j] >= 1
    BY <1>1, <2>2
  <2>4. groups[j] \in Seq(MessageType) /\ Len(groups[j]) = b[j + 1] - b[j]
    BY <1>3 DEF PieceOf
  <2> QED BY <1>3, <2>2, <2>3, <2>4 DEF PieceOf
<1>7. ASSUME NEW j \in 1..K PROVE groups[j][1] = s[b[j]] /\ s[b[j]] \in ToSet(groups[j])
  <2>1. 1 \in 1..Len(groups[j]) /\ b[j] + 1 - 1 = b[j]
    BY <1>6
  <2>2. groups[j][1] = s[b[j]]
    BY <1>6, <2>1
  <2> QED BY <1>6, <2>1, <2>2 DEF ToSet
<1>8. ASSUME NEW j \in 1..K, NEW m \in ToSet(groups[j])
      PROVE  Key(m) = Key(s[b[j]]) /\ \E p \in 1..N : m = s[p]
  <2>1. PICK i \in 1..Len(groups[j]) : m = groups[j][i]
    BY <1>6 DEF ToSet
  <2>2. b[j] + i - 1 \in 1..N
    <3>1. /\ b[j] \in 1..N /\ b[j + 1] \in 1..(N + 1) /\ N \in Nat /\ i \in 1..Len(groups[j])
          /\ Len(groups[j]) = b[j + 1] - b[j]
      BY <1>1, <1>6
    <3> QED BY <3>1
  <2>3. m = s[b[j] + i - 1] /\ Key(m) = Key(s[b[j]])
    BY <1>6, <2>1
  <2> QED BY <2>2, <2>3
<1>9. ASSUME NEW p \in 1..N PROVE \E j \in 1..K : s[p] \in ToSet(groups[j])
  <2>1. PICK j \in 1..K : b[j] <= p /\ p < b[j + 1]
    BY <1>4
  <2> DEFINE i == p - b[j] + 1
  <2>2. i \in 1..Len(groups[j]) /\ b[j] + i - 1 = p
    BY <1>1, <1>6, <2>1
  <2> HIDE DEF i
  <2>3. groups[j][i] = s[p]
    BY <1>6, <2>2
  <2> QED BY <1>6, <2>2, <2>3 DEF ToSet
<1>10. ASSUME NEW i \in 1..K, NEW j \in 1..K, i < j PROVE Key(s[b[i]]) # Key(s[b[j]])
  <2>1. b[i] < b[j] /\ b[i] \in 1..N /\ b[j] \in 1..N
    BY <1>1, <1>2, <1>6, <1>10
  <2>2. b[i] \in 1..(b[j] - 1)
    BY <2>1
  <2>3. FitsAt(s, b[j]) /\ s[b[j]].role # "tool"
    BY <1>5, <1>6, <2>1
  <2> QED BY <2>2, <2>3 DEF FitsAt
<1>11. ASSUME NEW i \in 1..K, NEW j \in 1..K, Key(s[b[i]]) = Key(s[b[j]]) PROVE i = j
  <2>1. i < j \/ j < i \/ i = j
    BY <1>1
  <2> QED BY <1>10, <1>11, <2>1
<1>12. ASSUME NEW j \in 1..K, s[b[j]] = Summary PROVE groups[j] = <<Summary>>
  <2>1. Len(groups[j]) = 1
    <3> SUFFICES ASSUME Len(groups[j]) # 1 PROVE FALSE
      OBVIOUS
    <3>0. /\ Len(groups[j]) \in Nat /\ Len(groups[j]) >= 1 /\ b[j] \in 1..N /\ b[j + 1] \in 1..(N + 1)
          /\ N \in Nat /\ Len(groups[j]) = b[j + 1] - b[j]
      BY <1>1, <1>6
    <3>1. 2 \in 1..Len(groups[j]) /\ b[j] + 2 - 1 = b[j] + 1
      BY <3>0
    <3>2. Key(groups[j][2]) = Key(Summary) /\ groups[j][2] = s[b[j] + 1]
      BY <1>6, <1>12, <3>1
    <3>3. b[j] + 1 \in 1..N /\ b[j] \in 1..((b[j] + 1) - 1)
      BY <3>0, <3>1
    <3>4. s[b[j] + 1] = Summary
      BY <1>5, <3>2, <3>3, SummaryKey
    <3>5. s[b[j] + 1].role = "tool"
      BY <1>5, <1>12, <3>3, <3>4 DEF FitsAt
    <3> QED BY <3>4, <3>5, SummaryKey
  <2>2. groups[j][1] = Summary /\ groups[j] \in Seq(MessageType)
    BY <1>6, <1>7, <1>12
  <2> HIDE DEF Summary
  <2> QED BY <2>1, <2>2
<1> QED BY <1>6, <1>7, <1>8, <1>9, <1>11, <1>12 DEF K, N, PlanGroups

\* Appending to what is joined.
LEMMA AppendJoined ==
  ASSUME NEW S, NEW x \in Seq(S), NEW y \in Seq(S), NEW m \in S, NEW z, Joined(x, y, z)
  PROVE  Joined(x, Append(y, m), Append(z, m))
<1>0. SUFFICES Append(x \o y, m) = x \o Append(y, m)
  BY DEF Joined
<1>1. /\ x \o y \in Seq(S) /\ Append(y, m) \in Seq(S)
      /\ Len(x \o y) = Len(x) + Len(y) /\ Len(x) \in Nat /\ Len(y) \in Nat
      /\ Len(Append(y, m)) = Len(y) + 1
  OBVIOUS
<1>2. /\ Append(x \o y, m) \in Seq(S) /\ Len(Append(x \o y, m)) = Len(x) + Len(y) + 1
      /\ x \o Append(y, m) \in Seq(S) /\ Len(x \o Append(y, m)) = Len(x) + Len(y) + 1
  BY <1>1
<1>3. ASSUME NEW i \in 1..(Len(x) + Len(y) + 1) PROVE Append(x \o y, m)[i] = (x \o Append(y, m))[i]
  <2>1. CASE i \in 1..Len(x)
    BY <1>1, <2>1
  <2>2. CASE i - Len(x) \in 1..Len(y)
    <3>1. /\ i \in 1..Len(x \o y) /\ i \in (Len(x) + 1)..(Len(x) + Len(y))
          /\ i - Len(x) \in 1..Len(Append(y, m)) /\ i \notin 1..Len(x)
      BY <1>1, <2>2
    <3>2. Append(x \o y, m)[i] = y[i - Len(x)]
      BY <1>1, <3>1, <2>2
    <3>3. (x \o Append(y, m))[i] = y[i - Len(x)]
      BY <1>1, <3>1, <2>2
    <3> QED BY <3>2, <3>3
  <2>3. CASE i = Len(x) + Len(y) + 1
    <3>1. Append(x \o y, m)[i] = m
      BY <1>1, <2>3
    <3>2. i \notin 1..Len(x) /\ i - Len(x) = Len(y) + 1 /\ i \in 1..(Len(x) + Len(Append(y, m)))
      BY <1>1, <2>3
    <3>3. (x \o Append(y, m))[i] = m
      BY <1>1, <3>2
    <3> QED BY <3>1, <3>3
  <2> QED BY <1>1, <2>1, <2>2, <2>3
<1> DEFINE u == Append(x \o y, m)
           v == x \o Append(y, m)
<1>4. u \in Seq(S) /\ v \in Seq(S) /\ Len(u) = Len(v) /\ \A i \in 1..Len(u) : u[i] = v[i]
  <2> QED BY <1>2, <1>3
<1> HIDE DEF u, v
<1>5. u = v
  BY <1>4
<1> QED BY <1>5 DEF u, v

\* What is picked comes after what was there.
LEMMA PicksAfter ==
  ASSUME NEW s \in Seq(MessageType), NEW start \in Seq(MessageType), NEW T,
         NEW f, Picks(f, s, Len(s), start, T), NEW g, Picks(g, s, Len(s), <<>>, T)
  PROVE  Joined(start, g[Len(s)], f[Len(s)])
<1> DEFINE N == Len(s)
           G == {n \in 0..N : f[n] = start \o g[n]}
<1>0. \A n \in 0..N : g[n] \in Seq(MessageType)
  <2>1. <<>> \in Seq(MessageType)
    OBVIOUS
  <2> QED BY <2>1, PicksSeq
<1>1. 0 \in G
  <2>1. start \o <<>> = start
    OBVIOUS
  <2> QED BY <2>1 DEF Picks
<1>2. ASSUME NEW n \in 1..N, n - 1 \in G PROVE n \in G
  <2> DEFINE x == g[n - 1]
             m == s[n]
  <2>1. f[n - 1] = start \o x /\ x \in Seq(MessageType) /\ m \in MessageType
    BY <1>0, <1>2
  <2>2. /\ f[n] = IF Key(m) \in T THEN Append(f[n - 1], m) ELSE f[n - 1]
        /\ g[n] = IF Key(m) \in T THEN Append(x, m) ELSE x
    BY DEF Picks
  <2> HIDE DEF x, m
  <2>3. Append(start \o x, m) = start \o Append(x, m)
    <3> HIDE DEF MessageType
    <3>1. Joined(start, x, start \o x)
      BY DEF Joined
    <3> DEFINE z == start \o x
    <3>2. Joined(start, Append(x, m), Append(z, m))
      <4>1. Joined(start, x, z)
        BY <3>1
      <4> HIDE DEF z
      <4> QED BY <2>1, <4>1, AppendJoined
    <3> QED BY <3>2 DEF Joined
  <2>4. f[n] = start \o g[n]
    BY <2>1, <2>2, <2>3
  <2> QED BY <2>4
<1>3. G \in SUBSET (0..N) /\ N \in Nat
  OBVIOUS
<1> HIDE DEF G, N
<1>4. \A n \in 0..N : n \in G
  BY <1>1, <1>2, <1>3, EveryRound
<1>5. N \in 0..N
  BY <1>3
<1> QED BY <1>4, <1>5 DEF G, N, Joined

-----------------------------------------------------------------------------
(***************************************************************************)
(* The plan for what is shown: its groups, and the loop over them.         *)
(***************************************************************************)
Planned(s, groups, b, p) ==
  /\ s \in Seq(MessageType) /\ Turns(s)
  /\ \A q \in 1..Len(s) : s[q] = Summary \/ (s[q] \in ChatType /\ Key(s[q]) \in Visible(checkpoint))
  /\ IsCut(b, groups, s, Len(s))
  /\ RoundsBack(p, Len(groups), groups)

PlanSelects(groups, p) ==
  /\ \A i \in 1..Len(groups) : ~Keeps(groups, p, i) => ToSet(groups[i]) \subseteq ToSet(p[1].selected)
  /\ \A m \in ToSet(p[1].selected) : \E i \in 1..Len(groups) : ~Keeps(groups, p, i) /\ m \in ToSet(groups[i])

\* What the groups of a plan are and what it selects.
LEMMA PlannedIs ==
  ASSUME NEW s, NEW groups, NEW b, NEW p, Planned(s, groups, b, p)
  PROVE  PlanGroups(s, groups, b) /\ PlanSelects(groups, p)
<1>1. s \in Seq(MessageType) /\ Turns(s) /\ IsCut(b, groups, s, Len(s)) /\ RoundsBack(p, Len(groups), groups)
  BY DEF Planned
<1>2. groups \in Seq(Seq(MessageType))
  BY <1>1 DEF IsCut
<1>3. PlanGroups(s, groups, b)
  BY <1>1, GroupFacts
<1>4. PlanSelects(groups, p)
  BY <1>1, <1>2, SelectedIs DEF PlanSelects
<1> QED BY <1>3, <1>4

\* The keys a checkpoint of the plan leaves visible are those of the groups that are kept.
LEMMA KeptIsVisible ==
  ASSUME NEW s, NEW groups, NEW b, NEW p, Planned(s, groups, b, p), NEW j \in 1..Len(groups)
  PROVE  Keeps(groups, p, j) <=> Key(s[b[j]]) \in Visible(Checkpoint(p[1]))
<1> DEFINE c == Checkpoint(p[1])
           first == s[b[j]]
           selected == ToSet(p[1].selected)
<1>1. PlanGroups(s, groups, b) /\ PlanSelects(groups, p)
  BY PlannedIs
<1>2. first = Summary \/ (first \in ChatType /\ Key(first) \in Visible(checkpoint))
  BY <1>1 DEF PlanGroups, Planned
<1>3. first \in ToSet(groups[j]) /\ first.role # "tool" /\ groups[j][1] = first
  BY <1>1 DEF PlanGroups
<1>4. /\ c.runs = checkpoint.runs \cup {m.run : m \in {x \in selected : x.role = "user" /\ chatRuns[x.run] # "live"}}
      /\ c.requests = checkpoint.requests \cup {Key(m) : m \in {x \in selected : x.role \in {"assistant", "tool"}}}
  BY DEF Checkpoint, Key
<1>5. ASSUME NEW m \in selected PROVE \E i \in 1..Len(groups) : ~Keeps(groups, p, i) /\ Key(m) = Key(s[b[i]])
  BY <1>1 DEF PlanGroups, PlanSelects
<1>6. \A m \in selected : m \in MessageType
  <2>1. \A q \in 1..Len(s) : s[q] \in MessageType
    BY DEF Planned
  <2> HIDE DEF MessageType, selected
  <2>2. ASSUME NEW m \in selected PROVE \E q \in 1..Len(s) : m = s[q]
    <3>1. PICK i \in 1..Len(groups) : m \in ToSet(groups[i])
      BY <1>1 DEF PlanSelects, selected
    <3> QED BY <1>1, <3>1 DEF PlanGroups
  <2> QED BY <2>1, <2>2
<1>7. \A i \in 1..Len(groups) : Key(s[b[i]]) = Key(first) => i = j
  BY <1>1 DEF PlanGroups
<1> HIDE DEF c, first, selected
<1>8. CASE first = Summary
  <2>1. groups[j] = <<Summary>>
    BY <1>1, <1>8 DEF PlanGroups, first
  <2>2. ~Keeps(groups, p, j)
    BY <2>1 DEF Keeps, Kept
  <2> QED BY <1>8, <2>2, SummaryKey DEF first
<1>9. CASE first \in ChatType /\ Key(first) \in Visible(checkpoint)
  <2>1. /\ first.run \in 1..MaxChatRuns /\ first.request \in Nat /\ (first.role = "user" <=> first.request = 0)
        /\ first.role \in {"user", "assistant"}
    BY <1>3, <1>9 DEF ChatType
  <2>2. Key(first) \in Visible(c) <=>
          IF first.request = 0 THEN first.run \notin c.runs ELSE Key(first) \notin c.requests
    BY <2>1 DEF Visible, Key
  <2>3. IF first.request = 0 THEN first.run \notin checkpoint.runs ELSE Key(first) \notin checkpoint.requests
    BY <1>9, <2>1 DEF Visible, Key
  <2>4. ASSUME Keeps(groups, p, j), Key(first) \notin Visible(c) PROVE FALSE
    <3>1. CASE first.request = 0
      <4>1. first.run \in c.runs /\ first.run \notin checkpoint.runs
        BY <2>2, <2>3, <2>4, <3>1
      <4>2. PICK m \in selected : m.role = "user" /\ m.run = first.run
        BY <1>4, <4>1
      <4>3. m.request = 0
        BY <1>6, <4>2, SummaryKey DEF MessageType, ChatType
      <4>4. Key(m) = Key(first)
        BY <3>1, <4>2, <4>3 DEF Key
      <4> QED BY <1>5, <1>7, <2>4, <4>4
    <3>2. CASE first.request # 0
      <4>1. Key(first) \in c.requests /\ Key(first) \notin checkpoint.requests
        BY <2>2, <2>3, <2>4, <3>2
      <4>2. PICK m \in selected : Key(m) = Key(first)
        BY <1>4, <4>1
      <4> QED BY <1>5, <1>7, <2>4, <4>2
    <3> QED BY <3>1, <3>2
  <2>5. ASSUME ~Keeps(groups, p, j), Key(first) \in Visible(c) PROVE FALSE
    <3>1. first \in selected
      BY <1>1, <1>3, <2>5 DEF PlanSelects, selected
    <3>2. CASE first.request # 0
      <4>1. first.role = "assistant"
        BY <2>1, <3>2
      <4>2. Key(first) \in c.requests
        BY <1>4, <3>1, <4>1
      <4> QED BY <2>2, <2>5, <3>2, <4>2
    <3>3. CASE first.request = 0
      <4>1. groups[j] # <<Summary>>
        <5>1. first # Summary
          BY <1>9, SummaryKey
        <5>2. <<Summary>>[1] = Summary
          OBVIOUS
        <5> QED BY <1>3, <5>1, <5>2
      <4>2. chatRuns[first.run] # "live"
        BY <1>3, <2>5, <4>1 DEF Keeps, Kept, Protected
      <4>3. first.role = "user"
        BY <2>1, <3>3
      <4>4. first.run \in c.runs
        BY <1>4, <3>1, <4>2, <4>3
      <4> QED BY <2>2, <2>5, <3>3, <4>4
    <3> QED BY <3>2, <3>3
  <2> QED BY <2>4, <2>5 DEF c, first
<1> QED BY <1>2, <1>8, <1>9

\* What the checkpoint of the plan makes of the conversation.
PlanFits(p) ==
  /\ HistoryOf(Checkpoint(p), log) = Projected(p)
  /\ \A m \in ToSet(log) : Key(m) \in Visible(checkpoint) =>
       /\ Key(m) \in Visible(Checkpoint(p)) \/ m \in ToSet(p.selected)
       /\ chatRuns[m.run] \in {"live", "blocked"} => Key(m) \in Visible(Checkpoint(p))
  /\ checkpoint.present => Summary \in ToSet(p.selected)
  /\ ToSet(p.selected) \subseteq ToSet(log) \cup {Summary}

\* The history, the picks that make it, its groups and the plan for them.
PlanOf(f, groups, b, p) ==
  /\ Picks(f, log, Len(log), Opening(checkpoint), Visible(checkpoint))
  /\ f[Len(log)] = History
  /\ Planned(f[Len(log)], groups, b, p)
  /\ BuildPlan = p[1]

\* The plan of the code is such a plan.
LEMMA PlanExists ==
  ASSUME log \in Seq(ChatType), Turns(log)
  PROVE  \E f, groups, b, p : PlanOf(f, groups, b, p)
<1> DEFINE start == Opening(checkpoint)
           T == Visible(checkpoint)
           N == Len(log)
<1>1. PICK f : Picks(f, log, N, start, T) /\ HistoryOf(checkpoint, log) = f[N]
  BY HistoryPicks
<1>2. f[N] = History
  BY <1>1, HistoryNow
<1>3. start \in {<<>>, <<Summary>>} /\ start \in Seq(MessageType) /\ \A p \in 1..Len(start) : start[p] = Summary
  <2>1. start \in {<<>>, <<Summary>>}
    BY DEF Opening
  <2> HIDE DEF start
  <2> QED BY <2>1, OpeningIs
<1>4. log \in Seq(MessageType) /\ \A n \in 1..N : log[n] \in ChatType
  BY DEF MessageType
<1>5. \A n \in 1..N : Key(log[n]) # Key(Summary)
  BY <1>4, SummaryKey
<1> DEFINE H == f[N]
<1>6. Turns(H)
  <2> HIDE DEF start, T
  <2> QED BY <1>1, <1>3, <1>4, <1>5, PicksTurns
<1>7. H \in Seq(MessageType) /\ N \in Nat /\ N \in 0..N
  <2>1. N \in Nat /\ N \in 0..N
    OBVIOUS
  <2> HIDE DEF start, T
  <2>2. \A n \in 0..N : f[n] \in Seq(MessageType)
    BY <1>1, <1>3, <1>4, PicksSeq
  <2> QED BY <2>1, <2>2
<1>8. ASSUME NEW q \in 1..Len(H) PROVE H[q] = Summary \/ (H[q] \in ChatType /\ Key(H[q]) \in T)
  <2>1. (q \in 1..Len(start) /\ H[q] = start[q]) \/ \E i \in 1..N : H[q] = log[i] /\ Key(log[i]) \in T
    <3> HIDE DEF start, T
    <3> QED BY <1>1, <1>3, <1>4, <1>7, PickSource
  <2> HIDE DEF start, T, H, N
  <2> QED BY <1>3, <1>4, <2>1
<1>9. Grouped(H) \in Seq(Seq(MessageType)) /\ \E b : IsCut(b, Grouped(H), H, Len(H))
  <2> HIDE DEF H
  <2>1. \E b : IsCut(b, Grouped(H), H, Len(H))
    BY <1>6, <1>7, GroupedIsCut
  <2> QED BY <2>1 DEF IsCut
<1>10. PICK b : IsCut(b, Grouped(H), H, Len(H))
  BY <1>9
<1> DEFINE groups == Grouped(H)
<1>11. groups = Grouped(History) /\ Len(groups) \in Nat /\ DOMAIN groups = 1..Len(groups)
  BY <1>2, <1>9
<1>12. PICK p : RoundsBack(p, Len(groups), groups) /\ BuildPlan = p[1]
  <2> HIDE DEF groups
  <2> QED BY <1>11, PlanRounds
<1>13. Planned(H, groups, b, p)
  BY <1>6, <1>7, <1>8, <1>10, <1>12 DEF Planned
<1>14. PlanOf(f, groups, b, p)
  BY <1>1, <1>2, <1>12, <1>13 DEF PlanOf
<1> QED BY <1>14

\* The start of a history and a log are messages.
LEMMA OpeningSeq ==
  /\ \A c : Opening(c) \in {<<>>, <<Summary>>} /\ Opening(c) \in Seq(MessageType)
  /\ \A s \in Seq(ChatType) : s \in Seq(MessageType)
<1>1. ASSUME NEW c PROVE Opening(c) \in {<<>>, <<Summary>>} /\ Opening(c) \in Seq(MessageType)
  <2> DEFINE start == Opening(c)
  <2>1. start \in {<<>>, <<Summary>>}
    BY DEF Opening
  <2> HIDE DEF start
  <2>2. start \in Seq(MessageType)
    BY <2>1, OpeningIs
  <2> QED BY <2>1, <2>2 DEF start
<1>2. ASSUME NEW s \in Seq(ChatType) PROVE s \in Seq(MessageType)
  BY DEF MessageType
<1> QED BY <1>1, <1>2

\* What is shown is in a group.
LEMMA ShownIsGrouped ==
  ASSUME log \in Seq(ChatType), NEW f, NEW groups, NEW b, NEW p, PlanOf(f, groups, b, p),
         NEW m \in ToSet(log), Key(m) \in Visible(checkpoint)
  PROVE  \E j \in 1..Len(groups) : m \in ToSet(groups[j]) /\ Key(m) = Key(f[Len(log)][b[j]])
<1> DEFINE H == f[Len(log)]
<1>1. PICK n \in 1..Len(log) : m = log[n]
  <2>1. DOMAIN log = 1..Len(log)
    OBVIOUS
  <2> QED BY <2>1 DEF ToSet
<1>2. Opening(checkpoint) \in Seq(MessageType) /\ log \in Seq(MessageType)
  BY OpeningSeq
<1>3. Len(f[n]) \in 1..Len(H) /\ H[Len(f[n])] = m
  <2> DEFINE start == Opening(checkpoint)
             T == Visible(checkpoint)
  <2>1. Picks(f, log, Len(log), start, T) /\ start \in Seq(MessageType) /\ Key(log[n]) \in T
    BY <1>1, <1>2 DEF PlanOf
  <2> HIDE DEF start, T, MessageType
  <2> QED BY <1>1, <1>2, <2>1, PickPlace
<1>4. Planned(H, groups, b, p)
  BY DEF PlanOf
<1>5. PlanGroups(H, groups, b)
  BY <1>4, PlannedIs
<1> HIDE DEF H
<1> QED BY <1>3, <1>5 DEF PlanGroups, H

\* An older summary is summarised again.
LEMMA SummaryIsSelected ==
  ASSUME NEW f, NEW groups, NEW b, NEW p, PlanOf(f, groups, b, p), log \in Seq(ChatType), checkpoint.present
  PROVE  Summary \in ToSet(p[1].selected)
<1> DEFINE H == f[Len(log)]
<1>1. Planned(H, groups, b, p) /\ Picks(f, log, Len(log), Opening(checkpoint), Visible(checkpoint))
  BY DEF PlanOf
<1>2. 1 \in 1..Len(H) /\ H[1] = Summary
  <2> DEFINE start == Opening(checkpoint)
             T == Visible(checkpoint)
  <2>1. /\ start = <<Summary>> /\ start \in Seq(MessageType) /\ log \in Seq(MessageType)
        /\ Len(start) = 1 /\ start[1] = Summary
    BY OpeningIs DEF Opening, MessageType
  <2>2. Len(log) \in Nat /\ Picks(f, log, Len(log), start, T)
    BY <1>1
  <2> HIDE DEF start, T, MessageType, Summary
  <2>3. 0 \in 0..Len(log) /\ Len(log) \in 0..Len(log) /\ 0 \in 0..Len(log)
    BY <2>2
  <2>4. Starts(f[0], H) /\ f[0] = start /\ H \in Seq(MessageType)
    <3>1. Starts(f[0], f[Len(log)])
      BY <2>1, <2>2, <2>3, PicksGrow
    <3>2. f[0] = start
      BY <2>2 DEF Picks
    <3>3. \A n \in 0..Len(log) : f[n] \in Seq(MessageType)
      BY <2>1, <2>2, PicksSeq
    <3> QED BY <2>3, <3>1, <3>2, <3>3
  <2>5. Len(H) \in Nat
    BY <2>4
  <2> HIDE DEF H
  <2> QED BY <2>1, <2>4, <2>5 DEF Starts
<1>3. PlanGroups(H, groups, b) /\ PlanSelects(groups, p)
  BY <1>1, PlannedIs
<1> HIDE DEF H
<1>4. PICK j \in 1..Len(groups) : Summary \in ToSet(groups[j])
  BY <1>2, <1>3 DEF PlanGroups
<1>5. Key(H[b[j]]) = Key(Summary) /\ H[b[j]] \in MessageType
  <2>1. Key(H[b[j]]) = Key(Summary) /\ b[j] \in 1..Len(H)
    BY <1>3, <1>4 DEF PlanGroups
  <2> HIDE DEF MessageType
  <2> QED BY <1>1, <2>1 DEF Planned
<1>6. H[b[j]] = Summary
  BY <1>5, SummaryKey
<1>7. groups[j] = <<Summary>>
  BY <1>3, <1>6 DEF PlanGroups
<1>8. ~Keeps(groups, p, j)
  BY <1>7 DEF Keeps, Kept
<1> QED BY <1>3, <1>4, <1>8 DEF PlanSelects

\* A run that may still need its messages keeps them.
LEMMA ProtectedIsKept ==
  ASSUME NEW f, NEW groups, NEW b, NEW p, PlanOf(f, groups, b, p), log \in Seq(ChatType),
         NEW m \in ChatType, NEW j \in 1..Len(groups), Key(m) = Key(f[Len(log)][b[j]]),
         chatRuns[m.run] \in {"live", "blocked"}
  PROVE  Keeps(groups, p, j)
<1> DEFINE H == f[Len(log)]
<1>1. Planned(H, groups, b, p)
  BY DEF PlanOf
<1>2. PlanGroups(H, groups, b)
  BY <1>1, PlannedIs
<1> HIDE DEF H
<1>3. groups[j][1] = H[b[j]] /\ Key(m) = Key(H[b[j]])
  BY <1>2 DEF PlanGroups, H
<1>4. groups[j][1].run = m.run
  BY <1>3 DEF Key
<1>5. groups[j] # <<Summary>>
  <2>1. Key(m) # Key(Summary)
    BY SummaryKey
  <2>2. <<Summary>>[1] = Summary
    OBVIOUS
  <2> QED BY <1>3, <2>1, <2>2
<1> QED BY <1>4, <1>5 DEF Keeps, Kept, Protected

\* What is retained is what the new checkpoint will show, after its summary.
LEMMA PlanHistory ==
  ASSUME log \in Seq(ChatType), Turns(log), NEW f, NEW groups, NEW b, NEW p, PlanOf(f, groups, b, p)
  PROVE  HistoryOf(Checkpoint(p[1]), log) = <<Summary>> \o p[1].retained
<1> DEFINE N == Len(log)
           H == f[N]
           start == Opening(checkpoint)
           T == Visible(checkpoint)
           c == Checkpoint(p[1])
           U == Visible(c)
<1>1. /\ Planned(H, groups, b, p) /\ Picks(f, log, N, start, T) /\ N \in Nat
  BY DEF PlanOf
<1>2. H \in Seq(MessageType) /\ IsCut(b, groups, H, Len(H)) /\ RoundsBack(p, Len(groups), groups) /\ Len(H) \in Nat
  BY <1>1 DEF Planned
<1>3. start \in Seq(MessageType) /\ log \in Seq(MessageType)
  BY OpeningSeq
<1>4. PICK e : Picks(e, H, Len(H), <<>>, U)
  <2> HIDE DEF H, U
  <2> QED BY <1>2, PicksExist
<1>5. PICK g : Picks(g, log, N, <<>>, U)
  <2> HIDE DEF U, N
  <2> QED BY <1>1, PicksExist
<1>6. p[1].retained = e[Len(H)]
  <2>1. \A j \in 1..Len(groups) : Keeps(groups, p, j) <=> Key(H[b[j]]) \in U
    BY <1>1, KeptIsVisible
  <2> HIDE DEF H, U, MessageType
  <2> QED BY <1>2, <1>4, <2>1, RetainedIsPicked
<1>7. \A n \in 1..N : Key(log[n]) \in U => Key(log[n]) \in T
  BY DEF Visible, Checkpoint
<1>8. Starts(start, H)
  <2> HIDE DEF start, T, MessageType
  <2>1. 0 \in 0..Len(log) /\ Len(log) \in 0..Len(log) /\ 0 \in 0..Len(log)
    BY <1>1
  <2>2. Starts(f[0], f[Len(log)])
    BY <1>1, <1>3, <2>1, PicksGrow
  <2> QED BY <1>1, <2>2 DEF Picks
<1>9. e[Len(start)] = <<>>
  <2>1. e[0] = <<>>
    BY <1>4 DEF Picks
  <2>2. CASE Len(start) = 0
    BY <2>1, <2>2
  <2>3. CASE Len(start) = 1
    <3>1. start[1] = Summary
      <4>1. start \in {<<>>, <<Summary>>}
        BY DEF Opening
      <4>2. 1 \in 1..Len(start)
        BY <2>3
      <4> HIDE DEF start
      <4> QED BY <4>1, <4>2, OpeningIs
    <3>2. H[1] = Summary /\ 1 \in 1..Len(H)
      <4>1. Len(start) <= Len(H) /\ \A i \in 1..Len(start) : H[i] = start[i]
        BY <1>8 DEF Starts
      <4> HIDE DEF start, H
      <4> QED BY <1>2, <2>3, <3>1, <4>1
    <3>3. Key(Summary) \notin U
      BY SummaryKey
    <3> HIDE DEF H, U, start
    <3>4. e[1] = e[1 - 1]
      BY <1>4, <3>2, <3>3 DEF Picks
    <3>5. 1 - 1 = 0
      OBVIOUS
    <3> QED BY <2>1, <2>3, <3>4, <3>5
  <2>4. Len(start) = 0 \/ Len(start) = 1
    BY OpeningIs DEF Opening
  <2> QED BY <2>2, <2>3, <2>4
<1>10. g[N] = e[Len(H)]
  <2>1. \A q \in (Len(start) + 1)..Len(H) :
          e[q] = IF Key(H[q]) \in U THEN Append(e[q - 1], H[q]) ELSE e[q - 1]
    <3>1. (Len(start) + 1)..Len(H) \subseteq 1..Len(H)
      <4>1. Len(start) \in Nat
        BY <1>3
      <4> HIDE DEF start, H
      <4> QED BY <1>2, <4>1
    <3> HIDE DEF start, H, U
    <3> QED BY <1>4, <3>1 DEF Picks
  <2> HIDE DEF start, T, U, MessageType
  <2> QED BY <1>1, <1>3, <1>5, <1>7, <1>9, <2>1, PickTwice
<1>11. PICK h : Picks(h, log, N, <<Summary>>, U) /\ HistoryOf(c, log) = h[N]
  <2>1. Opening(c) = <<Summary>>
    BY DEF Opening, Checkpoint
  <2>2. \E h : Picks(h, log, N, Opening(c), U) /\ HistoryOf(c, log) = h[N]
    <3> HIDE DEF c
    <3> QED BY HistoryPicks
  <2> QED BY <2>1, <2>2
<1>12. h[N] = <<Summary>> \o g[N]
  <2> DEFINE one == <<Summary>>
  <2>1. one \in Seq(MessageType)
    BY OpeningIs
  <2>2. Picks(h, log, N, one, U)
    BY <1>11
  <2>3. Joined(one, g[N], h[N])
    <3> HIDE DEF one, U, MessageType
    <3> QED BY <1>3, <1>5, <2>1, <2>2, PicksAfter
  <2> QED BY <2>3 DEF Joined
<1> QED BY <1>6, <1>10, <1>11, <1>12

\* Only what was said is summarised.
LEMMA SelectedIsShown ==
  ASSUME log \in Seq(ChatType), NEW f, NEW groups, NEW b, NEW p, PlanOf(f, groups, b, p)
  PROVE  ToSet(p[1].selected) \subseteq ToSet(log) \cup {Summary}
<1> DEFINE H == f[Len(log)]
           start == Opening(checkpoint)
           T == Visible(checkpoint)
<1>1. Planned(H, groups, b, p) /\ Picks(f, log, Len(log), start, T)
  BY DEF PlanOf
<1>2. start \in Seq(MessageType) /\ log \in Seq(MessageType) /\ \A q \in 1..Len(start) : start[q] = Summary
  <2>1. start \in {<<>>, <<Summary>>} /\ start \in Seq(MessageType) /\ log \in Seq(MessageType)
    BY OpeningSeq
  <2> HIDE DEF start
  <2> QED BY <2>1, OpeningIs
<1>3. PlanGroups(H, groups, b) /\ PlanSelects(groups, p)
  BY <1>1, PlannedIs
<1>4. ASSUME NEW q \in 1..Len(H) PROVE H[q] = Summary \/ H[q] \in ToSet(log)
  <2>1. (q \in 1..Len(start) /\ H[q] = start[q]) \/ \E i \in 1..Len(log) : H[q] = log[i]
    <3>1. Len(log) \in 0..Len(log)
      BY <1>2
    <3> HIDE DEF start, T, MessageType
    <3> QED BY <1>1, <1>2, <3>1, PickSource
  <2>2. DOMAIN log = 1..Len(log)
    OBVIOUS
  <2> HIDE DEF start, H
  <2> QED BY <1>2, <2>1, <2>2 DEF ToSet
<1> HIDE DEF H
<1>5. ASSUME NEW m \in ToSet(p[1].selected) PROVE \E q \in 1..Len(H) : m = H[q]
  <2>1. PICK i \in 1..Len(groups) : m \in ToSet(groups[i])
    BY <1>3 DEF PlanSelects
  <2> QED BY <1>3, <2>1 DEF PlanGroups
<1> QED BY <1>4, <1>5

\* A plan fits the conversation it was made for.
LEMMA BuiltPlanFits ==
  ASSUME log \in Seq(ChatType), Turns(log)
  PROVE  PlanFits(BuildPlan)
<1>1. PICK f, groups, b, p : PlanOf(f, groups, b, p)
  BY PlanExists
<1>2. BuildPlan = p[1]
  BY <1>1 DEF PlanOf
<1> DEFINE H == f[Len(log)]
           U == Visible(Checkpoint(p[1]))
<1>3. HistoryOf(Checkpoint(p[1]), log) = Projected(p[1])
  BY <1>1, PlanHistory DEF Projected
<1>4. checkpoint.present => Summary \in ToSet(p[1].selected)
  BY <1>1, SummaryIsSelected
<1>5. ASSUME NEW m \in ToSet(log), Key(m) \in Visible(checkpoint)
      PROVE  /\ Key(m) \in U \/ m \in ToSet(p[1].selected)
             /\ chatRuns[m.run] \in {"live", "blocked"} => Key(m) \in U
  <2>1. m \in ChatType
    BY DEF ToSet
  <2>2. PICK j \in 1..Len(groups) : m \in ToSet(groups[j]) /\ Key(m) = Key(H[b[j]])
    BY <1>1, <1>5, ShownIsGrouped
  <2>3. Keeps(groups, p, j) <=> Key(m) \in U
    BY <1>1, <2>2, KeptIsVisible DEF PlanOf
  <2>4. Key(m) \in U \/ m \in ToSet(p[1].selected)
    <3>1. PlanSelects(groups, p)
      BY <1>1, PlannedIs DEF PlanOf
    <3> QED BY <2>2, <2>3, <3>1 DEF PlanSelects
  <2>5. chatRuns[m.run] \in {"live", "blocked"} => Key(m) \in U
    BY <1>1, <2>1, <2>2, <2>3, ProtectedIsKept
  <2> QED BY <2>4, <2>5
<1>6. ToSet(p[1].selected) \subseteq ToSet(log) \cup {Summary}
  BY <1>1, SelectedIsShown
<1> QED BY <1>2, <1>3, <1>4, <1>5, <1>6 DEF PlanFits

-----------------------------------------------------------------------------
(***************************************************************************)
(* The conversation: typed, in turns, its requests numbered, and nothing   *)
(* of a run that has not begun.                                            *)
(***************************************************************************)
AnswersOf(r) == {m \in ToSet(log) : m.role = "assistant" /\ m.run = r}
FirstAnswers(r, n) == {Chat("assistant", r, i, 0) : i \in 1..n}

Conversation ==
  /\ log \in Seq(ChatType) /\ Turns(log)
  /\ chatRuns \in [1..MaxChatRuns -> {"absent", "live", "closed", "blocked"}]
  /\ \A m \in ToSet(log) : chatRuns[m.run] # "absent"
  /\ \A r \in 1..MaxChatRuns : \E n \in 0..MaxRequests : AnswersOf(r) = FirstAnswers(r, n)
  /\ \A m \in ToSet(log) : m.role = "tool" => Chat("assistant", m.run, m.request, 0) \in ToSet(log)

\* A checkpoint hides messages there are.
Hidden ==
  /\ checkpoint.present \/ checkpoint = NoCheckpoint
  /\ checkpoint.runs \subseteq {m.run : m \in ToSet(log)}
  /\ checkpoint.requests \subseteq {Key(m) : m \in ToSet(log)}

Carried ==
  /\ told = HistoryOf(checkpoint, log)
  /\ \A m \in ToSet(log) : /\ Key(m) \in Visible(checkpoint) \/ m \in covered
                           /\ chatRuns[m.run] \in {"live", "blocked"} => Key(m) \in Visible(checkpoint)

Pending == Awaited => Live # {} /\ PlanFits(plan)

ChatInv == Conversation /\ Hidden /\ Carried /\ Pending

\* One turn: a user's message, or an answer and its results.
Turn(new) ==
  /\ new \in Seq(ChatType) /\ Len(new) >= 1 /\ new[1].role # "tool"
  /\ \A i \in 1..Len(new) : Key(new[i]) = Key(new[1]) /\ (i > 1 => new[i].role = "tool")

\* A conversation in turns goes on with another turn.
LEMMA TurnsGoOn ==
  ASSUME NEW s \in Seq(ChatType), Turns(s), NEW new, Turn(new), \A m \in ToSet(s) : Key(m) # Key(new[1])
  PROVE  Turns(s \o new)
<1> DEFINE N == Len(s)
           M == Len(new)
           z == s \o new
<1>1. /\ new \in Seq(ChatType) /\ N \in Nat /\ M \in Nat /\ M >= 1 /\ Len(z) = N + M
      /\ \A i \in 1..N : z[i] = s[i]
      /\ \A i \in 1..M : z[N + i] = new[i]
  BY DEF Turn
<1>2. \A i \in 1..N : s[i] \in ToSet(s)
  <2>1. DOMAIN s = 1..N
    OBVIOUS
  <2> QED BY <2>1 DEF ToSet
<1>3. \A q \in 1..N : FitsAt(s, q)
  BY DEF Turns
<1>4. new[1].role # "tool" /\ \A i \in 1..M : Key(new[i]) = Key(new[1]) /\ (i > 1 => new[i].role = "tool")
  BY DEF Turn
<1>5. \A i \in 1..N : Key(s[i]) # Key(new[1])
  BY <1>2
<1> HIDE DEF z, N, M
<1>6. ASSUME NEW q \in 1..N PROVE FitsAt(z, q)
  <2>1. FitsAt(s, q) /\ z[q] = s[q] /\ \A p \in 1..(q - 1) : z[p] = s[p]
    <3>1. 1..(q - 1) \subseteq 1..N
      BY <1>1
    <3> QED BY <1>1, <1>3, <3>1
  <2>2. q > 1 => z[q - 1] = s[q - 1]
    <3>1. q > 1 => q - 1 \in 1..(q - 1)
      BY <1>1
    <3> QED BY <2>1, <3>1
  <2> QED BY <2>1, <2>2 DEF FitsAt
<1>7. FitsAt(z, N + 1)
  <2>1. z[N + 1] = new[1]
    BY <1>1
  <2>2. \A p \in 1..(N + 1 - 1) : p \in 1..N /\ z[p] = s[p]
    BY <1>1
  <2>3. \A p \in 1..(N + 1 - 1) : Key(z[p]) # Key(z[N + 1])
    BY <1>5, <2>1, <2>2
  <2>4. z[N + 1].role # "tool"
    BY <1>4, <2>1
  <2> DEFINE q == N + 1
  <2>5. z[q].role # "tool" /\ \A p \in 1..(q - 1) : Key(z[p]) # Key(z[q])
    BY <1>1, <2>3, <2>4
  <2> HIDE DEF q
  <2>6. FitsAt(z, q)
    BY <2>5 DEF FitsAt
  <2> QED BY <2>6 DEF q
<1>8. ASSUME NEW i \in 2..M PROVE FitsAt(z, N + i)
  <2>1. i \in 1..M /\ i - 1 \in 1..M /\ i > 1 /\ N + i - 1 = N + (i - 1) /\ N + i > 1
    BY <1>1
  <2>2. z[N + i] = new[i] /\ z[N + (i - 1)] = new[i - 1]
    BY <1>1, <2>1
  <2>3. new[i].role = "tool" /\ Key(new[i]) = Key(new[i - 1])
    BY <1>4, <2>1
  <2>4. z[N + i].role = "tool" /\ N + i > 1 /\ Key(z[N + i - 1]) = Key(z[N + i])
    BY <2>1, <2>2, <2>3
  <2> DEFINE q == N + i
  <2>5. z[q].role = "tool" /\ q > 1 /\ Key(z[q - 1]) = Key(z[q])
    BY <1>1, <2>4
  <2> HIDE DEF q
  <2>6. FitsAt(z, q)
    BY <2>5 DEF FitsAt
  <2> QED BY <2>6 DEF q
<1>9. ASSUME NEW q \in 1..(N + M) PROVE FitsAt(z, q)
  <2>1. q \in 1..N \/ q = N + 1 \/ (q - N \in 2..M /\ N + (q - N) = q)
    BY <1>1
  <2>2. CASE q - N \in 2..M /\ N + (q - N) = q
    <3>1. FitsAt(z, N + (q - N))
      BY <1>8, <2>2
    <3> QED BY <2>2, <3>1
  <2> QED BY <1>6, <1>7, <2>1, <2>2
<1> QED BY <1>1, <1>9 DEF Turns, z

\* No message of the log has the key of the turn, and none of a new run has been said.
Fresh(new) ==
  \A m \in ToSet(log) : Key(m) # Key(new[1]) /\ (new[1].request = 0 => m.run # new[1].run)

\* No checkpoint hides what is new.
LEMMA NewIsVisible ==
  ASSUME Hidden, NEW new, Turn(new), Fresh(new)
  PROVE  \A i \in 1..Len(new) : Key(new[i]) \in Visible(checkpoint)
<1> DEFINE a == new[1]
<1>1. a \in ChatType
  <2>1. new \in Seq(ChatType) /\ 1 \in 1..Len(new)
    BY DEF Turn
  <2> QED BY <2>1
<1> HIDE DEF a
<1>2. a.run \in 1..MaxChatRuns /\ a.request \in Nat
  BY <1>1 DEF ChatType
<1>3. a.request = 0 => a.run \notin checkpoint.runs
  BY DEF Hidden, Fresh, a
<1>4. Key(a) \notin checkpoint.requests
  BY DEF Hidden, Fresh, a
<1>5. Key(a) \in Visible(checkpoint)
  BY <1>2, <1>3, <1>4 DEF Visible, Key
<1> QED BY <1>5 DEF Turn, a

\* A new turn is shown, and nothing else changes.
LEMMA SaidFits ==
  ASSUME Conversation, Hidden, Carried, NEW new, Turn(new), Fresh(new), Says(new),
         UNCHANGED <<checkpoint, covered>>,
         \A m \in ToSet(log) : chatRuns'[m.run] \in {"live", "blocked"} => chatRuns[m.run] \in {"live", "blocked"}
  PROVE  /\ log' \in Seq(ChatType) /\ Turns(log') /\ ToSet(log') = ToSet(log) \cup ToSet(new)
         /\ Hidden' /\ Carried'
<1>1. log \in Seq(ChatType) /\ Turns(log) /\ new \in Seq(ChatType) /\ log' = log \o new /\ told' = told \o new
  BY DEF Conversation, Turn, Says
<1>2. log' \in Seq(ChatType)
  BY <1>1
<1>3. Turns(log')
  BY <1>1, TurnsGoOn DEF Fresh
<1>4. ToSet(log') = ToSet(log) \cup ToSet(new)
  <2> HIDE DEF ChatType
  <2> QED BY <1>1, JoinedSet
<1>5. Hidden'
  BY <1>4 DEF Hidden
<1>6. \A i \in 1..Len(new) : Key(new[i]) \in Visible(checkpoint)
  BY NewIsVisible
<1>7. told' = HistoryOf(checkpoint', log')
  <2>1. told = HistoryOf(checkpoint, log)
    BY DEF Carried
  <2>2. HistoryOf(checkpoint, log \o new) = HistoryOf(checkpoint, log) \o new
    BY <1>1, <1>6, HistoryAppends
  <2> QED BY <1>1, <2>1, <2>2
<1>8. \A m \in ToSet(new) : Key(m) \in Visible(checkpoint)
  <2>1. DOMAIN new = 1..Len(new)
    BY <1>1
  <2> QED BY <1>6, <2>1 DEF ToSet
<1>9. Carried'
  BY <1>4, <1>7, <1>8 DEF Carried
<1> QED BY <1>2, <1>3, <1>4, <1>5, <1>9

\* The next request has the number after those answered.
LEMMA AnswerCount ==
  ASSUME NEW r, NEW n \in Nat
  PROVE  Cardinality(FirstAnswers(r, n)) = n
<1> DEFINE f == [i \in 1..n |-> Chat("assistant", r, i, 0)]
<1>1. IsFiniteSet(1..n) /\ Cardinality(1..n) = n
  <2>1. 1 \in Int /\ n \in Int
    OBVIOUS
  <2>2. IsFiniteSet(1..n) /\ Cardinality(1..n) = IF 1 > n THEN 0 ELSE n - 1 + 1
    BY <2>1, FS_Interval
  <2> QED BY <2>2
<1>2. f \in Bijection(1..n, FirstAnswers(r, n))
  <2>1. f \in [1..n -> FirstAnswers(r, n)]
    BY DEF FirstAnswers
  <2>2. \A i, j \in 1..n : f[i] = f[j] => i = j
    <3>1. \A i \in 1..n : f[i].request = i
      BY DEF Chat
    <3> QED BY <3>1
  <2>3. \A x \in FirstAnswers(r, n) : \E i \in 1..n : f[i] = x
    BY DEF FirstAnswers
  <2> QED BY <2>1, <2>2, <2>3 DEF Bijection, Injection, Surjection, IsInjective
<1>3. ExistsBijection(1..n, FirstAnswers(r, n))
  BY <1>2 DEF ExistsBijection
<1> QED BY <1>1, <1>3, FS_Bijection

\* A message of a request has the number of one of the answers.
LEMMA NumberedRequests ==
  ASSUME Conversation, NEW r \in 1..MaxChatRuns, NEW n \in 0..MaxRequests, AnswersOf(r) = FirstAnswers(r, n)
  PROVE  \A m \in ToSet(log) : m.run = r /\ m.request # 0 => m.request \in 1..n
<1> TAKE m \in ToSet(log)
<1> HAVE m.run = r /\ m.request # 0
<1>1. m \in ChatType
  BY DEF Conversation, ToSet
<1>2. ASSUME NEW a \in ToSet(log), a.role = "assistant", a.run = r PROVE a.request \in 1..n
  <2>1. a \in FirstAnswers(r, n)
    BY <1>2 DEF AnswersOf
  <2> QED BY <2>1 DEF FirstAnswers, Chat
<1>3. CASE m.role = "assistant"
  BY <1>2, <1>3
<1>4. CASE m.role = "tool"
  <2> DEFINE a == Chat("assistant", m.run, m.request, 0)
  <2>1. a \in ToSet(log)
    BY <1>4 DEF Conversation
  <2>2. a.role = "assistant" /\ a.run = r /\ a.request = m.request
    BY DEF Chat
  <2> QED BY <1>2, <2>1, <2>2
<1> QED BY <1>1, <1>3, <1>4 DEF ChatType

\* A run begins with a message nothing hides.
LEMMA UserSaysFits ==
  ASSUME ChatInv, NEW r \in 1..MaxChatRuns, UserSays(r)
  PROVE  ChatInv'
<1> DEFINE u == Chat("user", r, 0, 0)
           new == <<u>>
<1>0. Conversation /\ Hidden /\ Carried /\ Pending
  BY DEF ChatInv
<1>1. u \in ChatType /\ u.run = r /\ u.request = 0 /\ u.role = "user"
  BY DEF Chat, ChatType
<1>2. Live = {} /\ Begun = 1..(r - 1) /\ chatRuns' = [chatRuns EXCEPT ![r] = "live"] /\ Says(new)
      /\ UNCHANGED <<checkpoint, plan, covered>>
  BY DEF UserSays
<1>3. chatRuns \in [1..MaxChatRuns -> {"absent", "live", "closed", "blocked"}]
      /\ \A m \in ToSet(log) : chatRuns[m.run] # "absent"
  BY <1>0 DEF Conversation
<1>4. chatRuns[r] = "absent"
  <2>1. r \notin 1..(r - 1) /\ r \in DOMAIN chatRuns
    BY <1>3
  <2> QED BY <1>2, <2>1 DEF Begun
<1>5. \A m \in ToSet(log) : m.run # r
  BY <1>3, <1>4
<1> HIDE DEF u
<1>6. new \in Seq(ChatType) /\ Len(new) = 1 /\ new[1] = u
  <2> HIDE DEF ChatType
  <2> QED BY <1>1
<1> HIDE DEF new
<1>7. Turn(new)
  BY <1>1, <1>6 DEF Turn
<1>8. Fresh(new)
  BY <1>1, <1>5, <1>6 DEF Fresh, Key
<1>9. \A m \in ToSet(log) : chatRuns'[m.run] = chatRuns[m.run]
  BY <1>2, <1>3, <1>5
<1>10. /\ log' \in Seq(ChatType) /\ Turns(log') /\ ToSet(log') = ToSet(log) \cup ToSet(new)
       /\ Hidden' /\ Carried'
  BY <1>0, <1>2, <1>7, <1>8, <1>9, SaidFits
<1>11. ToSet(new) = {u}
  <2>1. DOMAIN new = 1..1
    BY <1>6
  <2> QED BY <1>6, <2>1 DEF ToSet
<1>12. Conversation'
  <2>1. chatRuns' \in [1..MaxChatRuns -> {"absent", "live", "closed", "blocked"}]
    BY <1>2, <1>3
  <2>2. \A m \in ToSet(log') : chatRuns'[m.run] # "absent"
    <3>1. chatRuns'[u.run] = "live"
      BY <1>1, <1>2, <1>3
    <3> QED BY <1>3, <1>9, <1>10, <1>11, <3>1
  <2>3. \A x \in 1..MaxChatRuns : AnswersOf(x)' = AnswersOf(x)
    BY <1>1, <1>10, <1>11 DEF AnswersOf
  <2>4. \A x \in 1..MaxChatRuns : \E n \in 0..MaxRequests : AnswersOf(x)' = FirstAnswers(x, n)
    BY <1>0, <2>3 DEF Conversation
  <2>5. \A m \in ToSet(log') : m.role = "tool" => Chat("assistant", m.run, m.request, 0) \in ToSet(log')
    <3>1. \A m \in ToSet(log) : m.role = "tool" => Chat("assistant", m.run, m.request, 0) \in ToSet(log)
      BY <1>0 DEF Conversation
    <3> QED BY <1>1, <1>10, <1>11, <3>1
  <2> QED BY <1>10, <2>1, <2>2, <2>4, <2>5 DEF Conversation
<1>13. Pending'
  <2>1. ~Awaited
    BY <1>0, <1>2 DEF Pending
  <2>2. ~Awaited'
    BY <1>2, <2>1 DEF Awaited
  <2> QED BY <2>2 DEF Pending
<1> QED BY <1>10, <1>12, <1>13 DEF ChatInv

Results(r, n, calls) == [i \in 1..calls |-> Chat("tool", r, n, i)]
StepTurn(r, n, calls) == <<Chat("assistant", r, n, 0)>> \o Results(r, n, calls)

\* The messages of what is joined, by their place.
LEMMA JoinedAt ==
  ASSUME NEW S, NEW x \in Seq(S), NEW y \in Seq(S)
  PROVE  /\ x \o y \in Seq(S) /\ Len(x \o y) = Len(x) + Len(y) /\ Len(x) \in Nat /\ Len(y) \in Nat
         /\ \A i \in 1..Len(x) : (x \o y)[i] = x[i]
         /\ \A i \in 1..Len(y) : (x \o y)[Len(x) + i] = y[i]
OBVIOUS

\* An answer and its results are a turn.
LEMMA StepTurnIs ==
  ASSUME NEW r \in 1..MaxChatRuns, NEW n \in Nat, n >= 1, NEW calls \in Nat
  PROVE  /\ Turn(StepTurn(r, n, calls))
         /\ StepTurn(r, n, calls)[1] = Chat("assistant", r, n, 0)
         /\ ToSet(StepTurn(r, n, calls)) = {Chat("assistant", r, n, 0)} \cup ToSet(Results(r, n, calls))
         /\ \A m \in ToSet(Results(r, n, calls)) : m.role = "tool" /\ m.run = r /\ m.request = n
<1> DEFINE a == Chat("assistant", r, n, 0)
           x == <<a>>
           y == Results(r, n, calls)
<1>1. a \in ChatType /\ a.role = "assistant" /\ Key(a) = <<r, n>>
  BY DEF Chat, ChatType, Key
<1>2. \A i \in 1..calls : Chat("tool", r, n, i) \in ChatType
  BY DEF Chat, ChatType
<1>3. y \in Seq(ChatType) /\ Len(y) = calls
  <2> HIDE DEF ChatType
  <2> QED BY <1>2 DEF Results
<1>4. \A i \in 1..calls : y[i].role = "tool" /\ Key(y[i]) = <<r, n>> /\ y[i].run = r /\ y[i].request = n
  BY DEF Results, Chat, Key
<1> HIDE DEF a
<1>5. x \in Seq(ChatType) /\ Len(x) = 1 /\ x[1] = a
  <2> HIDE DEF ChatType
  <2> QED BY <1>1
<1>6. ToSet(x) = {a}
  <2>1. DOMAIN x = 1..1
    BY <1>5
  <2> QED BY <1>5, <2>1 DEF ToSet
<1> HIDE DEF x, y
<1> DEFINE z == x \o y
<1>7. ToSet(z) = {a} \cup ToSet(y)
  <2> HIDE DEF ChatType
  <2> QED BY <1>3, <1>5, <1>6, JoinedSet
<1>8. /\ z \in Seq(ChatType) /\ Len(z) = 1 + calls /\ z[1] = a
      /\ \A i \in 2..(1 + calls) : z[i] = y[i - 1] /\ i - 1 \in 1..calls
  <2> HIDE DEF ChatType
  <2>1. /\ z \in Seq(ChatType) /\ Len(z) = Len(x) + Len(y)
        /\ \A i \in 1..Len(x) : z[i] = x[i]
        /\ \A i \in 1..Len(y) : z[Len(x) + i] = y[i]
    <3>1. x \in Seq(ChatType)
      BY <1>5
    <3>2. y \in Seq(ChatType)
      BY <1>3
    <3> HIDE DEF z
    <3>3. /\ x \o y \in Seq(ChatType) /\ Len(x \o y) = Len(x) + Len(y)
          /\ \A i \in 1..Len(x) : (x \o y)[i] = x[i]
          /\ \A i \in 1..Len(y) : (x \o y)[Len(x) + i] = y[i]
      BY <3>1, <3>2, JoinedAt
    <3> QED BY <3>3 DEF z
  <2> HIDE DEF z
  <2>2. z[1] = a /\ Len(z) = 1 + calls
    BY <1>3, <1>5, <2>1
  <2>3. ASSUME NEW i \in 2..(1 + calls) PROVE z[i] = y[i - 1] /\ i - 1 \in 1..calls
    <3>1. i - 1 \in 1..calls /\ 1 + (i - 1) = i
      OBVIOUS
    <3>2. z[1 + (i - 1)] = y[i - 1]
      BY <1>3, <1>5, <2>1, <3>1
    <3> QED BY <3>1, <3>2
  <2> QED BY <2>1, <2>2, <2>3
<1>9. \A m \in ToSet(y) : m.role = "tool" /\ m.run = r /\ m.request = n
  <2>1. DOMAIN y = 1..calls
    BY <1>3
  <2> QED BY <1>4, <2>1 DEF ToSet
<1> HIDE DEF z
<1>10. Turn(z)
  <2>1. \A i \in 1..Len(z) : i = 1 \/ i \in 2..(1 + calls)
    BY <1>8
  <2>2. \A i \in 1..Len(z) : Key(z[i]) = Key(z[1]) /\ (i > 1 => z[i].role = "tool")
    BY <1>1, <1>4, <1>8, <2>1
  <2> QED BY <1>1, <1>8, <2>2 DEF Turn
<1> QED BY <1>7, <1>8, <1>9, <1>10 DEF StepTurn, a, x, y, z

\* A step adds a turn under a new number.
LEMMA StepEndsFits ==
  ASSUME ChatInv, NEW r \in 1..MaxChatRuns, NEW calls \in 0..MaxResults, StepEnds(r, calls)
  PROVE  ChatInv'
<1>0. Conversation /\ Hidden /\ Carried /\ Pending
  BY DEF ChatInv
<1>1. PICK k \in 0..MaxRequests : AnswersOf(r) = FirstAnswers(r, k)
  BY <1>0 DEF Conversation
<1>2. Cardinality(AnswersOf(r)) = k /\ k \in Nat
  <2>1. k \in Nat
    OBVIOUS
  <2> QED BY <1>1, <2>1, AnswerCount
<1> DEFINE n == 1 + k
           a == Chat("assistant", r, n, 0)
           new == StepTurn(r, n, calls)
<1>3. /\ r \in Live /\ ~Awaited /\ n <= MaxRequests /\ Says(new)
      /\ UNCHANGED <<chatRuns, checkpoint, plan, covered>>
  BY <1>2 DEF StepEnds, AnswersOf, StepTurn, Results
<1>4. n \in 1..MaxRequests /\ n \in Nat /\ n >= 1 /\ calls \in Nat
  <2>1. MaxRequests \in Nat /\ MaxResults \in Nat
    BY ChatAssumption
  <2> QED BY <1>2, <1>3, <2>1
<1>5. /\ Turn(new) /\ new[1] = a /\ ToSet(new) = {a} \cup ToSet(Results(r, n, calls))
      /\ \A m \in ToSet(Results(r, n, calls)) : m.role = "tool" /\ m.run = r /\ m.request = n
  <2> HIDE DEF n
  <2> QED BY <1>4, StepTurnIs
<1>6. a.role = "assistant" /\ a.run = r /\ a.request = n /\ a.result = 0
  BY DEF Chat
<1>7. Fresh(new)
  <2>1. \A m \in ToSet(log) : m.run = r /\ m.request # 0 => m.request \in 1..k
    BY <1>0, <1>1, NumberedRequests
  <2>2. \A m \in ToSet(log) : ~(m.run = r /\ m.request = n)
    BY <1>2, <2>1
  <2> HIDE DEF n, a, new
  <2> QED BY <1>4, <1>5, <1>6, <2>2 DEF Fresh, Key
<1>8. /\ log' \in Seq(ChatType) /\ Turns(log') /\ ToSet(log') = ToSet(log) \cup ToSet(new)
      /\ Hidden' /\ Carried'
  <2> HIDE DEF new
  <2> QED BY <1>0, <1>3, <1>5, <1>7, SaidFits
<1>9. ToSet(log') = ToSet(log) \cup {a} \cup ToSet(Results(r, n, calls))
  BY <1>5, <1>8
<1> HIDE DEF new
<1>10. Conversation'
  <2>0. /\ chatRuns \in [1..MaxChatRuns -> {"absent", "live", "closed", "blocked"}]
        /\ \A m \in ToSet(log) : chatRuns[m.run] # "absent"
        /\ \A x \in 1..MaxChatRuns : \E i \in 0..MaxRequests : AnswersOf(x) = FirstAnswers(x, i)
        /\ \A m \in ToSet(log) : m.role = "tool" => Chat("assistant", m.run, m.request, 0) \in ToSet(log)
    BY <1>0 DEF Conversation
  <2>1. chatRuns' \in [1..MaxChatRuns -> {"absent", "live", "closed", "blocked"}]
    BY <1>3, <2>0
  <2>2. \A m \in ToSet(log') : chatRuns'[m.run] # "absent"
    <3>1. chatRuns[r] # "absent"
      BY <1>3 DEF Live
    <3> HIDE DEF a, n
    <3> QED BY <1>3, <1>5, <1>6, <1>9, <2>0, <3>1
  <2>3. ASSUME NEW x \in 1..MaxChatRuns PROVE \E i \in 0..MaxRequests : AnswersOf(x)' = FirstAnswers(x, i)
    <3>1. CASE x = r
      <4>1. AnswersOf(r)' = AnswersOf(r) \cup {a}
        <5> HIDE DEF a, n
        <5> QED BY <1>5, <1>6, <1>9 DEF AnswersOf
      <4>2. FirstAnswers(r, n) = FirstAnswers(r, k) \cup {a}
        <5>1. 1..n = (1..k) \cup {n}
          BY <1>2
        <5> HIDE DEF n
        <5> QED BY <5>1 DEF FirstAnswers
      <4>3. n \in 0..MaxRequests
        BY <1>2, <1>3
      <4> HIDE DEF a, n
      <4> QED BY <1>1, <3>1, <4>1, <4>2, <4>3
    <3>2. CASE x # r
      <4>1. AnswersOf(x)' = AnswersOf(x)
        <5> HIDE DEF a, n
        <5> QED BY <1>5, <1>6, <1>9, <3>2 DEF AnswersOf
      <4> QED BY <2>0, <4>1
    <3> QED BY <3>1, <3>2
  <2>4. \A m \in ToSet(log') : m.role = "tool" => Chat("assistant", m.run, m.request, 0) \in ToSet(log')
    <3> TAKE m \in ToSet(log')
    <3> HAVE m.role = "tool"
    <3>1. CASE m \in ToSet(log)
      BY <1>9, <2>0, <3>1
    <3>2. CASE m \in ToSet(Results(r, n, calls))
      <4>1. Chat("assistant", m.run, m.request, 0) = a
        BY <1>5, <3>2
      <4> HIDE DEF a, n
      <4> QED BY <1>9, <4>1
    <3>3. m # a
      BY <1>6
    <3> HIDE DEF a, n
    <3> QED BY <1>9, <3>1, <3>2, <3>3
  <2> QED BY <1>8, <2>1, <2>2, <2>3, <2>4 DEF Conversation
<1>11. Pending'
  <2>1. ~Awaited'
    BY <1>3 DEF Awaited
  <2> QED BY <2>1 DEF Pending
<1> QED BY <1>8, <1>10, <1>11 DEF ChatInv

\* A compaction starts with a plan that fits.
LEMMA StartsCompactionFits ==
  ASSUME ChatInv, NEW r \in 1..MaxChatRuns, StartsCompaction(r)
  PROVE  ChatInv'
<1>0. Conversation /\ Hidden /\ Carried
  BY DEF ChatInv
<1>1. r \in Live /\ plan' = BuildPlan /\ UNCHANGED <<log, chatRuns, checkpoint, covered, told>>
  BY DEF StartsCompaction
<1>2. Conversation'
  BY <1>0, <1>1 DEF Conversation, AnswersOf
<1>3. Hidden' /\ Carried'
  BY <1>0, <1>1 DEF Hidden, Carried
<1>4. PlanFits(BuildPlan)
  BY <1>0, BuiltPlanFits DEF Conversation
<1>5. Live' # {} /\ PlanFits(plan)'
  <2>1. Live' = Live
    BY <1>1 DEF Live
  <2> DEFINE p == BuildPlan
  <2>2. PlanFits(p) /\ plan' = p
    BY <1>1, <1>4
  <2> HIDE DEF p
  <2>3. PlanFits(plan)'
    BY <1>1, <2>2 DEF PlanFits, Checkpoint, Projected
  <2> QED BY <1>1, <2>1, <2>3
<1> QED BY <1>2, <1>3, <1>5 DEF ChatInv, Pending

\* A summary hides only what it has read.
LEMMA CompactionDoneFits ==
  ASSUME ChatInv, CompactionDone
  PROVE  ChatInv'
<1> DEFINE c == Checkpoint(plan)
<1>0. Conversation /\ Hidden /\ Carried /\ Pending
  BY DEF ChatInv
<1>1. /\ Awaited /\ checkpoint' = c /\ told' = Projected(plan) /\ plan' = NoPlan
      /\ covered' = ToSet(plan.selected) \cup (IF Summary \in ToSet(plan.selected) THEN covered ELSE {})
      /\ UNCHANGED <<log, chatRuns>>
  BY DEF CompactionDone
<1>2. /\ HistoryOf(c, log) = Projected(plan)
      /\ \A m \in ToSet(log) : Key(m) \in Visible(checkpoint) =>
           /\ Key(m) \in Visible(c) \/ m \in ToSet(plan.selected)
           /\ chatRuns[m.run] \in {"live", "blocked"} => Key(m) \in Visible(c)
      /\ checkpoint.present => Summary \in ToSet(plan.selected)
      /\ ToSet(plan.selected) \subseteq ToSet(log) \cup {Summary}
  BY <1>0, <1>1 DEF Pending, PlanFits
<1>3. Conversation'
  BY <1>0, <1>1 DEF Conversation, AnswersOf
<1>4. Hidden'
  <2>1. c.present
    BY DEF Checkpoint
  <2>2. c.runs \subseteq {m.run : m \in ToSet(log)}
    <3>1. c.runs = checkpoint.runs \cup {m.run : m \in {s \in ToSet(plan.selected) :
                                                          s.role = "user" /\ chatRuns[s.run] # "live"}}
      BY DEF Checkpoint
    <3>2. checkpoint.runs \subseteq {m.run : m \in ToSet(log)}
      BY <1>0 DEF Hidden
    <3>3. Summary.role # "user"
      BY SummaryKey
    <3> HIDE DEF c
    <3> QED BY <1>2, <3>1, <3>2, <3>3
  <2>3. c.requests \subseteq {Key(m) : m \in ToSet(log)}
    <3>1. c.requests = checkpoint.requests \cup {Key(m) : m \in {s \in ToSet(plan.selected) :
                                                                  s.role \in {"assistant", "tool"}}}
      BY DEF Checkpoint, Key
    <3>2. checkpoint.requests \subseteq {Key(m) : m \in ToSet(log)}
      BY <1>0 DEF Hidden
    <3>3. Summary.role \notin {"assistant", "tool"}
      BY SummaryKey
    <3> HIDE DEF c
    <3> QED BY <1>2, <3>1, <3>2, <3>3
  <2> HIDE DEF c
  <2> QED BY <1>1, <2>1, <2>2, <2>3 DEF Hidden
<1>5. Carried'
  <2>1. ASSUME NEW m \in ToSet(log)
        PROVE  /\ Key(m) \in Visible(c) \/ m \in covered'
               /\ chatRuns[m.run] \in {"live", "blocked"} => Key(m) \in Visible(c)
    <3>1. Key(m) \in Visible(checkpoint) \/ m \in covered
      BY <1>0 DEF Carried
    <3>2. CASE Key(m) \in Visible(checkpoint)
      BY <1>1, <1>2, <3>2
    <3>3. CASE Key(m) \notin Visible(checkpoint)
      <4>1. checkpoint.present
        <5>1. m \in ChatType
          BY <1>0 DEF Conversation, ToSet
        <5>2. checkpoint = NoCheckpoint => Key(m) \in Visible(checkpoint)
          BY <5>1 DEF NoCheckpoint, Visible, Key, ChatType
        <5> QED BY <1>0, <3>3, <5>2 DEF Hidden
      <4>2. m \in covered'
        BY <1>1, <1>2, <3>1, <3>3, <4>1
      <4>3. chatRuns[m.run] \notin {"live", "blocked"}
        BY <1>0, <3>3 DEF Carried
      <4> QED BY <4>2, <4>3
    <3> QED BY <3>2, <3>3
  <2>2. told' = HistoryOf(checkpoint', log')
    BY <1>1, <1>2
  <2> HIDE DEF c
  <2> QED BY <1>1, <2>1, <2>2 DEF Carried
<1>6. Pending'
  BY <1>1 DEF Pending, Awaited
<1> QED BY <1>3, <1>4, <1>5, <1>6 DEF ChatInv

\* A compaction that fails changes nothing.
LEMMA CompactionGivesUpFits ==
  ASSUME ChatInv, CompactionGivesUp
  PROVE  ChatInv'
<1>0. Conversation /\ Hidden /\ Carried
  BY DEF ChatInv
<1>1. plan' = NoPlan /\ UNCHANGED <<log, chatRuns, checkpoint, covered, told>>
  BY DEF CompactionGivesUp
<1>2. Conversation'
  BY <1>0, <1>1 DEF Conversation, AnswersOf
<1>3. Hidden' /\ Carried'
  BY <1>0, <1>1 DEF Hidden, Carried
<1>4. Pending'
  BY <1>1 DEF Pending, Awaited
<1> QED BY <1>2, <1>3, <1>4 DEF ChatInv

\* A run that was live may be closed or blocked, and nothing is awaited.
LEMMA LiveRunEndsFits ==
  ASSUME ChatInv, NEW r \in 1..MaxChatRuns, r \in Live, NEW status \in {"closed", "blocked"},
         chatRuns' = [chatRuns EXCEPT ![r] = status], ~Awaited',
         UNCHANGED <<log, checkpoint, covered, told>>
  PROVE  ChatInv'
<1>0. Conversation /\ Hidden /\ Carried
  BY DEF ChatInv
<1>1. chatRuns \in [1..MaxChatRuns -> {"absent", "live", "closed", "blocked"}] /\ chatRuns[r] = "live"
  BY <1>0 DEF Conversation, Live
<1>2. \A x \in 1..MaxChatRuns : /\ chatRuns[x] # "absent" => chatRuns'[x] # "absent"
                                /\ chatRuns'[x] \in {"live", "blocked"} => chatRuns[x] \in {"live", "blocked"}
  BY <1>1
<1>3. \A m \in ToSet(log) : m.run \in 1..MaxChatRuns
  <2>1. log \in Seq(ChatType)
    BY <1>0 DEF Conversation
  <2>2. \A m \in ToSet(log) : m \in ChatType
    <3> HIDE DEF ChatType
    <3> QED BY <2>1 DEF ToSet
  <2> QED BY <2>2 DEF ChatType
<1>4. Conversation'
  <2>1. chatRuns' \in [1..MaxChatRuns -> {"absent", "live", "closed", "blocked"}]
    BY <1>1
  <2>2. \A m \in ToSet(log') : chatRuns'[m.run] # "absent"
    BY <1>0, <1>2, <1>3 DEF Conversation
  <2> QED BY <1>0, <2>1, <2>2 DEF Conversation, AnswersOf
<1>5. Hidden'
  BY <1>0 DEF Hidden
<1>6. Carried'
  BY <1>0, <1>2, <1>3 DEF Carried
<1>7. Pending'
  BY DEF Pending
<1> QED BY <1>4, <1>5, <1>6, <1>7 DEF ChatInv

\* A run ends between two compactions.
LEMMA RunEndsFits ==
  ASSUME ChatInv, NEW r \in 1..MaxChatRuns, RunEnds(r)
  PROVE  ChatInv'
<1>1. r \in Live /\ ~Awaited /\ UNCHANGED <<log, checkpoint, plan, covered, told>>
  BY DEF RunEnds
<1>2. PICK status \in {"closed", "blocked"} : chatRuns' = [chatRuns EXCEPT ![r] = status]
  BY DEF RunEnds
<1>3. ~Awaited'
  BY <1>1 DEF Awaited
<1> QED BY <1>1, <1>2, <1>3, LiveRunEndsFits

\* An interruption drops the plan.
LEMMA InterruptsFits ==
  ASSUME ChatInv, NEW r \in 1..MaxChatRuns, Interrupts(r)
  PROVE  ChatInv'
<1>1. /\ r \in Live /\ chatRuns' = [chatRuns EXCEPT ![r] = "blocked"] /\ plan' = NoPlan
      /\ UNCHANGED <<log, checkpoint, covered, told>>
  BY DEF Interrupts
<1>2. ~Awaited'
  BY <1>1 DEF Awaited
<1>3. "blocked" \in {"closed", "blocked"}
  OBVIOUS
<1> QED BY <1>1, <1>2, <1>3, LiveRunEndsFits

\* The other operations leave the conversation alone.
LEMMA ChatUnchangedFits ==
  ASSUME ChatInv, UNCHANGED chatVars
  PROVE  ChatInv'
<1>0. Conversation /\ Hidden /\ Carried /\ Pending
  BY DEF ChatInv
<1>1. UNCHANGED <<log, chatRuns, checkpoint, plan, covered, told>>
  BY DEF chatVars
<1>2. Conversation'
  BY <1>0, <1>1 DEF Conversation, AnswersOf
<1>3. Hidden' /\ Carried'
  BY <1>0, <1>1 DEF Hidden, Carried
<1>4. Pending'
  <2>1. Live' = Live /\ Awaited' = Awaited
    BY <1>1 DEF Live, Awaited
  <2>2. PlanFits(plan) => PlanFits(plan)'
    <3> SUFFICES ASSUME PlanFits(plan) PROVE PlanFits(plan)'
      OBVIOUS
    <3> QED BY <1>1 DEF PlanFits, Checkpoint, Projected
  <2> QED BY <1>0, <2>1, <2>2 DEF Pending
<1> QED BY <1>2, <1>3, <1>4 DEF ChatInv

\* Every step of a session keeps the invariant.
LEMMA ChatStepFits ==
  ASSUME ChatInv, ChatNext \/ UNCHANGED chatVars
  PROVE  ChatInv'
<1>1. CASE UNCHANGED chatVars
  BY <1>1, ChatUnchangedFits
<1>2. CASE CompactionDone
  BY <1>2, CompactionDoneFits
<1>3. CASE CompactionGivesUp
  BY <1>3, CompactionGivesUpFits
<1>4. ASSUME NEW r \in 1..MaxChatRuns, UserSays(r) \/ StartsCompaction(r) \/ RunEnds(r) \/ Interrupts(r)
      PROVE  ChatInv'
  BY <1>4, UserSaysFits, StartsCompactionFits, RunEndsFits, InterruptsFits
<1>5. ASSUME NEW r \in 1..MaxChatRuns, NEW calls \in 0..MaxResults, StepEnds(r, calls)
      PROVE  ChatInv'
  BY <1>5, StepEndsFits
<1> QED BY <1>1, <1>2, <1>3, <1>4, <1>5 DEF ChatNext

\* It holds of an empty session.
LEMMA ChatBegins ==
  ASSUME ChatInit
  PROVE  ChatInv
<1>1. /\ log = <<>> /\ told = <<>> /\ chatRuns = [r \in 1..MaxChatRuns |-> "absent"]
      /\ checkpoint = NoCheckpoint /\ plan = NoPlan
  BY DEF ChatInit
<1>2. ToSet(log) = {} /\ log \in Seq(ChatType) /\ Turns(log)
  BY <1>1 DEF ToSet, Turns
<1>3. \A r \in 1..MaxChatRuns : \E n \in 0..MaxRequests : AnswersOf(r) = FirstAnswers(r, n)
  <2>1. 0 \in 0..MaxRequests /\ 1..0 = {}
    BY ChatAssumption
  <2> QED BY <1>2, <2>1 DEF AnswersOf, FirstAnswers
<1>4. Conversation
  BY <1>1, <1>2, <1>3 DEF Conversation
<1>5. told = HistoryOf(checkpoint, log)
  <2>1. PICK f : /\ Picks(f, log, Len(log), Opening(checkpoint), Visible(checkpoint))
                 /\ HistoryOf(checkpoint, log) = f[Len(log)]
    BY <1>2, HistoryPicks
  <2>2. Len(log) = 0 /\ Opening(checkpoint) = <<>>
    BY <1>1 DEF Opening, NoCheckpoint
  <2> QED BY <1>1, <2>1, <2>2 DEF Picks
<1>6. Hidden /\ Carried /\ Pending
  BY <1>1, <1>2, <1>5 DEF Hidden, Carried, Pending, Awaited, NoCheckpoint
<1> QED BY <1>4, <1>6 DEF ChatInv

\* It says what the summary covers.
LEMMA ChatCovers ==
  ASSUME ChatInv
  PROVE  SummaryCovers
<1>0. Conversation /\ Carried
  BY DEF ChatInv
<1>1. History = told
  BY <1>0, HistoryNow DEF Carried
<1>2. ASSUME NEW m \in ToSet(log) PROVE IsShown(m) <=> Key(m) \in Visible(checkpoint)
  <2>1. m \in ChatType
    <3> HIDE DEF ChatType
    <3> QED BY <1>0 DEF Conversation, ToSet
  <2>2. IsShown(m) <=> VisibleIn(checkpoint, m)
    BY DEF IsShown, VisibleIn
  <2> QED BY <2>1, <2>2, VisibleIs
<1> QED BY <1>0, <1>1, <1>2 DEF Carried, SummaryCovers

(***************************************************************************)
(* However many compactions a session goes through: what buildModelHistory *)
(* shows is what was measured when the last summary was accepted, and what *)
(* came since; a message no longer shown was read by the summary in force, *)
(* itself or through the summaries before it; and nothing is hidden of a   *)
(* run that is live or blocked.                                            *)
(***************************************************************************)
THEOREM SummaryCoversCorrect == Spec => []SummaryCovers
<1>1. Init => ChatInv
  BY ChatBegins DEF Init
<1>2. ChatInv /\ [Next]_operationVars => ChatInv'
  BY ChatStepFits DEF Next, StepsModel, StepsShell, StepsFile, StepsChat, operationVars
<1>3. ChatInv => SummaryCovers
  BY ChatCovers
<1> QED BY <1>1, <1>2, <1>3, PTL DEF Spec
=================================================================================
