------------------------ MODULE CallbackQueueProofs ------------------------
(***************************************************************************)
(* The completion queue, for every set of completions and loops and every  *)
(* bound on failures, stops and restarts.  The sorted set keeps its shape  *)
(* however many loops overlap.  As long as none do, what is in the         *)
(* handler's hands is staged and the queue implements CompletionInbox.     *)
(*                                                                         *)
(* The second half is about the jobs whose completions these are, as       *)
(* JobSettling has them: how they end, and what their ends leave on the    *)
(* asset.  It is proved about as a module of its own, and no theorem       *)
(* relates the two.                                                        *)
(***************************************************************************)
EXTENDS CallbackQueue, FiniteSets, SequenceTheorems, FiniteSetTheorems, TLAPS

-----------------------------------------------------------------------------
(* Sequences. *)

\* Inserting keeps the order of the rest.
LEMMA InsertAtProperties ==
  ASSUME NEW S, NEW s \in Seq(S), NEW k \in 1 .. Len(s) + 1, NEW e \in S
  PROVE  /\ InsertAt(s, k, e) \in Seq(S)
         /\ Len(InsertAt(s, k, e)) = Len(s) + 1
         /\ \A i \in 1 .. Len(s) + 1 :
              InsertAt(s, k, e)[i] = IF i < k THEN s[i]
                                     ELSE IF i = k THEN e ELSE s[i - 1]
<1> DEFINE a == SubSeq(s, 1, k - 1)
           b == SubSeq(s, k, Len(s))
           ae == a \o <<e>>
<1>0. Len(s) \in Nat /\ k \in Nat /\ k >= 1 /\ k <= Len(s) + 1
  BY LenProperties
<1>1. /\ a \in Seq(S) /\ Len(a) = k - 1
      /\ \A i \in 1 .. k - 1 : a[i] = s[i]
  BY <1>0, SubSeqProperties
<1>2. /\ b \in Seq(S) /\ Len(b) = Len(s) - k + 1
      /\ \A i \in 1 .. Len(s) - k + 1 : b[i] = s[k + i - 1]
  BY <1>0, SubSeqProperties
<1>3. /\ ae \in Seq(S) /\ Len(ae) = k
      /\ \A i \in 1 .. k : ae[i] = IF i < k THEN s[i] ELSE e
  <2> HIDE DEF a
  <2> QED BY <1>0, <1>1
<1>4. /\ ae \o b \in Seq(S) /\ Len(ae \o b) = Len(s) + 1
      /\ \A i \in 1 .. Len(s) + 1 :
           (ae \o b)[i] = IF i < k THEN s[i] ELSE IF i = k THEN e ELSE s[i - 1]
  <2> HIDE DEF ae, b
  <2>1. /\ ae \o b \in Seq(S)
        /\ Len(ae \o b) = Len(ae) + Len(b)
        /\ \A i \in 1 .. Len(ae) + Len(b) :
             (ae \o b)[i] = IF i <= Len(ae) THEN ae[i] ELSE b[i - Len(ae)]
    BY <1>2, <1>3, ConcatProperties
  <2> QED BY <2>1, <1>0, <1>2, <1>3
<1> QED BY <1>4 DEF InsertAt

\* Removing keeps the order of the rest.
LEMMA RemoveAtProperties ==
  ASSUME NEW S, NEW s \in Seq(S), NEW k \in 1 .. Len(s)
  PROVE  /\ RemoveAt(s, k) \in Seq(S)
         /\ Len(RemoveAt(s, k)) = Len(s) - 1
         /\ \A i \in 1 .. Len(s) - 1 :
              RemoveAt(s, k)[i] = IF i < k THEN s[i] ELSE s[i + 1]
<1> DEFINE a == SubSeq(s, 1, k - 1)
           b == SubSeq(s, k + 1, Len(s))
<1>0. Len(s) \in Nat /\ k \in Nat /\ k >= 1 /\ k <= Len(s)
  BY LenProperties
<1>1. /\ a \in Seq(S) /\ Len(a) = k - 1
      /\ \A i \in 1 .. k - 1 : a[i] = s[i]
  BY <1>0, SubSeqProperties
<1>2. /\ b \in Seq(S) /\ Len(b) = Len(s) - k
      /\ \A i \in 1 .. Len(s) - k : b[i] = s[k + i]
  BY <1>0, SubSeqProperties
<1>3. /\ a \o b \in Seq(S) /\ Len(a \o b) = Len(s) - 1
      /\ \A i \in 1 .. Len(s) - 1 : (a \o b)[i] = IF i < k THEN s[i] ELSE s[i + 1]
  <2> HIDE DEF a, b
  <2>1. /\ a \o b \in Seq(S)
        /\ Len(a \o b) = Len(a) + Len(b)
        /\ \A i \in 1 .. Len(a) + Len(b) :
             (a \o b)[i] = IF i <= Len(a) THEN a[i] ELSE b[i - Len(a)]
    BY <1>1, <1>2, ConcatProperties
  <2> QED BY <2>1, <1>0, <1>1, <1>2
<1> QED BY <1>3 DEF RemoveAt

-----------------------------------------------------------------------------
(* The sorted set. *)

\* The messages of a sorted set.
MsgsIn(q) == {q[k].msg : k \in 1 .. Len(q)}

\* ZREM of a member takes out that one and leaves a sorted set.
LEMMA WithoutProperties ==
  ASSUME NEW m \in Msgs, SortedSet(queue)
  PROVE  /\ SortedSet(Without(m))
         /\ Len(Without(m)) <= Len(queue)
         /\ MsgsIn(Without(m)) = Queued \ {m}
<1>1. CASE m \notin Queued
  BY <1>1 DEF Without, MsgsIn, Queued, SortedSet
<1>2. CASE m \in Queued
  <2> DEFINE k == Place(m)
             r == RemoveAt(queue, k)
  <2>1. k \in 1 .. Len(queue) /\ queue[k].msg = m
    BY <1>2 DEF Place, Queued
  <2>2. queue \in Seq(Member) /\ Len(queue) \in Nat
    BY DEF SortedSet
  <2> HIDE DEF k
  <2>3. /\ r \in Seq(Member)
        /\ Len(r) = Len(queue) - 1
        /\ \A i \in 1 .. Len(queue) - 1 :
             r[i] = IF i < k THEN queue[i] ELSE queue[i + 1]
    BY <2>1, <2>2, RemoveAtProperties
  <2> HIDE DEF r
  <2>4. SortedSet(r)
    <3> DEFINE f(i) == IF i < k THEN i ELSE i + 1
    <3>1. \A i \in 1 .. Len(r) : f(i) \in 1 .. Len(queue) /\ r[i] = queue[f(i)]
      BY <2>1, <2>2, <2>3
    <3>2. \A i, l \in 1 .. Len(r) : f(i) = f(l) => i = l
      BY <2>1, <2>2, <2>3
    <3>5. \A i, l \in 1 .. Len(r) : i < l => f(i) < f(l)
      BY <2>1, <2>2, <2>3
    <3> HIDE DEF f
    <3>3. ASSUME NEW i \in 1 .. Len(r), NEW l \in 1 .. Len(r), r[i].msg = r[l].msg
          PROVE  i = l
      <4>1. queue[f(i)].msg = queue[f(l)].msg
        BY <3>1, <3>3
      <4>2. f(i) = f(l)
        BY <4>1, <3>1 DEF SortedSet
      <4> QED BY <4>2, <3>2
    <3>4. \A i, l \in 1 .. Len(r) : i < l /\ r[i].late => r[l].late
      BY <3>1, <3>5 DEF SortedSet
    <3> QED BY <3>3, <3>4, <2>3 DEF SortedSet
  <2>5. ASSUME NEW x \in MsgsIn(r) PROVE x \in Queued \ {m}
    <3>1. PICK i \in 1 .. Len(r) : x = r[i].msg
      BY DEF MsgsIn
    <3>2. PICK l \in 1 .. Len(queue) : l # k /\ x = queue[l].msg
      BY <3>1, <2>1, <2>2, <2>3
    <3> QED BY <3>2, <2>1 DEF Queued, SortedSet
  <2>6. ASSUME NEW x \in Queued \ {m} PROVE x \in MsgsIn(r)
    <3>1. PICK l \in 1 .. Len(queue) : x = queue[l].msg /\ l # k
      BY <2>1 DEF Queued
    <3>2. \E i \in 1 .. Len(r) : x = r[i].msg
      <4>1. CASE l < k
        BY <4>1, <3>1, <2>1, <2>2, <2>3
      <4>2. CASE l > k
        <5>1. l - 1 \in 1 .. Len(r) /\ ~(l - 1 < k) /\ (l - 1) + 1 = l
          BY <4>2, <3>1, <2>1, <2>2, <2>3
        <5>2. r[l - 1] = queue[l]
          BY <5>1, <2>2, <2>3
        <5> QED BY <5>1, <5>2, <3>1
      <4> QED BY <4>1, <4>2, <3>1, <2>1, <2>2
    <3> QED BY <3>2 DEF MsgsIn
  <2>7. Without(m) = r
    BY <1>2 DEF Without, k, r
  <2> QED BY <2>2, <2>3, <2>4, <2>5, <2>6, <2>7
<1> QED BY <1>1, <1>2

\* ZADD leaves a sorted set with the message in it and the others kept.
LEMMA AddAtProperties ==
  ASSUME NEW m \in Msgs, NEW late \in BOOLEAN, NEW k,
         SortedSet(queue), AddAt(m, late, k)
  PROVE  SortedSet(queue)' /\ Queued' = Queued \cup {m}
<1> DEFINE w == Without(m)
           e == [msg |-> m, late |-> late]
<1>1. SortedSet(w) /\ MsgsIn(w) = Queued \ {m}
  BY WithoutProperties
<1>2. w \in Seq(Member) /\ Len(w) \in Nat /\ e \in Member
  BY <1>1 DEF SortedSet, Member
<1>3. /\ k \in 1 .. Len(w) + 1
      /\ IF late THEN \A l \in k .. Len(w) : w[l].late
                 ELSE \A l \in 1 .. k - 1 : ~w[l].late
      /\ queue' = InsertAt(w, k, e)
  BY DEF AddAt
<1>4. \A l \in 1 .. Len(w) : w[l].msg # m
  BY <1>1 DEF MsgsIn
<1> HIDE DEF w
<1>5. /\ queue' \in Seq(Member)
      /\ Len(queue') = Len(w) + 1
      /\ \A i \in 1 .. Len(w) + 1 :
           queue'[i] = IF i < k THEN w[i] ELSE IF i = k THEN e ELSE w[i - 1]
  BY <1>2, <1>3, InsertAtProperties
<1> DEFINE g(i) == IF i < k THEN i ELSE i - 1
<1>g. \A i \in 1 .. Len(queue') :
        i # k => g(i) \in 1 .. Len(w) /\ queue'[i] = w[g(i)]
  BY <1>2, <1>3, <1>5
<1>h. \A i, l \in 1 .. Len(queue') :
        i # k /\ l # k => (g(i) = g(l) => i = l) /\ (i < l => g(i) < g(l))
  BY <1>2, <1>3, <1>5
<1>e. k \in 1 .. Len(queue') /\ queue'[k] = e
  BY <1>2, <1>3, <1>5
<1> HIDE DEF g
<1>6. ASSUME NEW i \in 1 .. Len(queue'), NEW l \in 1 .. Len(queue'),
             queue'[i].msg = queue'[l].msg
      PROVE  i = l
  BY <1>g, <1>h, <1>e, <1>1, <1>4, <1>6 DEF SortedSet
<1>7. ASSUME NEW i \in 1 .. Len(queue'), NEW l \in 1 .. Len(queue'),
             i < l, queue'[i].late
      PROVE  queue'[l].late
  <2>1. CASE i = k
    BY <2>1, <1>7, <1>1, <1>2, <1>3, <1>5, SMTT(30) DEF SortedSet
  <2>2. CASE l = k
    BY <2>2, <1>7, <1>1, <1>2, <1>3, <1>5, SMTT(30) DEF SortedSet
  <2>3. CASE i # k /\ l # k
    BY <2>3, <1>7, <1>1, <1>g, <1>h DEF SortedSet
  <2> QED BY <2>1, <2>2, <2>3
<1>8. SortedSet(queue)'
  BY <1>5, <1>6, <1>7 DEF SortedSet
<1>9. ASSUME NEW x \in Queued' PROVE x \in Queued \cup {m}
  <2>1. PICK i \in 1 .. Len(queue') : x = queue'[i].msg
    BY DEF Queued
  <2>2. x = m \/ \E y \in 1 .. Len(w) : x = w[y].msg
    BY <2>1, <1>g, <1>e
  <2> QED BY <2>2, <1>1 DEF MsgsIn
<1>10. ASSUME NEW x \in Queued \cup {m} PROVE x \in Queued'
  <2>1. CASE x = m
    <3>1. k \in 1 .. Len(queue') /\ queue'[k].msg = m
      BY <1>2, <1>3, <1>5
    <3> QED BY <3>1, <2>1 DEF Queued
  <2>2. CASE x # m
    <3>1. PICK y \in 1 .. Len(w) : x = w[y].msg
      BY <2>2, <1>1 DEF MsgsIn
    <3>2. \E i \in 1 .. Len(queue') : queue'[i] = w[y]
      <4>1. CASE y < k
        BY <4>1, <1>2, <1>3, <1>5
      <4>2. CASE y >= k
        <5>1. y + 1 \in 1 .. Len(queue') /\ queue'[y + 1] = w[y]
          BY <4>2, <1>2, <1>3, <1>5
        <5> QED BY <5>1
      <4> QED BY <4>1, <4>2, <1>2, <1>3
    <3> QED BY <3>1, <3>2 DEF Queued
  <2> QED BY <2>1, <2>2
<1> QED BY <1>8, <1>9, <1>10

\* BZPOPMIN leaves a sorted set without the message it answers.
LEMMA PopProperties ==
  ASSUME SortedSet(queue), queue # <<>>, queue' = Tail(queue)
  PROVE  /\ Head(queue).msg \in Queued
         /\ SortedSet(queue)'
         /\ Queued' = Queued \ {Head(queue).msg}
<1>1. queue \in Seq(Member) /\ Len(queue) \in Nat \ {0} /\ Head(queue) = queue[1]
  BY DEF SortedSet
<1>2. /\ queue' \in Seq(Member)
      /\ Len(queue') = Len(queue) - 1
      /\ \A i \in 1 .. Len(queue') : queue'[i] = queue[i + 1]
  BY <1>1, HeadTailProperties
<1>3. \A i \in 1 .. Len(queue') : i + 1 \in 1 .. Len(queue)
  BY <1>1, <1>2
<1>4. SortedSet(queue)'
  <2>1. \A k, l \in 1 .. Len(queue') : queue'[k].msg = queue'[l].msg => k = l
    <3> SUFFICES ASSUME NEW k \in 1 .. Len(queue'), NEW l \in 1 .. Len(queue'),
                        queue'[k].msg = queue'[l].msg
                 PROVE  k = l
      OBVIOUS
    <3>1. k + 1 = l + 1
      BY <1>2, <1>3 DEF SortedSet
    <3> QED BY <3>1, <1>1, <1>2
  <2>2. \A k, l \in 1 .. Len(queue') : k < l /\ queue'[k].late => queue'[l].late
    <3> SUFFICES ASSUME NEW k \in 1 .. Len(queue'), NEW l \in 1 .. Len(queue'),
                        k < l, queue'[k].late
                 PROVE  queue'[l].late
      OBVIOUS
    <3>1. k + 1 < l + 1
      BY <1>1, <1>2
    <3> QED BY <3>1, <1>2, <1>3 DEF SortedSet
  <2> QED BY <1>2, <2>1, <2>2 DEF SortedSet
<1>5. ASSUME NEW x \in Queued' PROVE x \in Queued \ {queue[1].msg}
  <2>1. PICK i \in 1 .. Len(queue') : x = queue'[i].msg
    BY DEF Queued
  <2>2. x = queue[i + 1].msg /\ i + 1 # 1
    BY <2>1, <1>1, <1>2
  <2> QED BY <2>2, <1>1, <1>3 DEF Queued, SortedSet
<1>6. ASSUME NEW x \in Queued \ {queue[1].msg} PROVE x \in Queued'
  <2>1. PICK i \in 1 .. Len(queue) : x = queue[i].msg /\ i # 1
    BY DEF Queued
  <2>2. i - 1 \in 1 .. Len(queue') /\ (i - 1) + 1 = i
    BY <2>1, <1>1, <1>2
  <2>3. queue'[i - 1].msg = x
    BY <2>1, <2>2, <1>2
  <2> QED BY <2>2, <2>3 DEF Queued
<1>7. queue[1].msg \in Queued
  BY <1>1 DEF Queued
<1> QED BY <1>1, <1>4, <1>5, <1>6, <1>7

\* The passing of time moves no member.
LEMMA BackoffProperties ==
  ASSUME SortedSet(queue), BackoffPasses
  PROVE  SortedSet(queue)' /\ Queued' = Queued
<1>1. queue \in Seq(Member) /\ Len(queue) \in Nat
  BY DEF SortedSet
<1>2. /\ queue' \in Seq(Member) /\ Len(queue') = Len(queue)
      /\ \A k \in 1 .. Len(queue) :
           queue'[k].msg = queue[k].msg /\ queue'[k].late = FALSE
  <2>1. \A k \in 1 .. Len(queue) : queue[k] \in Member
    BY <1>1
  <2>2. /\ queue' \in [1 .. Len(queue) -> Member]
        /\ \A k \in 1 .. Len(queue) :
             queue'[k].msg = queue[k].msg /\ queue'[k].late = FALSE
    BY <2>1 DEF BackoffPasses, Member
  <2>3. queue' \in Seq(Member) /\ Len(queue') = Len(queue)
    BY <2>2, <1>1
  <2> QED BY <2>2, <2>3
<1> QED BY <1>1, <1>2 DEF SortedSet, Queued

\* Nothing happens to the set.
LEMMA SetKept ==
  ASSUME queue' = queue, SortedSet(queue)
  PROVE  SortedSet(queue)' /\ Queued' = Queued
BY DEF SortedSet, Queued

-----------------------------------------------------------------------------
(* Type correctness, for any number of loops. *)

\* Where a loop has a message in hand.
Holding == {"popped", "handle", "ack", "failed", "requeue", "bury", "unstage"}

\* A loop has a message in hand from its pop to the end of the iteration; the
\* handler sees only messages that were staged.
LoopShape(l) ==
  /\ l.pc \in Holding => l.msg \in Msgs
  /\ l.pc \notin Holding => l.msg = None /\ ~l.staged
  /\ l.pc = "popped" => ~l.staged
  /\ l.pc \in {"handle", "ack"} => l.staged

LoopsShaped == \A p \in Pollers : LoopShape(pollers[p])

\* The inductive invariant of the types.
TypeInv == TypeOK /\ LoopsShaped

\* A loop that is off has the shape of one.
LEMMA OffLoopType == OffLoop \in Loop /\ LoopShape(OffLoop)
BY DEF OffLoop, Loop, LoopShape, Holding

\* One loop takes a step.
LEMMA LoopUpdate ==
  ASSUME TypeInv, NEW p \in Pollers, NEW l \in Loop, LoopShape(l),
         pollers' = [pollers EXCEPT ![p] = l]
  PROVE  pollers' \in [Pollers -> Loop] /\ LoopsShaped'
<1>1. pollers' \in [Pollers -> Loop]
  BY DEF TypeInv, TypeOK
<1>2. \A q \in Pollers : LoopShape(pollers'[q])
  BY DEF TypeInv, TypeOK, LoopsShaped
<1> QED BY <1>1, <1>2 DEF LoopsShaped

\* The end of an iteration leaves the loop at its next pop, or off.
LEMMA EndIterationType ==
  ASSUME TypeInv, NEW p \in Pollers, EndIteration(p)
  PROVE  pollers' \in [Pollers -> Loop] /\ LoopsShaped'
<1> DEFINE l == IF pollers[p].aborted THEN OffLoop
                ELSE [OffLoop EXCEPT !.pc = "pop"]
<1>1. l \in Loop /\ LoopShape(l)
  BY DEF OffLoop, Loop, LoopShape, Holding
<1>2. pollers' = [pollers EXCEPT ![p] = l]
  BY DEF EndIteration
<1> HIDE DEF l
<1> QED BY <1>1, <1>2, LoopUpdate

\* A step to another place of the loop, with the message still in hand.
LEMMA GotoType ==
  ASSUME TypeInv, NEW p \in Pollers, pollers[p].pc \in Holding \ {"popped"},
         NEW pc \in {"failed", "requeue", "bury", "unstage"}, Goto(p, pc)
  PROVE  pollers' \in [Pollers -> Loop] /\ LoopsShaped'
<1> DEFINE l == [pollers[p] EXCEPT !.pc = pc]
<1>1. pollers[p] \in Loop /\ LoopShape(pollers[p])
  BY DEF TypeInv, TypeOK, LoopsShaped
<1>2. l \in Loop /\ LoopShape(l)
  BY <1>1 DEF Loop, LoopShape, Holding
<1>3. pollers' = [pollers EXCEPT ![p] = l]
  BY DEF Goto
<1> HIDE DEF l
<1> QED BY <1>2, <1>3, LoopUpdate

\* The steps of a loop keep the types.
LEMMA LoopStepType ==
  ASSUME TypeInv, NEW p \in Pollers, LoopStep(p)
  PROVE  TypeInv'
<1> USE DEF sets
<1>0. /\ SortedSet(queue) /\ pollers[p] \in Loop /\ LoopShape(pollers[p])
      /\ pollers \in [Pollers -> Loop]
  BY DEF TypeInv, TypeOK, LoopsShaped
<1>1. CASE RecoverFails(p)
  BY <1>1, <1>0, EndIterationType, SetKept DEF RecoverFails, TypeInv, TypeOK
<1>2. CASE Recovered(p)
  BY <1>2, <1>0, EndIterationType, SetKept DEF Recovered, TypeInv, TypeOK
<1>3. CASE Pop(p)
  <2> DEFINE l == [pollers[p] EXCEPT !.pc = "popped", !.msg = Head(queue).msg]
  <2>1. SortedSet(queue)' /\ Head(queue).msg \in Msgs
    <3>1. SortedSet(queue)' /\ Head(queue).msg \in Queued
      BY <1>0, <1>3, PopProperties DEF Pop
    <3>2. \A k \in 1 .. Len(queue) : queue[k] \in Member
      BY <1>0 DEF SortedSet
    <3> QED BY <3>1, <3>2 DEF Queued, Member
  <2>2. l \in Loop /\ LoopShape(l)
    BY <1>0, <1>3, <2>1 DEF Loop, LoopShape, Holding, Pop
  <2>3. pollers' = [pollers EXCEPT ![p] = l]
    BY <1>0, <1>3 DEF Pop
  <2> HIDE DEF l
  <2>4. pollers' \in [Pollers -> Loop] /\ LoopsShaped'
    BY <2>2, <2>3, LoopUpdate
  <2> QED BY <2>1, <2>4, <1>3 DEF Pop, TypeInv, TypeOK
<1>4. CASE PopAborted(p)
  <2>1. pollers' \in [Pollers -> Loop] /\ LoopsShaped'
    BY <1>4, OffLoopType, LoopUpdate DEF PopAborted
  <2> QED BY <2>1, <1>4, <1>0, SetKept DEF PopAborted, TypeInv, TypeOK
<1>5. CASE Stage(p)
  <2> DEFINE l == [pollers[p] EXCEPT !.pc = "handle", !.staged = TRUE]
  <2>1. l \in Loop /\ LoopShape(l)
    BY <1>0, <1>5 DEF Loop, LoopShape, Holding, Stage
  <2>2. pollers' = [pollers EXCEPT ![p] = l] /\ pollers[p].msg \in Msgs
    BY <1>0, <1>5 DEF Stage, LoopShape, Holding
  <2> HIDE DEF l
  <2>3. pollers' \in [Pollers -> Loop] /\ LoopsShaped'
    BY <2>1, <2>2, LoopUpdate
  <2> QED BY <2>2, <2>3, <1>0, <1>5, SetKept DEF Stage, TypeInv, TypeOK
<1>6. CASE StageFails(p)
  <2> DEFINE l == [pollers[p] EXCEPT !.pc = "failed"]
  <2>1. l \in Loop /\ LoopShape(l)
    BY <1>0, <1>6 DEF Loop, LoopShape, Holding, StageFails
  <2>2. pollers' = [pollers EXCEPT ![p] = l]
    BY <1>0, <1>6 DEF StageFails, Goto
  <2> HIDE DEF l
  <2>3. pollers' \in [Pollers -> Loop] /\ LoopsShaped'
    BY <2>1, <2>2, LoopUpdate
  <2> QED BY <2>3, <1>0, <1>6, SetKept DEF StageFails, TypeInv, TypeOK
<1>7. CASE Handle(p)
  <2> DEFINE l == [pollers[p] EXCEPT !.pc = "ack"]
  <2>1. l \in Loop /\ LoopShape(l) /\ pollers[p].msg \in Msgs
    BY <1>0, <1>7 DEF Loop, LoopShape, Holding, Handle
  <2>2. pollers' = [pollers EXCEPT ![p] = l]
    BY <1>0, <1>7 DEF Handle, Goto
  <2> HIDE DEF l
  <2>3. pollers' \in [Pollers -> Loop] /\ LoopsShaped'
    BY <2>1, <2>2, LoopUpdate
  <2> QED BY <2>1, <2>3, <1>0, <1>7, SetKept DEF Handle, TypeInv, TypeOK
<1>8. CASE HandleThrows(p)
  <2>1. pollers' \in [Pollers -> Loop] /\ LoopsShaped'
    BY <1>8, GotoType DEF HandleThrows, Holding
  <2> QED BY <2>1, <1>0, <1>8, SetKept DEF HandleThrows, TypeInv, TypeOK
<1>9. CASE Ack(p)
  BY <1>9, <1>0, EndIterationType, SetKept
  DEF Ack, TypeInv, TypeOK, LoopShape, Holding
<1>10. CASE AckFails(p)
  <2>1. pollers' \in [Pollers -> Loop] /\ LoopsShaped'
    BY <1>10, GotoType DEF AckFails, Holding
  <2> QED BY <2>1, <1>0, <1>10, SetKept DEF AckFails, TypeInv, TypeOK
<1>11. CASE Count(p)
  <2>1. pollers' \in [Pollers -> Loop] /\ LoopsShaped'
    BY <1>11, GotoType DEF Count, Holding
  <2>2. attempts' \in [Msgs -> Nat]
    BY <1>0, <1>11 DEF Count, TypeInv, TypeOK, LoopShape, Holding
  <2> QED BY <2>1, <2>2, <1>0, <1>11, SetKept DEF Count, TypeInv, TypeOK
<1>12. CASE Requeue(p)
  <2>1. pollers' \in [Pollers -> Loop] /\ LoopsShaped'
    BY <1>12, GotoType DEF Requeue, Holding
  <2>2. SortedSet(queue)'
    BY <1>0, <1>12, AddAtProperties DEF Requeue, AddLate, LoopShape, Holding
  <2> QED BY <2>1, <2>2, <1>12 DEF Requeue, TypeInv, TypeOK
<1>13. CASE Bury(p)
  <2>1. pollers' \in [Pollers -> Loop] /\ LoopsShaped'
    BY <1>13, GotoType DEF Bury, Holding
  <2>2. pollers[p].msg \in Msgs
    BY <1>0, <1>13 DEF Bury, LoopShape, Holding
  <2> QED BY <2>1, <2>2, <1>0, <1>13, SetKept DEF Bury, TypeInv, TypeOK
<1>14. CASE Unstage(p)
  <2>1. pollers' \in [Pollers -> Loop] /\ LoopsShaped'
    BY <1>14, EndIterationType DEF Unstage
  <2>2. attempts' \in [Msgs -> Nat]
    BY <1>0, <1>14 DEF Unstage, TypeInv, TypeOK, LoopShape, Holding
  <2> QED BY <2>1, <2>2, <1>0, <1>14, SetKept DEF Unstage, TypeInv, TypeOK
<1>15. CASE RequeueFails(p)
  BY <1>15, <1>0, EndIterationType, SetKept DEF RequeueFails, TypeInv, TypeOK
<1>16. CASE \E m \in Msgs : Recover(p, m)
  <2>1. PICK m \in Msgs : Recover(p, m)
    BY <1>16
  <2> DEFINE l == [pollers[p] EXCEPT !.todo = @ \ {m}]
  <2>2. l \in Loop /\ LoopShape(l)
    BY <1>0, <2>1 DEF Loop, LoopShape, Holding, Recover
  <2>3. pollers' = [pollers EXCEPT ![p] = l]
    BY <1>0, <2>1 DEF Recover
  <2> HIDE DEF l
  <2>4. pollers' \in [Pollers -> Loop] /\ LoopsShaped'
    BY <2>2, <2>3, LoopUpdate
  <2>5. SortedSet(queue)'
    BY <1>0, <2>1, AddAtProperties DEF Recover, AddBack
  <2> QED BY <2>1, <2>4, <2>5 DEF Recover, TypeInv, TypeOK
<1> QED BY <1>1, <1>2, <1>3, <1>4, <1>5, <1>6, <1>7, <1>8, <1>9, <1>10, <1>11,
           <1>12, <1>13, <1>14, <1>15, <1>16 DEF LoopStep

\* The initial state has the types.
LEMMA InitType == Init => TypeInv
<1> SUFFICES ASSUME Init PROVE TypeInv
  OBVIOUS
<1>1. SortedSet(queue)
  BY DEF Init, SortedSet
<1>2. pollers \in [Pollers -> Loop] /\ LoopsShaped
  BY OffLoopType DEF Init, LoopsShaped
<1> QED BY <1>1, <1>2, QueueAssumption DEF Init, TypeInv, TypeOK

\* Every step keeps the types.
LEMMA NextType == TypeInv /\ [Next]_vars => TypeInv'
<1> SUFFICES ASSUME TypeInv, [Next]_vars PROVE TypeInv'
  OBVIOUS
<1> USE DEF sets
<1>0. SortedSet(queue) /\ pollers \in [Pollers -> Loop]
  BY DEF TypeInv, TypeOK
<1>1. ASSUME NEW p \in Pollers, Start(p) PROVE TypeInv'
  <2> DEFINE l == [OffLoop EXCEPT !.pc = "recover", !.todo = processing]
  <2>1. l \in Loop /\ LoopShape(l)
    BY DEF OffLoop, Loop, LoopShape, Holding, TypeInv, TypeOK
  <2>2. pollers' = [pollers EXCEPT ![p] = l]
    BY <1>1 DEF Start
  <2> HIDE DEF l
  <2>3. pollers' \in [Pollers -> Loop] /\ LoopsShaped'
    BY <2>1, <2>2, LoopUpdate
  <2> QED BY <2>3, <1>0, <1>1, SetKept DEF Start, TypeInv, TypeOK
<1>2. ASSUME NEW p \in Pollers, LoopStep(p) PROVE TypeInv'
  BY <1>2, LoopStepType
<1>3. ASSUME NEW p \in Pollers, Stop(p) PROVE TypeInv'
  <2> DEFINE l == IF pollers[p].pc = "pop" THEN OffLoop
                  ELSE [pollers[p] EXCEPT !.aborted = TRUE]
  <2>1. l \in Loop /\ LoopShape(l)
    BY <1>0, OffLoopType DEF Loop, LoopShape, Holding, TypeInv, LoopsShaped
  <2>2. pollers' = [pollers EXCEPT ![p] = l]
    BY <1>3 DEF Stop
  <2> HIDE DEF l
  <2>3. pollers' \in [Pollers -> Loop] /\ LoopsShaped'
    BY <2>1, <2>2, LoopUpdate
  <2> QED BY <2>3, <1>0, <1>3, SetKept DEF Stop, TypeInv, TypeOK
<1>4. ASSUME NEW m \in Msgs, SweepCheck(m) PROVE TypeInv'
  BY <1>0, <1>4, SetKept DEF SweepCheck, TypeInv, TypeOK, LoopsShaped
<1>5. ASSUME NEW m \in Msgs, SweepAdd(m) PROVE TypeInv'
  <2>1. SortedSet(queue)'
    BY <1>0, <1>5, AddAtProperties DEF SweepAdd, AddNow
  <2> QED BY <2>1, <1>5 DEF SweepAdd, TypeInv, TypeOK, LoopsShaped
<1>6. ASSUME NEW m \in Msgs, Callback(m) PROVE TypeInv'
  <2>1. SortedSet(queue)'
    BY <1>0, <1>6, AddAtProperties DEF Callback, AddNow
  <2> QED BY <2>1, <1>6 DEF Callback, TypeInv, TypeOK, LoopsShaped
<1>7. ASSUME NEW m \in Msgs, Vanish(m) PROVE TypeInv'
  BY <1>0, <1>7, SetKept DEF Vanish, TypeInv, TypeOK, LoopsShaped
<1>8. CASE Restart
  <2>1. pollers' \in [Pollers -> Loop] /\ LoopsShaped'
    BY <1>8, OffLoopType DEF Restart, LoopsShaped
  <2> QED BY <2>1, <1>0, <1>8, SetKept DEF Restart, TypeInv, TypeOK
<1>9. CASE BackoffPasses
  <2>1. SortedSet(queue)'
    BY <1>0, <1>9, BackoffProperties
  <2> QED BY <2>1, <1>9 DEF BackoffPasses, TypeInv, TypeOK, LoopsShaped
<1>10. CASE UNCHANGED vars
  BY <1>0, <1>10, SetKept DEF vars, TypeInv, TypeOK, LoopsShaped
<1> QED BY <1>1, <1>2, <1>3, <1>4, <1>5, <1>6, <1>7, <1>8, <1>9, <1>10 DEF Next

\* The sets of a stack's Valkey keep their shape, however many loops overlap:
\* a completion is queued once, however often the listener, the sweep, the
\* retry and the recovery add it.
THEOREM QueueTypeCorrect == Spec => []TypeInv
BY InitType, NextType, PTL DEF Spec

-----------------------------------------------------------------------------
(* Two-phase processing, as long as a loop that was stopped has left before *)
(* the next one starts.                                                     *)

\* No two loops are at work at once.  Start alone does not see to that: a
\* loop that was stopped in its handler runs on beside its successor, whose
\* recovery takes the message out of the processing set.
NoOverlap == \A p, q \in Pollers :
               pollers[p].pc # "off" /\ pollers[q].pc # "off" => p = q

\* A message about to be acknowledged has been applied.
AckedIsApplied == \A p \in Pollers :
                    pollers[p].pc = "ack" => pollers[p].msg \in settled

\* A message about to leave the processing set is somewhere else.
UnstagedIsKept == \A p \in Pollers :
                    pollers[p].pc = "unstage" => pollers[p].msg \in Queued \cup dead

\* The inductive invariant of the two phases.
StagingInv == HandledIsStaged /\ AckedIsApplied /\ UnstagedIsKept

\* The other loops are off, so that the step of one loop is judged by that
\* loop alone.
LEMMA OthersOff ==
  ASSUME TypeInv, NoOverlap, NEW p \in Pollers, pollers[p].pc # "off",
         NEW l, pollers' = [pollers EXCEPT ![p] = l],
         l.pc \in Holding \ {"popped"} /\ l.staged => l.msg \in processing',
         l.pc = "ack" => l.msg \in settled',
         l.pc = "unstage" => l.msg \in Queued' \cup dead'
  PROVE  StagingInv'
<1>1. \A q \in Pollers : q # p => pollers'[q].pc = "off"
  BY DEF NoOverlap, TypeInv, TypeOK
<1>2. pollers'[p] = l
  BY DEF TypeInv, TypeOK
<1> QED BY <1>1, <1>2
        DEF StagingInv, HandledIsStaged, AckedIsApplied, UnstagedIsKept, Holding

\* An iteration that ends leaves nothing in hand.
LEMMA EndIterationStaging ==
  ASSUME TypeInv, NoOverlap, NEW p \in Pollers, pollers[p].pc # "off",
         EndIteration(p)
  PROVE  StagingInv'
<1> DEFINE l == IF pollers[p].aborted THEN OffLoop
                ELSE [OffLoop EXCEPT !.pc = "pop"]
<1>1. l.pc \in {"off", "pop"}
  BY DEF OffLoop
<1>2. pollers' = [pollers EXCEPT ![p] = l]
  BY DEF EndIteration
<1> HIDE DEF l
<1> QED BY <1>1, <1>2, OthersOff DEF Holding

\* A step to a place of the failure path.
LEMMA GotoStaging ==
  ASSUME TypeInv, NoOverlap, NEW p \in Pollers, pollers[p].pc # "off",
         NEW pc, Goto(p, pc),
         pc \in Holding \ {"popped"} /\ pollers[p].staged
           => pollers[p].msg \in processing',
         pc = "ack" => pollers[p].msg \in settled',
         pc = "unstage" => pollers[p].msg \in Queued' \cup dead'
  PROVE  StagingInv'
<1> DEFINE l == [pollers[p] EXCEPT !.pc = pc]
<1>1. pollers' = [pollers EXCEPT ![p] = l]
  BY DEF Goto
<1>2. l.pc = pc /\ l.msg = pollers[p].msg /\ l.staged = pollers[p].staged
  BY DEF TypeInv, TypeOK, Loop
<1> HIDE DEF l
<1> QED BY <1>1, <1>2, OthersOff

\* The steps of a loop keep the two phases.
LEMMA LoopStepStaging ==
  ASSUME TypeInv, NoOverlap, StagingInv, NEW p \in Pollers, LoopStep(p)
  PROVE  StagingInv'
<1> USE DEF sets
<1>0. /\ SortedSet(queue) /\ pollers[p] \in Loop /\ LoopShape(pollers[p])
      /\ pollers \in [Pollers -> Loop]
      /\ pollers[p].pc \in Holding \ {"popped"} /\ pollers[p].staged
           => pollers[p].msg \in processing
      /\ pollers[p].pc = "unstage" => pollers[p].msg \in Queued \cup dead
  BY DEF TypeInv, TypeOK, LoopsShaped, StagingInv, HandledIsStaged, Holding,
         UnstagedIsKept
<1>1. CASE RecoverFails(p)
  BY <1>1, EndIterationStaging DEF RecoverFails
<1>2. CASE Recovered(p)
  BY <1>2, EndIterationStaging DEF Recovered
<1>3. CASE Pop(p)
  <2> DEFINE l == [pollers[p] EXCEPT !.pc = "popped", !.msg = Head(queue).msg]
  <2>1. pollers' = [pollers EXCEPT ![p] = l] /\ l.pc = "popped"
    BY <1>0, <1>3 DEF Pop, Loop
  <2> HIDE DEF l
  <2> QED BY <2>1, <1>3, OthersOff DEF Pop
<1>4. CASE PopAborted(p)
  BY <1>4, OthersOff DEF PopAborted, OffLoop, Holding
<1>5. CASE Stage(p)
  <2> DEFINE l == [pollers[p] EXCEPT !.pc = "handle", !.staged = TRUE]
  <2>1. /\ pollers' = [pollers EXCEPT ![p] = l]
        /\ l.pc = "handle" /\ l.msg = pollers[p].msg
    BY <1>0, <1>5 DEF Stage, Loop
  <2> HIDE DEF l
  <2> QED BY <2>1, <1>5, OthersOff DEF Stage
<1>6. CASE StageFails(p)
  BY <1>0, <1>6, GotoStaging DEF StageFails, LoopShape
<1>7. CASE Handle(p)
  BY <1>0, <1>7, GotoStaging DEF Handle, Holding
<1>8. CASE HandleThrows(p)
  BY <1>0, <1>8, GotoStaging DEF HandleThrows, Holding
<1>9. CASE Ack(p)
  BY <1>9, EndIterationStaging DEF Ack
<1>10. CASE AckFails(p)
  BY <1>0, <1>10, GotoStaging DEF AckFails, Holding
<1>11. CASE Count(p)
  BY <1>0, <1>11, GotoStaging DEF Count, Holding
<1>12. CASE Requeue(p)
  <2>1. pollers[p].msg \in Queued'
    BY <1>0, <1>12, AddAtProperties DEF Requeue, AddLate, LoopShape, Holding
  <2> QED BY <2>1, <1>0, <1>12, GotoStaging DEF Requeue, Holding
<1>13. CASE Bury(p)
  BY <1>0, <1>13, GotoStaging DEF Bury, Holding
<1>14. CASE Unstage(p)
  BY <1>14, EndIterationStaging DEF Unstage
<1>15. CASE RequeueFails(p)
  BY <1>15, EndIterationStaging DEF RequeueFails
<1>16. CASE \E m \in Msgs : Recover(p, m)
  <2>1. PICK m \in Msgs : Recover(p, m)
    BY <1>16
  <2> DEFINE l == [pollers[p] EXCEPT !.todo = @ \ {m}]
  <2>2. pollers' = [pollers EXCEPT ![p] = l] /\ l.pc = "recover"
    BY <1>0, <2>1 DEF Recover, Loop
  <2> HIDE DEF l
  <2> QED BY <2>1, <2>2, OthersOff DEF Recover, Holding
<1> QED BY <1>1, <1>2, <1>3, <1>4, <1>5, <1>6, <1>7, <1>8, <1>9, <1>10, <1>11,
           <1>12, <1>13, <1>14, <1>15, <1>16 DEF LoopStep

\* A step outside the loops takes nothing from under them.
LEMMA QuietStaging ==
  ASSUME StagingInv, pollers' = pollers, processing' = processing,
         settled' = settled, dead' = dead, Queued \subseteq Queued'
  PROVE  StagingInv'
BY DEF StagingInv, HandledIsStaged, AckedIsApplied, UnstagedIsKept

\* Every step keeps the two phases.
LEMMA NextStaging ==
  TypeInv /\ NoOverlap /\ StagingInv /\ [Next]_vars => StagingInv'
<1> SUFFICES ASSUME TypeInv, NoOverlap, StagingInv, [Next]_vars PROVE StagingInv'
  OBVIOUS
<1> USE DEF sets
<1>0. SortedSet(queue) /\ pollers \in [Pollers -> Loop]
  BY DEF TypeInv, TypeOK
<1>1. ASSUME NEW p \in Pollers, Start(p) PROVE StagingInv'
  <2>1. /\ pollers'[p].pc = "recover"
        /\ \A q \in Pollers : q # p => pollers'[q] = pollers[q]
    BY <1>0, <1>1 DEF Start, OffLoop
  <2>2. Queued' = Queued
    BY <1>0, <1>1, SetKept DEF Start
  <2> QED BY <2>1, <2>2, <1>1
          DEF Start, StagingInv, HandledIsStaged, AckedIsApplied, UnstagedIsKept
<1>2. ASSUME NEW p \in Pollers, LoopStep(p) PROVE StagingInv'
  BY <1>2, LoopStepStaging
<1>3. ASSUME NEW p \in Pollers, Stop(p) PROVE StagingInv'
  <2> DEFINE l == IF pollers[p].pc = "pop" THEN OffLoop
                  ELSE [pollers[p] EXCEPT !.aborted = TRUE]
  <2>1. /\ pollers' = [pollers EXCEPT ![p] = l] /\ pollers[p].pc # "off"
    BY <1>0, <1>3 DEF Stop, Running
  <2>3. \/ l.pc = "off"
        \/ /\ l.pc = pollers[p].pc /\ l.msg = pollers[p].msg
           /\ l.staged = pollers[p].staged
    <3>1. CASE pollers[p].pc = "pop"
      BY <3>1 DEF OffLoop
    <3>2. CASE pollers[p].pc # "pop"
      BY <3>2, <1>0 DEF Loop
    <3> QED BY <3>1, <3>2
  <2> HIDE DEF l
  <2>2. Queued' = Queued /\ processing' = processing /\ settled' = settled
        /\ dead' = dead
    BY <1>0, <1>3, SetKept DEF Stop
  <2> QED BY <2>1, <2>2, <2>3, OthersOff DEF StagingInv, HandledIsStaged,
             AckedIsApplied, UnstagedIsKept, Holding
<1>4. ASSUME NEW m \in Msgs, SweepCheck(m) PROVE StagingInv'
  BY <1>0, <1>4, SetKept, QuietStaging DEF SweepCheck
<1>5. ASSUME NEW m \in Msgs, SweepAdd(m) PROVE StagingInv'
  <2>1. Queued \subseteq Queued'
    BY <1>0, <1>5, AddAtProperties DEF SweepAdd, AddNow
  <2> QED BY <2>1, <1>5, QuietStaging DEF SweepAdd
<1>6. ASSUME NEW m \in Msgs, Callback(m) PROVE StagingInv'
  <2>1. Queued \subseteq Queued'
    BY <1>0, <1>6, AddAtProperties DEF Callback, AddNow
  <2> QED BY <2>1, <1>6, QuietStaging DEF Callback
<1>7. ASSUME NEW m \in Msgs, Vanish(m) PROVE StagingInv'
  BY <1>0, <1>7, SetKept, QuietStaging DEF Vanish
<1>8. CASE Restart
  <2>1. \A q \in Pollers : pollers'[q].pc = "off"
    BY <1>8 DEF Restart, OffLoop
  <2> QED BY <2>1 DEF StagingInv, HandledIsStaged, AckedIsApplied, UnstagedIsKept
<1>9. CASE BackoffPasses
  BY <1>0, <1>9, BackoffProperties, QuietStaging DEF BackoffPasses
<1>10. CASE UNCHANGED vars
  BY <1>0, <1>10, SetKept, QuietStaging DEF vars
<1> QED BY <1>1, <1>2, <1>3, <1>4, <1>5, <1>6, <1>7, <1>8, <1>9, <1>10 DEF Next

\* Nothing is in hand at the start.
LEMMA InitStaging == Init => StagingInv
BY DEF Init, OffLoop, StagingInv, HandledIsStaged, AckedIsApplied, UnstagedIsKept

\* A message in the handler's hands is staged, whatever handlers and Valkey
\* calls fail and whenever the process is restarted, as long as no two loops
\* of the stack overlap.
THEOREM HandledStaysStaged == Spec /\ []NoOverlap => []StagedUntilApplied
<1>1. TypeInv /\ StagingInv => StagedUntilApplied
  BY DEF TypeInv, StagingInv, StagedUntilApplied
<1> QED BY <1>1, QueueTypeCorrect, InitStaging, NextStaging, PTL DEF Spec

-----------------------------------------------------------------------------
(* The queue implements CompletionInbox. *)

\* The moves of one completion that CompletionInbox allows.
Moves(a, b) ==
  \/ a = b
  \/ a \in {"absent", "dead", "claimed"} /\ b = "pending"
  \/ a = "pending" /\ b \in {"claimed", "applied"}
  \/ a \in {"pending", "claimed"} /\ b = "dead"
  \/ a = "claimed" /\ b = "absent"

\* Nobody's standing changes.
LEMMA InboxStutters ==
  ASSUME \A n \in Msgs : Standing(n)' = Standing(n)
  PROVE  [Inbox!Next]_InboxState
<1>1. InboxState' = InboxState
  BY DEF InboxState
<1> QED BY <1>1

\* One completion moves.
LEMMA InboxStep ==
  ASSUME NEW m \in Msgs, \A n \in Msgs : n # m => Standing(n)' = Standing(n),
         Moves(Standing(m), Standing(m)')
  PROVE  [Inbox!Next]_InboxState
<1>1. InboxState' = [InboxState EXCEPT ![m] = Standing(m)']
  BY DEF InboxState
<1>2. InboxState[m] = Standing(m)
  BY DEF InboxState
<1>3. CASE Standing(m)' = Standing(m)
  BY <1>3, InboxStutters
<1>4. CASE Standing(m) \in {"absent", "dead", "claimed"} /\ Standing(m)' = "pending"
  BY <1>1, <1>2, <1>4 DEF Inbox!Next, Inbox!Accept
<1>5. CASE Standing(m) = "pending" /\ Standing(m)' = "claimed"
  BY <1>1, <1>2, <1>5 DEF Inbox!Next, Inbox!Claim
<1>6. CASE Standing(m) = "pending" /\ Standing(m)' = "applied"
  BY <1>1, <1>2, <1>6 DEF Inbox!Next, Inbox!Apply
<1>7. CASE Standing(m) \in {"pending", "claimed"} /\ Standing(m)' = "dead"
  BY <1>1, <1>2, <1>7 DEF Inbox!Next, Inbox!GiveUp
<1>8. CASE Standing(m) = "claimed" /\ Standing(m)' = "absent"
  BY <1>1, <1>2, <1>8 DEF Inbox!Next, Inbox!Lose
<1> QED BY <1>3, <1>4, <1>5, <1>6, <1>7, <1>8 DEF Moves

\* What a loop at work has in hand is all that is in hand.
LEMMA InHandOfOne ==
  ASSUME TypeInv, NoOverlap, NEW p \in Pollers, pollers[p].pc # "off",
         NEW l, pollers' = [pollers EXCEPT ![p] = l]
  PROVE  \A n \in Msgs :
           /\ InHand(n) <=> pollers[p].msg = n /\ ~pollers[p].staged
           /\ InHand(n)' <=> l.msg = n /\ ~l.staged
<1>1. \A q \in Pollers : q # p => pollers[q].msg = None /\ pollers'[q] = pollers[q]
  BY DEF NoOverlap, TypeInv, TypeOK, LoopsShaped, LoopShape, Holding
<1>2. pollers'[p] = l
  BY DEF TypeInv, TypeOK
<1> QED BY <1>1, <1>2, QueueAssumption DEF InHand

\* At the end of an iteration nothing is in hand.
LEMMA EndIterationHands ==
  ASSUME TypeInv, NoOverlap, NEW p \in Pollers, pollers[p].pc # "off",
         EndIteration(p)
  PROVE  \A n \in Msgs :
           /\ InHand(n) <=> pollers[p].msg = n /\ ~pollers[p].staged
           /\ ~InHand(n)'
<1> DEFINE l == IF pollers[p].aborted THEN OffLoop
                ELSE [OffLoop EXCEPT !.pc = "pop"]
<1>1. l.msg = None
  BY DEF OffLoop
<1>2. pollers' = [pollers EXCEPT ![p] = l]
  BY DEF EndIteration
<1> HIDE DEF l
<1> QED BY <1>1, <1>2, InHandOfOne, QueueAssumption

\* On its way through the failure path a loop keeps what it has in hand.
LEMMA GotoHands ==
  ASSUME TypeInv, NoOverlap, NEW p \in Pollers, pollers[p].pc # "off",
         NEW pc, Goto(p, pc)
  PROVE  \A n \in Msgs :
           /\ InHand(n) <=> pollers[p].msg = n /\ ~pollers[p].staged
           /\ InHand(n)' <=> InHand(n)
<1> DEFINE l == [pollers[p] EXCEPT !.pc = pc]
<1>1. pollers' = [pollers EXCEPT ![p] = l]
  BY DEF Goto
<1>2. l.msg = pollers[p].msg /\ l.staged = pollers[p].staged
  BY DEF TypeInv, TypeOK, Loop
<1> HIDE DEF l
<1> QED BY <1>1, <1>2, InHandOfOne

\* A completion whose memberships do not change keeps its standing.
LEMMA StandingKept ==
  ASSUME NEW n,
         n \in settled' <=> n \in settled,
         n \in Queued' \cup processing' <=> n \in Queued \cup processing,
         InHand(n)' <=> InHand(n),
         n \in dead' <=> n \in dead
  PROVE  Standing(n)' = Standing(n)
BY DEF Standing

\* The steps of a loop are steps of the inbox.
LEMMA LoopStepInbox ==
  ASSUME TypeInv, NoOverlap, StagingInv, NEW p \in Pollers, LoopStep(p)
  PROVE  [Inbox!Next]_InboxState
<1> USE DEF sets
<1>0. /\ SortedSet(queue) /\ pollers[p] \in Loop /\ LoopShape(pollers[p])
      /\ pollers \in [Pollers -> Loop]
      /\ pollers[p].pc \in Holding \ {"popped"} /\ pollers[p].staged
           => pollers[p].msg \in processing
      /\ pollers[p].pc = "ack" => pollers[p].msg \in settled
      /\ pollers[p].pc = "unstage" => pollers[p].msg \in Queued \cup dead
  BY DEF TypeInv, TypeOK, LoopsShaped, StagingInv, HandledIsStaged, Holding,
         AckedIsApplied, UnstagedIsKept
<1>m. PICK m : m = pollers[p].msg
  OBVIOUS
<1>1. CASE RecoverFails(p) \/ Recovered(p)
  <2>1. \A n \in Msgs : ~InHand(n) /\ ~InHand(n)'
    BY <1>0, <1>1, EndIterationHands, QueueAssumption
    DEF RecoverFails, Recovered, LoopShape, Holding
  <2>2. /\ Queued' = Queued /\ processing' = processing /\ settled' = settled
        /\ dead' = dead
    BY <1>0, <1>1, SetKept DEF RecoverFails, Recovered
  <2> QED BY <2>1, <2>2, StandingKept, InboxStutters
<1>3. CASE Pop(p)
  <2> DEFINE l == [pollers[p] EXCEPT !.pc = "popped", !.msg = Head(queue).msg]
  <2>0. PICK h : h = Head(queue).msg
    OBVIOUS
  <2>1. h \in Queued /\ Queued' = Queued \ {h}
    BY <1>0, <1>3, <2>0, PopProperties DEF Pop
  <2>2. h \in Msgs
    <3>1. \A k \in 1 .. Len(queue) : queue[k] \in Member
      BY <1>0 DEF SortedSet
    <3> QED BY <2>1, <3>1 DEF Queued, Member
  <2>3. pollers' = [pollers EXCEPT ![p] = l] /\ l.msg = h /\ ~l.staged
    BY <1>0, <1>3, <2>0 DEF Pop, Loop, LoopShape, Holding
  <2> HIDE DEF l
  <2>4. \A n \in Msgs : ~InHand(n) /\ (InHand(n)' <=> n = h)
    <3>1. pollers[p].pc # "off" /\ pollers[p].msg = None
      BY <1>0, <1>3 DEF Pop, LoopShape, Holding
    <3>2. \A n \in Msgs : /\ InHand(n) <=> pollers[p].msg = n /\ ~pollers[p].staged
                          /\ InHand(n)' <=> l.msg = n /\ ~l.staged
      BY <3>1, <2>3, InHandOfOne
    <3> QED BY <3>1, <3>2, <2>3, QueueAssumption
  <2>5. \A n \in Msgs : n # h => Standing(n)' = Standing(n)
    BY <2>1, <2>4, <1>3, StandingKept DEF Pop
  <2>6. Moves(Standing(h), Standing(h)')
    BY <2>1, <2>2, <2>4, <1>3 DEF Pop, Standing, Moves
  <2> QED BY <2>2, <2>5, <2>6, InboxStep
<1>4. CASE PopAborted(p)
  <2>1. m \in Msgs /\ ~pollers[p].staged
    BY <1>m, <1>0, <1>4 DEF PopAborted, LoopShape, Holding
  <2>2. \A n \in Msgs : (InHand(n) <=> n = m) /\ ~InHand(n)'
    <3>1. /\ pollers[p].pc # "off" /\ OffLoop.msg = None
          /\ pollers' = [pollers EXCEPT ![p] = OffLoop]
      BY <1>4 DEF PopAborted, OffLoop
    <3>2. \A n \in Msgs : /\ InHand(n) <=> pollers[p].msg = n /\ ~pollers[p].staged
                          /\ InHand(n)' <=> OffLoop.msg = n /\ ~OffLoop.staged
      BY <3>1, InHandOfOne
    <3> QED BY <1>m, <2>1, <3>1, <3>2, QueueAssumption
  <2>3. /\ Queued' = Queued /\ processing' = processing /\ settled' = settled
        /\ dead' = dead
    BY <1>0, <1>4, SetKept DEF PopAborted
  <2>4. \A n \in Msgs : n # m => Standing(n)' = Standing(n)
    BY <2>2, <2>3, StandingKept
  <2>5. Moves(Standing(m), Standing(m)')
    BY <2>1, <2>2, <2>3 DEF Standing, Moves
  <2> QED BY <2>1, <2>4, <2>5, InboxStep
<1>5. CASE Stage(p)
  <2> DEFINE l == [pollers[p] EXCEPT !.pc = "handle", !.staged = TRUE]
  <2>1. m \in Msgs /\ ~pollers[p].staged
    BY <1>m, <1>0, <1>5 DEF Stage, LoopShape, Holding
  <2>2. pollers' = [pollers EXCEPT ![p] = l] /\ l.staged
    BY <1>0, <1>5 DEF Stage, Loop
  <2> HIDE DEF l
  <2>3. \A n \in Msgs : (InHand(n) <=> n = m) /\ ~InHand(n)'
    BY <1>m, <2>1, <2>2, <1>5, InHandOfOne DEF Stage
  <2>4. /\ Queued' = Queued /\ processing' = processing \cup {m}
        /\ settled' = settled /\ dead' = dead
    BY <1>m, <1>0, <1>5, SetKept DEF Stage
  <2>5. \A n \in Msgs : n # m => Standing(n)' = Standing(n)
    BY <2>3, <2>4, StandingKept
  <2>6. Moves(Standing(m), Standing(m)')
    BY <2>1, <2>3, <2>4 DEF Standing, Moves
  <2> QED BY <2>1, <2>5, <2>6, InboxStep
<1>6. CASE StageFails(p) \/ HandleThrows(p) \/ AckFails(p) \/ Count(p)
  <2>1. \A n \in Msgs : InHand(n)' <=> InHand(n)
    BY <1>6, GotoHands DEF StageFails, HandleThrows, AckFails, Count
  <2>2. /\ Queued' = Queued /\ processing' = processing /\ settled' = settled
        /\ dead' = dead
    BY <1>0, <1>6, SetKept DEF StageFails, HandleThrows, AckFails, Count
  <2> QED BY <2>1, <2>2, StandingKept, InboxStutters
<1>7. CASE Handle(p)
  <2>1. m \in Msgs /\ m \in processing
    BY <1>m, <1>0, <1>7 DEF Handle, LoopShape, Holding
  <2>2. \A n \in Msgs : InHand(n)' <=> InHand(n)
    BY <1>7, GotoHands DEF Handle
  <2>3. /\ Queued' = Queued /\ processing' = processing
        /\ settled' = settled \cup {m} /\ dead' = dead
    BY <1>m, <1>0, <1>7, SetKept DEF Handle
  <2>4. \A n \in Msgs : n # m => Standing(n)' = Standing(n)
    BY <2>2, <2>3, StandingKept
  <2>5. Moves(Standing(m), Standing(m)')
    BY <2>1, <2>3 DEF Standing, Moves
  <2> QED BY <2>1, <2>4, <2>5, InboxStep
<1>8. CASE Ack(p)
  <2>1. m \in settled /\ pollers[p].staged
    BY <1>m, <1>0, <1>8 DEF Ack, LoopShape
  <2>2. \A n \in Msgs : ~InHand(n) /\ ~InHand(n)'
    BY <2>1, <1>8, EndIterationHands DEF Ack
  <2>3. /\ Queued' = Queued /\ processing' = processing \ {m}
        /\ settled' = settled /\ dead' = dead
    BY <1>m, <1>0, <1>8, SetKept DEF Ack
  <2>4. ASSUME NEW n \in Msgs PROVE Standing(n)' = Standing(n)
    <3>1. CASE n = m
      BY <3>1, <2>1, <2>3 DEF Standing
    <3>2. CASE n # m
      BY <3>2, <2>2, <2>3, StandingKept
    <3> QED BY <3>1, <3>2
  <2> QED BY <2>4, InboxStutters
<1>9. CASE Requeue(p)
  <2>1. m \in Msgs
    BY <1>m, <1>0, <1>9 DEF Requeue, LoopShape, Holding
  <2>2. \A n \in Msgs : InHand(n)' <=> InHand(n)
    BY <1>9, GotoHands DEF Requeue
  <2>3. /\ Queued' = Queued \cup {m} /\ processing' = processing
        /\ settled' = settled /\ dead' = dead
    BY <1>m, <1>0, <1>9, <2>1, AddAtProperties DEF Requeue, AddLate
  <2>4. \A n \in Msgs : n # m => Standing(n)' = Standing(n)
    BY <2>2, <2>3, StandingKept
  <2>5. Moves(Standing(m), Standing(m)')
    BY <2>1, <2>3 DEF Standing, Moves
  <2> QED BY <2>1, <2>4, <2>5, InboxStep
<1>10. CASE Bury(p)
  <2>1. m \in Msgs /\ (m \in processing \/ ~pollers[p].staged)
    BY <1>m, <1>0, <1>10 DEF Bury, LoopShape, Holding
  <2>2. \A n \in Msgs : /\ InHand(n) <=> n = m /\ ~pollers[p].staged
                        /\ InHand(n)' <=> InHand(n)
    BY <1>m, <1>10, GotoHands DEF Bury
  <2>3. /\ Queued' = Queued /\ processing' = processing
        /\ settled' = settled /\ dead' = dead \cup {m}
    BY <1>m, <1>0, <1>10, SetKept DEF Bury
  <2>4. ASSUME NEW n \in Msgs PROVE Standing(n)' = Standing(n)
    <3>1. CASE n = m
      BY <3>1, <2>1, <2>2, <2>3 DEF Standing
    <3>2. CASE n # m
      BY <3>2, <2>2, <2>3, StandingKept
    <3> QED BY <3>1, <3>2
  <2> QED BY <2>4, InboxStutters
<1>11. CASE Unstage(p)
  <2>1. /\ m \in Msgs /\ m \in Queued \cup dead
        /\ m \in processing \/ ~pollers[p].staged
    BY <1>m, <1>0, <1>11 DEF Unstage, LoopShape, Holding
  <2>2. \A n \in Msgs : /\ InHand(n) <=> n = m /\ ~pollers[p].staged
                        /\ ~InHand(n)'
    BY <1>m, <1>11, EndIterationHands DEF Unstage
  <2>3. /\ Queued' = Queued /\ processing' = processing \ {m}
        /\ settled' = settled /\ dead' = dead
    BY <1>m, <1>0, <1>11, SetKept DEF Unstage
  <2>4. \A n \in Msgs : n # m => Standing(n)' = Standing(n)
    BY <2>2, <2>3, StandingKept
  <2>5. Moves(Standing(m), Standing(m)')
    BY <2>1, <2>2, <2>3 DEF Standing, Moves
  <2> QED BY <2>1, <2>4, <2>5, InboxStep
<1>12. CASE RequeueFails(p)
  <2>1. m \in Msgs /\ (m \in processing \/ ~pollers[p].staged)
    BY <1>m, <1>0, <1>12 DEF RequeueFails, LoopShape, Holding
  <2>2. \A n \in Msgs : /\ InHand(n) <=> n = m /\ ~pollers[p].staged
                        /\ ~InHand(n)'
    BY <1>m, <1>12, EndIterationHands DEF RequeueFails
  <2>3. /\ Queued' = Queued /\ processing' = processing
        /\ settled' = settled /\ dead' = dead
    BY <1>0, <1>12, SetKept DEF RequeueFails
  <2>4. \A n \in Msgs : n # m => Standing(n)' = Standing(n)
    BY <2>2, <2>3, StandingKept
  <2>5. Moves(Standing(m), Standing(m)')
    BY <2>1, <2>2, <2>3 DEF Standing, Moves
  <2> QED BY <2>1, <2>4, <2>5, InboxStep
<1>13. CASE \E n \in Msgs : Recover(p, n)
  <2>1. PICK r \in Msgs : Recover(p, r)
    BY <1>13
  <2> DEFINE l == [pollers[p] EXCEPT !.todo = @ \ {r}]
  <2>2. pollers' = [pollers EXCEPT ![p] = l] /\ l.msg = None
    BY <1>0, <2>1 DEF Recover, Loop, LoopShape, Holding
  <2> HIDE DEF l
  <2>3. \A n \in Msgs : ~InHand(n) /\ ~InHand(n)'
    BY <1>0, <2>1, <2>2, InHandOfOne, QueueAssumption DEF Recover, LoopShape, Holding
  <2>4. /\ Queued' = Queued \cup {r} /\ processing' = processing \ {r}
        /\ settled' = settled /\ dead' = dead
    BY <1>0, <2>1, AddAtProperties DEF Recover, AddBack
  <2>5. \A n \in Msgs : n # r => Standing(n)' = Standing(n)
    BY <2>3, <2>4, StandingKept
  <2>6. Moves(Standing(r), Standing(r)')
    BY <2>3, <2>4 DEF Standing, Moves
  <2> QED BY <2>5, <2>6, InboxStep
<1> QED BY <1>1, <1>3, <1>4, <1>5, <1>6, <1>7, <1>8, <1>9, <1>10, <1>11, <1>12,
           <1>13 DEF LoopStep

\* Every step is a step of the inbox.
LEMMA NextInbox ==
  TypeInv /\ NoOverlap /\ StagingInv /\ [Next]_vars => [Inbox!Next]_InboxState
<1> SUFFICES ASSUME TypeInv, NoOverlap, StagingInv, [Next]_vars
             PROVE  [Inbox!Next]_InboxState
  OBVIOUS
<1> USE DEF sets
<1>0. SortedSet(queue) /\ pollers \in [Pollers -> Loop]
      /\ \A p \in Pollers : LoopShape(pollers[p])
  BY DEF TypeInv, TypeOK, LoopsShaped
<1>1. ASSUME NEW p \in Pollers, Start(p) PROVE [Inbox!Next]_InboxState
  <2>1. /\ pollers[p].msg = None /\ pollers'[p].msg = None
        /\ \A q \in Pollers : q # p => pollers'[q] = pollers[q]
    BY <1>0, <1>1 DEF Start, OffLoop, LoopShape, Holding
  <2>2. \A n \in Msgs : InHand(n)' <=> InHand(n)
    BY <2>1, QueueAssumption DEF InHand
  <2> QED BY <2>2, <1>0, <1>1, SetKept, StandingKept, InboxStutters DEF Start
<1>2. ASSUME NEW p \in Pollers, LoopStep(p) PROVE [Inbox!Next]_InboxState
  BY <1>2, LoopStepInbox
<1>3. ASSUME NEW p \in Pollers, Stop(p) PROVE [Inbox!Next]_InboxState
  <2>1. \A q \in Pollers : /\ pollers'[q].msg = pollers[q].msg
                           /\ pollers'[q].staged <=> pollers[q].staged
    <3>1. \A q \in Pollers : q # p => pollers'[q] = pollers[q]
      BY <1>0, <1>3 DEF Stop
    <3>2. CASE pollers[p].pc = "pop"
      BY <3>1, <3>2, <1>0, <1>3 DEF Stop, OffLoop, LoopShape, Holding
    <3>3. CASE pollers[p].pc # "pop"
      BY <3>1, <3>3, <1>0, <1>3 DEF Stop, Loop
    <3> QED BY <3>2, <3>3
  <2>2. \A n \in Msgs : InHand(n)' <=> InHand(n)
    BY <2>1 DEF InHand
  <2> QED BY <2>2, <1>0, <1>3, SetKept, StandingKept, InboxStutters DEF Stop
<1>4. CASE \/ \E m \in Msgs : SweepCheck(m) \/ Vanish(m)
           \/ BackoffPasses
           \/ UNCHANGED vars
  <2>1. Queued' = Queued
    BY <1>0, <1>4, SetKept, BackoffProperties DEF SweepCheck, Vanish, vars
  <2>2. /\ processing' = processing /\ settled' = settled /\ dead' = dead
        /\ pollers' = pollers
    BY <1>4 DEF SweepCheck, Vanish, BackoffPasses, vars
  <2> QED BY <2>1, <2>2, StandingKept, InboxStutters DEF InHand
<1>5. ASSUME NEW m \in Msgs, SweepAdd(m) \/ Callback(m)
      PROVE  [Inbox!Next]_InboxState
  <2>1. Queued' = Queued \cup {m}
    BY <1>0, <1>5, AddAtProperties DEF SweepAdd, Callback, AddNow
  <2>2. /\ processing' = processing /\ settled' = settled /\ dead' = dead
        /\ pollers' = pollers
    BY <1>5 DEF SweepAdd, Callback
  <2>3. \A n \in Msgs : n # m => Standing(n)' = Standing(n)
    BY <2>1, <2>2, StandingKept DEF InHand
  <2>4. Moves(Standing(m), Standing(m)')
    BY <2>1, <2>2 DEF Standing, Moves
  <2> QED BY <2>3, <2>4, InboxStep
<1>6. CASE Restart
  <2>1. \A n \in Msgs : ~InHand(n)'
    BY <1>6, QueueAssumption DEF Restart, InHand, OffLoop
  <2>2. /\ Queued' = Queued /\ processing' = processing /\ settled' = settled
        /\ dead' = dead
    BY <1>0, <1>6, SetKept DEF Restart
  <2>3. CASE \A n \in Msgs : ~InHand(n)
    BY <2>1, <2>2, <2>3, StandingKept, InboxStutters
  <2>4. CASE \E n \in Msgs : InHand(n)
    <3>1. PICK m \in Msgs : InHand(m)
      BY <2>4
    <3>2. \A n \in Msgs : InHand(n) => n = m
      BY <1>0, <3>1, QueueAssumption DEF InHand, NoOverlap, LoopShape, Holding
    <3>3. \A n \in Msgs : n # m => Standing(n)' = Standing(n)
      BY <3>2, <2>1, <2>2, StandingKept
    <3>4. Moves(Standing(m), Standing(m)')
      BY <3>1, <2>1, <2>2 DEF Standing, Moves
    <3> QED BY <3>3, <3>4, InboxStep
  <2> QED BY <2>3, <2>4
<1> QED BY <1>1, <1>2, <1>3, <1>4, <1>5, <1>6 DEF Next

\* At the start every completion is absent.
LEMMA InitInbox == Init => Inbox!Init
<1> SUFFICES ASSUME Init PROVE \A m \in Msgs : Standing(m) = "absent"
  BY DEF Inbox!Init, InboxState
<1>1. Queued = {}
  BY DEF Init, Queued
<1>2. \A m \in Msgs : ~InHand(m)
  BY QueueAssumption DEF Init, InHand, OffLoop
<1> QED BY <1>1, <1>2 DEF Init, Standing

\* The queue implements CompletionInbox for every set of completions, bound
\* and sequence of failures, as long as no two loops of the stack overlap: a
\* completion it has accepted is pending until it is applied or dead-lettered,
\* but for the moment between its pop and its staging.
THEOREM CompletionsKept == Spec /\ []NoOverlap => NoCompletionLost
BY InitInbox, InitStaging, NextStaging, NextInbox, QueueTypeCorrect, PTL
DEF Spec, NoCompletionLost, Inbox!Spec

---------------------------------------------------------------------------
\* The transcode jobs of an asset: how they end, and what their ends leave on it.

CONSTANTS N, Page, Cap, MaxTries, Overlap, ReportFails, Drops
VARIABLES job, asset, jobQueue, inflight, enc, stray, cb, out, exec, task, faults

Settling == INSTANCE JobSettling WITH queue <- jobQueue

\* What the proofs ask of the constants.
SettlingConstants ==
  /\ N \in Nat /\ Page \in Nat /\ Cap \in Nat /\ MaxTries \in Nat \ {0} /\ MaxFaults \in Nat
  /\ {Overlap, ReportFails, Drops} \subseteq BOOLEAN

JobStep(k, i) == task[<<k, i>>].at

\* One handler at a time.
OneTask == \A k, l \in Settling!Kinds, i, m \in Settling!Jobs : JobStep(k, i) # "idle" /\ JobStep(l, m) # "idle" => k = l /\ i = m
CapInv ==
  /\ Settling!TypeOK /\ OneTask /\ Settling!WithinCap
  /\ \A i \in Settling!Jobs : JobStep("submit", i) = "push" => Settling!UnderCap

\* Where the handlers of a job are, by its record and its encode.
LateTidied(i) == job[i].late = "kept" \/ i \notin out
TaskSteps(i) ==
  /\ JobStep("submit", i) \in {"idle", "count", "push", "reject", "revert"}
  /\ JobStep("dispatch", i) \in {"idle", "read", "job", "asset"}
  /\ JobStep("complete", i) \in {"idle", "read", "fail", "failasset", "release", "rend", "state", "done", "advance",
                              "reclaim", "rget", "rscan", "rwrite"}
  /\ JobStep("cancel", i) \in {"idle", "job", "release", "rget", "rscan", "rwrite"}
  /\ JobStep("abort", i) \in {"idle", "stop", "state", "job", "rget", "rscan", "rwrite"}
SubmitFits(i) ==
  /\ job[i].st = "none" => enc[i] = "no" /\ i \notin jobQueue \cup inflight
  /\ JobStep("submit", i) \in {"count", "push", "reject"} =>
       job[i].st = "queued" /\ enc[i] = "no" /\ i \notin jobQueue \cup inflight
DispatchFits(i) ==
  /\ JobStep("dispatch", i) = "read" => job[i].st = "queued" \/ i \in stray
  /\ JobStep("dispatch", i) = "job" => job[i].st = "queued"
  /\ JobStep("dispatch", i) = "asset" => job[i].st = "running" \/ i \in stray
  /\ JobStep("dispatch", i) # "idle" => enc[i] # "no" /\ job[i].late = "no"
  /\ enc[i] = "no" => job[i].late = "no"
  /\ enc[i] # "no" => job[i].st # "none" /\ (job[i].st = "queued" => JobStep("dispatch", i) \in {"read", "job"})
CompleteFits(i) ==
  /\ cb[i] > 0 => enc[i] = "ok"
  /\ JobStep("complete", i) = "read" => IF task[<<"complete", i>>].ok THEN enc[i] = "ok" ELSE job[i].st = "running"
  /\ JobStep("complete", i) = "fail" => job[i].st = "running"
  /\ JobStep("complete", i) = "reclaim" => enc[i] = "ok"
  /\ JobStep("complete", i) \in {"failasset", "release"} => job[i].st = "failed"
  /\ JobStep("complete", i) \in {"rend", "state", "done"} => job[i].st \in {"running", "failed"}
  /\ JobStep("complete", i) = "advance" => job[i].st = "done"
  /\ JobStep("complete", i) \in {"reclaim", "rget", "rscan", "rwrite"} => job[i].st = "cancelled"
  /\ asset.rend = i => job[i].st = "done" \/ JobStep("complete", i) \in {"state", "done"}
  /\ enc[i] = "ok" /\ cb[i] = 0 =>
       \/ job[i].st \in {"done", "failed"}
       \/ job[i].st = "cancelled" /\ (LateTidied(i) \/ JobStep("complete", i) \in {"read", "reclaim"})
       \/ job[i].st = "running" /\ \/ JobStep("complete", i) \in {"rend", "state", "done"}
                                   \/ JobStep("complete", i) = "read" /\ task[<<"complete", i>>].ok
JobFits(i) == TaskSteps(i) /\ SubmitFits(i) /\ DispatchFits(i) /\ CompleteFits(i)

\* An asset that is `processing` has an active job, or a handler that will see to it.
HeldBy(i) ==
  \/ Settling!Active(i) \/ JobStep("submit", i) = "revert" \/ JobStep("complete", i) = "failasset"
  \/ JobStep("cancel", i) \in {"release", "rget", "rscan", "rwrite"}
  \/ JobStep("complete", i) \in {"rget", "rscan", "rwrite"} \/ JobStep("abort", i) \in {"rget", "rscan", "rwrite"}
  \/ Settling!PostedLate(i)
AssetHeld ==
  /\ asset.st = "processing" => \E i \in Settling!Jobs : HeldBy(i)
  /\ \A i \in Settling!Jobs : JobStep("complete", i) = "done" => asset.st # "processing"
SettleInv == Settling!TypeOK /\ OneTask /\ AssetHeld /\ \A i \in Settling!Jobs : JobFits(i)

---------------------------------------------------------------------------
(* What a handler's step does to the handlers.                              *)
TaskMoves(k, i, v) == task' = [task EXCEPT ![<<k, i>>] = v]
TaskBecomes(k, i, v) == /\ task'[<<k, i>>] = v
                /\ \A l \in Settling!Kinds, m \in Settling!Jobs : l # k \/ m # i => task'[<<l, m>>] = task[<<l, m>>]

LEMMA TaskMoved ==
  ASSUME Settling!TypeOK, NEW k \in Settling!Kinds, NEW i \in Settling!Jobs, NEW v \in Settling!Task, TaskMoves(k, i, v)
  PROVE  task' \in [Settling!Kinds \X Settling!Jobs -> Settling!Task] /\ TaskBecomes(k, i, v)
<1>1. task \in [Settling!Kinds \X Settling!Jobs -> Settling!Task] /\ <<k, i>> \in Settling!Kinds \X Settling!Jobs
  BY DEF Settling!TypeOK
<1>2. task' \in [Settling!Kinds \X Settling!Jobs -> Settling!Task] /\ task'[<<k, i>>] = v
  BY <1>1 DEF TaskMoves
<1>3. ASSUME NEW l \in Settling!Kinds, NEW m \in Settling!Jobs, l # k \/ m # i PROVE task'[<<l, m>>] = task[<<l, m>>]
  <2>1. <<l, m>> \in Settling!Kinds \X Settling!Jobs /\ <<l, m>> # <<k, i>>
    BY <1>3
  <2> QED
    BY <1>1, <2>1 DEF TaskMoves
<1> QED
  BY <1>2, <1>3 DEF TaskBecomes

LEMMA ToMoves ==
  ASSUME Settling!TypeOK, NEW k \in Settling!Kinds, NEW i \in Settling!Jobs, NEW at \in Settling!Steps, Settling!To(k, i, at)
  PROVE  \E v \in Settling!Task : TaskMoves(k, i, v) /\ v.at = at /\ v.ok = task[<<k, i>>].ok
                         /\ v.drop = task[<<k, i>>].drop
<1> DEFINE v == [task[<<k, i>>] EXCEPT !.at = at]
<1>1. task \in [Settling!Kinds \X Settling!Jobs -> Settling!Task] /\ task[<<k, i>>] \in Settling!Task
  BY DEF Settling!TypeOK
<1>2. v \in Settling!Task /\ v.at = at /\ v.ok = task[<<k, i>>].ok /\ v.drop = task[<<k, i>>].drop
  BY <1>1 DEF Settling!Task
<1>3. task' = [task EXCEPT ![<<k, i>>] = v]
  BY <1>1 DEF Settling!To
<1> HIDE DEF v
<1> QED
  BY <1>2, <1>3 DEF TaskMoves

LEMMA EndMoves ==
  ASSUME NEW k, NEW i, Settling!End(k, i)
  PROVE  TaskMoves(k, i, Settling!NoTask) /\ Settling!NoTask \in Settling!Task /\ Settling!NoTask.at = "idle"
BY DEF Settling!End, TaskMoves, Settling!NoTask, Settling!Task, Settling!Steps, Settling!AssetStatus

\* Both at once: the task goes on to one of the steps S, or ends.
LEMMA StepMoves ==
  ASSUME Settling!TypeOK, NEW k \in Settling!Kinds, NEW i \in Settling!Jobs, NEW S \in SUBSET Settling!Steps, "idle" \in S,
         Settling!End(k, i) \/ \E at \in S : Settling!To(k, i, at)
  PROVE  \E v \in Settling!Task : TaskMoves(k, i, v) /\ v.at \in S
<1>1. CASE Settling!End(k, i)
  BY <1>1, EndMoves
<1>2. ASSUME NEW at \in S, Settling!To(k, i, at) PROVE \E v \in Settling!Task : TaskMoves(k, i, v) /\ v.at \in S
  <2>1. at \in Settling!Steps
    OBVIOUS
  <2>2. PICK v \in Settling!Task : TaskMoves(k, i, v) /\ v.at = at
    BY <1>2, <2>1, ToMoves
  <2> QED
    BY <2>2
<1> QED
  BY <1>1, <1>2

LEMMA StartMoves ==
  ASSUME NEW i, NEW ok \in BOOLEAN, NEW drop \in BOOLEAN, Settling!Start(i, ok, drop)
  PROVE  \E v \in Settling!Task : TaskMoves("complete", i, v) /\ v.at = "read" /\ v.ok = ok /\ v.drop = drop
<1> DEFINE v == [Settling!NoTask EXCEPT !.at = "read", !.ok = ok, !.drop = drop]
<1>1. v \in Settling!Task /\ v.at = "read" /\ v.ok = ok /\ v.drop = drop
  BY DEF Settling!NoTask, Settling!Task, Settling!Steps, Settling!AssetStatus
<1>2. task' = [task EXCEPT ![<<"complete", i>>] = v]
  BY DEF Settling!Start
<1> HIDE DEF v
<1> QED
  BY <1>1, <1>2 DEF TaskMoves

LEMMA ToTyped ==
  ASSUME Settling!TypeOK, NEW k \in Settling!Kinds, NEW i \in Settling!Jobs, (\E at \in Settling!Steps : Settling!To(k, i, at)) \/ Settling!End(k, i)
  PROVE  task' \in [Settling!Kinds \X Settling!Jobs -> Settling!Task]
<1>1. CASE \E at \in Settling!Steps : Settling!To(k, i, at)
  BY <1>1, ToMoves, TaskMoved
<1>2. CASE Settling!End(k, i)
  BY <1>2, EndMoves, TaskMoved
<1> QED
  BY <1>1, <1>2

LEMMA AssetMoves ==
  ASSUME NEW a \in [st : Settling!AssetStatus, rend : 0..N, prior : Settling!AssetStatus], NEW to \in Settling!AssetStatus
  PROVE  /\ Settling!Moved(a, to) \in [st : Settling!AssetStatus, rend : 0..N, prior : Settling!AssetStatus]
         /\ Settling!Moved(a, to).st = to /\ Settling!Moved(a, to).rend = a.rend
<1>1. CASE a.st = to
  BY <1>1 DEF Settling!Moved
<1>2. CASE a.st # to
  BY <1>2 DEF Settling!Moved
<1> QED
  BY <1>1, <1>2

LEMMA RecordMoves ==
  ASSUME Settling!TypeOK, NEW i \in Settling!Jobs, NEW st \in Settling!JobStatus
  PROVE  /\ Settling!Patched(i, st) \in [Settling!Jobs -> Settling!JobRecord] /\ Settling!Patched(i, st)[i].st = st
         /\ Settling!Patched(i, st)[i].late = job[i].late /\ Settling!Patched(i, st)[i].drop = job[i].drop
         /\ \A m \in Settling!Jobs \ {i} : Settling!Patched(i, st)[m] = job[m]
<1>1. job \in [Settling!Jobs -> Settling!JobRecord]
  BY DEF Settling!TypeOK
<1> QED
  BY <1>1 DEF Settling!Patched, Settling!JobRecord

---------------------------------------------------------------------------
(* Types.                                                                   *)
JobAssets == [st : Settling!AssetStatus, rend : 0..N, prior : Settling!AssetStatus]
JobExecs == [job : 0..N, st : {"none", "running", "failed", "done"}]
TaskTyped == task' \in [Settling!Kinds \X Settling!Jobs -> Settling!Task]

LEMMA SubmitTypes ==
  ASSUME SettlingConstants, Settling!TypeOK, NEW i \in Settling!Jobs, Settling!Submits(i)
  PROVE  Settling!TypeOK'
<1>1. job \in [Settling!Jobs -> Settling!JobRecord] /\ asset \in JobAssets /\ exec \in JobExecs
  BY DEF Settling!TypeOK, JobAssets, JobExecs
<1>2. ASSUME NEW piped \in BOOLEAN, Settling!Create(i, piped) PROVE Settling!TypeOK'
  <2>1. TaskTyped
    BY <1>2, ToTyped DEF Settling!Create, Settling!Kinds, Settling!Steps, TaskTyped
  <2>2. job' \in [Settling!Jobs -> Settling!JobRecord]
    BY <1>2, RecordMoves DEF Settling!Create, Settling!JobStatus
  <2>3. exec' \in JobExecs
    BY <1>1, <1>2 DEF Settling!Create, JobExecs, Settling!Jobs, SettlingConstants
  <2> QED
    BY <1>2, <2>1, <2>2, <2>3 DEF Settling!Create, Settling!TypeOK, TaskTyped, JobExecs
<1>3. CASE Settling!Count(i)
  <2>1. TaskTyped
    BY <1>3, ToTyped DEF Settling!Count, Settling!Kinds, Settling!Steps, TaskTyped
  <2> QED
    BY <1>3, <2>1 DEF Settling!Count, Settling!TypeOK, TaskTyped
<1>4. CASE Settling!Push(i)
  <2>1. TaskTyped
    BY <1>4, ToTyped DEF Settling!Push, Settling!Kinds, TaskTyped
  <2> QED
    BY <1>4, <2>1 DEF Settling!Push, Settling!TypeOK, TaskTyped
<1>5. CASE Settling!Reject(i)
  <2>1. TaskTyped
    BY <1>5, ToTyped DEF Settling!Reject, Settling!Kinds, Settling!Steps, TaskTyped
  <2>2. job' \in [Settling!Jobs -> Settling!JobRecord]
    BY <1>1, <1>5, RecordMoves DEF Settling!Reject, Settling!JobStatus
  <2>3. exec' \in JobExecs
    BY <1>1, <1>5 DEF Settling!Reject, JobExecs
  <2> QED
    BY <1>5, <2>1, <2>2, <2>3 DEF Settling!Reject, Settling!TypeOK, TaskTyped, JobExecs
<1>6. CASE Settling!Revert(i)
  <2>1. TaskTyped
    BY <1>6, ToTyped DEF Settling!Revert, Settling!Kinds, TaskTyped
  <2>2. asset' \in JobAssets
    BY <1>1, <1>6, AssetMoves DEF Settling!Revert, Settling!AssetStatus, JobAssets
  <2> QED
    BY <1>6, <2>1, <2>2 DEF Settling!Revert, Settling!TypeOK, TaskTyped, JobAssets
<1> QED
  BY <1>2, <1>3, <1>4, <1>5, <1>6 DEF Settling!Submits

LEMMA DispatchTypes ==
  ASSUME SettlingConstants, Settling!TypeOK, NEW i \in Settling!Jobs, Settling!Dispatches(i)
  PROVE  Settling!TypeOK'
<1>1. job \in [Settling!Jobs -> Settling!JobRecord] /\ asset \in JobAssets
  BY DEF Settling!TypeOK, JobAssets
<1>2. CASE Settling!Claim(i)
  BY <1>2 DEF Settling!Claim, Settling!TypeOK
<1>3. CASE Settling!Post(i)
  <2>1. TaskTyped
    BY <1>3, ToTyped DEF Settling!Post, Settling!Kinds, Settling!Steps, TaskTyped, Settling!TypeOK
  <2> QED
    BY <1>3, <2>1 DEF Settling!Post, Settling!TypeOK, TaskTyped
<1>4. CASE Settling!DispatchRead(i)
  <2>1. TaskTyped
    BY <1>4, ToTyped DEF Settling!DispatchRead, Settling!Kinds, Settling!Steps, TaskTyped
  <2> QED
    BY <1>4, <2>1 DEF Settling!DispatchRead, Settling!TypeOK, TaskTyped
<1>5. CASE Settling!DispatchJob(i)
  <2>1. TaskTyped
    BY <1>5, ToTyped DEF Settling!DispatchJob, Settling!Kinds, Settling!Steps, TaskTyped
  <2>2. job' \in [Settling!Jobs -> Settling!JobRecord]
    BY <1>1, <1>5, RecordMoves DEF Settling!DispatchJob, Settling!JobStatus
  <2> QED
    BY <1>5, <2>1, <2>2 DEF Settling!DispatchJob, Settling!TypeOK, TaskTyped
<1>6. CASE Settling!DispatchAsset(i)
  <2>1. TaskTyped
    BY <1>6, ToTyped DEF Settling!DispatchAsset, Settling!Kinds, TaskTyped
  <2>2. asset' \in JobAssets
    BY <1>1, <1>6, AssetMoves DEF Settling!DispatchAsset, Settling!AssetStatus, JobAssets
  <2> QED
    BY <1>6, <2>1, <2>2 DEF Settling!DispatchAsset, Settling!TypeOK, TaskTyped, JobAssets
<1>7. CASE Settling!DispatchFails(i)
  <2>1. TaskTyped
    BY <1>7, ToTyped DEF Settling!DispatchFails, Settling!Kinds, TaskTyped
  <2>2. faults' \in 0..MaxFaults
    BY <1>7 DEF Settling!DispatchFails, Settling!TypeOK, SettlingConstants
  <2> QED
    BY <1>7, <2>1, <2>2 DEF Settling!DispatchFails, Settling!TypeOK, TaskTyped
<1> QED
  BY <1>2, <1>3, <1>4, <1>5, <1>6, <1>7 DEF Settling!Dispatches

LEMMA EncoderTypes ==
  ASSUME SettlingConstants, Settling!TypeOK, NEW i \in Settling!Jobs, Settling!Encode(i) \/ Settling!Deliver(i) \/ Settling!Sweep(i) \/ Settling!Drop(i)
  PROVE  Settling!TypeOK'
<1>1. job \in [Settling!Jobs -> Settling!JobRecord] /\ enc \in [Settling!Jobs -> {"no", "run", "ok", "bad", "gone"}] /\ cb \in [Settling!Jobs -> 0..MaxTries]
  BY DEF Settling!TypeOK
<1>2. CASE Settling!Encode(i)
  <2>1. cb' \in [Settling!Jobs -> 0..MaxTries]
    BY <1>1, <1>2 DEF Settling!Encode, SettlingConstants
  <2>2. faults' \in 0..MaxFaults
    BY <1>2 DEF Settling!Encode, Settling!TypeOK, SettlingConstants
  <2>3. enc' \in [Settling!Jobs -> {"no", "run", "ok", "bad", "gone"}]
    BY <1>1, <1>2 DEF Settling!Encode
  <2> QED
    BY <1>2, <2>1, <2>2, <2>3 DEF Settling!Encode, Settling!TypeOK
<1>3. CASE Settling!Deliver(i)
  <2>1. TaskTyped
    BY <1>3, StartMoves, TaskMoved DEF Settling!Deliver, Settling!Kinds, TaskTyped
  <2>2. cb' \in [Settling!Jobs -> 0..MaxTries]
    BY <1>1, <1>3 DEF Settling!Deliver, SettlingConstants
  <2> QED
    BY <1>3, <2>1, <2>2 DEF Settling!Deliver, Settling!TypeOK, TaskTyped
<1>4. CASE Settling!Sweep(i)
  <2>1. TaskTyped
    BY <1>4, StartMoves, TaskMoved DEF Settling!Sweep, Settling!Kinds, TaskTyped
  <2> QED
    BY <1>4, <2>1 DEF Settling!Sweep, Settling!TypeOK, TaskTyped
<1>5. CASE Settling!Drop(i)
  <2>1. TaskTyped
    BY <1>5, StartMoves, TaskMoved DEF Settling!Drop, Settling!Kinds, TaskTyped
  <2> QED
    BY <1>5, <2>1 DEF Settling!Drop, Settling!TypeOK, TaskTyped
<1> QED
  BY <1>2, <1>3, <1>4, <1>5

LEMMA CompleteTypes ==
  ASSUME SettlingConstants, Settling!TypeOK, NEW i \in Settling!Jobs, Settling!Completes(i)
  PROVE  Settling!TypeOK'
<1>1. job \in [Settling!Jobs -> Settling!JobRecord] /\ asset \in JobAssets /\ exec \in JobExecs /\ cb \in [Settling!Jobs -> 0..MaxTries]
      /\ task \in [Settling!Kinds \X Settling!Jobs -> Settling!Task] /\ task[<<"complete", i>>] \in Settling!Task
  BY DEF Settling!TypeOK, JobAssets, JobExecs, Settling!Kinds
<1>2. CASE Settling!CompleteRead(i)
  <2>1. TaskTyped
    BY <1>2, ToTyped DEF Settling!CompleteRead, Settling!Kinds, Settling!Steps, TaskTyped, Settling!Branch
  <2> QED
    BY <1>2, <2>1 DEF Settling!CompleteRead, Settling!TypeOK, TaskTyped
<1>3. CASE Settling!CompleteFail(i)
  <2>1. TaskTyped
    BY <1>3, ToTyped DEF Settling!CompleteFail, Settling!Kinds, Settling!Steps, TaskTyped
  <2>2. job' \in [Settling!Jobs -> Settling!JobRecord]
    <3>1. task[<<"complete", i>>].drop \in BOOLEAN /\ job[i] \in Settling!JobRecord
      BY <1>1 DEF Settling!Kinds, Settling!Task
    <3>2. [job[i] EXCEPT !.st = "failed", !.drop = task[<<"complete", i>>].drop] \in Settling!JobRecord
      BY <3>1 DEF Settling!JobRecord, Settling!JobStatus
    <3>3. job' = job \/ job' = [job EXCEPT ![i] = [job[i] EXCEPT !.st = "failed", !.drop = task[<<"complete", i>>].drop]]
      BY <1>1, <1>3 DEF Settling!CompleteFail
    <3> QED
      BY <1>1, <3>2, <3>3
  <2> QED
    BY <1>3, <2>1, <2>2 DEF Settling!CompleteFail, Settling!TypeOK, TaskTyped
<1>4. CASE Settling!CompleteFailAsset(i)
  <2>1. TaskTyped
    BY <1>4, ToTyped DEF Settling!CompleteFailAsset, Settling!Kinds, Settling!Steps, TaskTyped
  <2>2. asset' \in JobAssets
    BY <1>1, <1>4, AssetMoves DEF Settling!CompleteFailAsset, Settling!AssetStatus, JobAssets
  <2> QED
    BY <1>4, <2>1, <2>2 DEF Settling!CompleteFailAsset, Settling!TypeOK, TaskTyped, JobAssets
<1>5. CASE Settling!CompleteRelease(i)
  <2>1. TaskTyped
    BY <1>5, ToTyped DEF Settling!CompleteRelease, Settling!Kinds, TaskTyped
  <2>2. exec' \in JobExecs
    BY <1>1, <1>5 DEF Settling!CompleteRelease, Settling!FailRun, JobExecs
  <2> QED
    BY <1>5, <2>1, <2>2 DEF Settling!CompleteRelease, Settling!TypeOK, TaskTyped, JobExecs
<1>6. CASE Settling!CompleteRend(i)
  <2>1. TaskTyped
    BY <1>6, ToTyped DEF Settling!CompleteRend, Settling!Kinds, Settling!Steps, TaskTyped
  <2>2. asset' \in JobAssets
    <3>1. i \in 0..N
      BY DEF Settling!Jobs, SettlingConstants
    <3> QED
      BY <1>1, <1>6, <3>1 DEF Settling!CompleteRend, JobAssets
  <2> QED
    BY <1>6, <2>1, <2>2 DEF Settling!CompleteRend, Settling!TypeOK, TaskTyped, JobAssets
<1>7. CASE Settling!CompleteState(i)
  <2>1. TaskTyped
    BY <1>7, ToTyped DEF Settling!CompleteState, Settling!Kinds, Settling!Steps, TaskTyped
  <2>2. Settling!Moved(asset, "ready") \in JobAssets /\ Settling!Moved(asset, "processing") \in JobAssets
        /\ Settling!Moved(Settling!Moved(asset, "processing"), "ready") \in JobAssets
    BY <1>1, AssetMoves DEF JobAssets, Settling!AssetStatus
  <2>3. asset' \in JobAssets
    BY <1>1, <1>7, <2>2 DEF Settling!CompleteState
  <2> QED
    BY <1>7, <2>1, <2>3 DEF Settling!CompleteState, Settling!TypeOK, TaskTyped, JobAssets
<1>8. CASE Settling!CompleteDone(i)
  <2>1. TaskTyped
    BY <1>8, ToTyped DEF Settling!CompleteDone, Settling!Kinds, Settling!Steps, TaskTyped
  <2>2. job' \in [Settling!Jobs -> Settling!JobRecord]
    <3> DEFINE r == [job[i] EXCEPT !.st = "done", !.drop = FALSE]
    <3>1. r \in Settling!JobRecord
      BY <1>1 DEF Settling!JobRecord, Settling!JobStatus
    <3>2. job' = job \/ job' = [job EXCEPT ![i] = r]
      BY <1>1, <1>8 DEF Settling!CompleteDone, Settling!JobRecord
    <3> HIDE DEF r
    <3> QED
      BY <1>1, <3>1, <3>2
  <2>3. cb' \in [Settling!Jobs -> 0..MaxTries]
    BY <1>1, <1>8 DEF Settling!CompleteDone, SettlingConstants
  <2> QED
    BY <1>8, <2>1, <2>2, <2>3 DEF Settling!CompleteDone, Settling!TypeOK, TaskTyped
<1>9. CASE Settling!CompleteAdvance(i)
  <2>1. TaskTyped
    BY <1>9, ToTyped DEF Settling!CompleteAdvance, Settling!Kinds, TaskTyped
  <2>2. exec' \in JobExecs
    BY <1>1, <1>9 DEF Settling!CompleteAdvance, JobExecs
  <2> QED
    BY <1>9, <2>1, <2>2 DEF Settling!CompleteAdvance, Settling!TypeOK, TaskTyped, JobExecs
<1>10. CASE Settling!Reclaim(i)
  <2>1. TaskTyped
    BY <1>10, ToTyped DEF Settling!Reclaim, Settling!Kinds, Settling!Steps, TaskTyped
  <2>2. job' \in [Settling!Jobs -> Settling!JobRecord]
    BY <1>1, <1>10 DEF Settling!Reclaim, Settling!JobRecord
  <2>3. cb' \in [Settling!Jobs -> 0..MaxTries] /\ faults' \in 0..MaxFaults /\ out' \subseteq Settling!Jobs
    BY <1>1, <1>10 DEF Settling!Reclaim, SettlingConstants, Settling!TypeOK
  <2> QED
    BY <1>10, <2>1, <2>2, <2>3 DEF Settling!Reclaim, Settling!TypeOK, TaskTyped
<1> QED
  BY <1>2, <1>3, <1>4, <1>5, <1>6, <1>7, <1>8, <1>9, <1>10 DEF Settling!Completes

LEMMA RecomputeTask ==
  ASSUME Settling!TypeOK, NEW i \in Settling!Jobs, NEW k \in {"complete", "cancel", "abort"},
         Settling!RecomputeGet(k, i) \/ Settling!RecomputeScan(k, i) \/ Settling!RecomputeWrite(k, i)
  PROVE  \E v \in Settling!Task : TaskMoves(k, i, v) /\ v.at \in {"idle", "rscan", "rwrite"}
<1>1. k \in Settling!Kinds
  BY DEF Settling!Kinds
<1>2. CASE Settling!RecomputeGet(k, i)
  <2> DEFINE v == [task[<<k, i>>] EXCEPT !.at = "rscan", !.rend = asset.rend # 0, !.prior = asset.prior]
  <2>1. task \in [Settling!Kinds \X Settling!Jobs -> Settling!Task] /\ task[<<k, i>>] \in Settling!Task /\ asset.prior \in Settling!AssetStatus
    BY <1>1 DEF Settling!TypeOK
  <2>2. v \in Settling!Task /\ v.at = "rscan"
    BY <2>1 DEF Settling!Task, Settling!Steps
  <2>3. Settling!End(k, i) \/ TaskMoves(k, i, v)
    BY <1>2, <2>1 DEF Settling!RecomputeGet, TaskMoves, Settling!Task
  <2> HIDE DEF v
  <2> QED
    BY <2>2, <2>3, EndMoves
<1>3. CASE Settling!RecomputeScan(k, i)
  <2>1. Settling!End(k, i) \/ \E at \in {"idle", "rwrite"} : Settling!To(k, i, at)
    BY <1>3 DEF Settling!RecomputeScan
  <2>2. PICK v \in Settling!Task : TaskMoves(k, i, v) /\ v.at \in {"idle", "rwrite"}
    BY <1>1, <2>1, StepMoves DEF Settling!Steps
  <2> QED
    BY <2>2
<1>4. CASE Settling!RecomputeWrite(k, i)
  BY <1>4, EndMoves DEF Settling!RecomputeWrite
<1> QED
  BY <1>2, <1>3, <1>4

LEMMA CancelTypes ==
  ASSUME SettlingConstants, Settling!TypeOK, NEW i \in Settling!Jobs, Settling!Cancels(i) \/ Settling!Recomputes(i)
  PROVE  Settling!TypeOK'
<1>1. job \in [Settling!Jobs -> Settling!JobRecord] /\ asset \in JobAssets /\ exec \in JobExecs
      /\ task \in [Settling!Kinds \X Settling!Jobs -> Settling!Task] /\ enc \in [Settling!Jobs -> {"no", "run", "ok", "bad", "gone"}]
  BY DEF Settling!TypeOK, JobAssets, JobExecs
<1>2. CASE Settling!Cancel(i)
  <2>1. TaskTyped
    BY <1>2, ToTyped DEF Settling!Cancel, Settling!Kinds, Settling!Steps, TaskTyped
  <2> QED
    BY <1>2, <2>1 DEF Settling!Cancel, Settling!TypeOK, TaskTyped
<1>4. CASE Settling!CancelJob(i)
  <2>1. TaskTyped
    BY <1>4, ToTyped DEF Settling!CancelJob, Settling!Kinds, Settling!Steps, TaskTyped
  <2>2. job' \in [Settling!Jobs -> Settling!JobRecord]
    BY <1>1, <1>4, RecordMoves DEF Settling!CancelJob, Settling!JobStatus
  <2> QED
    BY <1>4, <2>1, <2>2 DEF Settling!CancelJob, Settling!TypeOK, TaskTyped
<1>5. CASE Settling!CancelRelease(i)
  <2>1. TaskTyped
    BY <1>5, ToTyped DEF Settling!CancelRelease, Settling!Kinds, Settling!Steps, TaskTyped
  <2>2. exec' \in JobExecs
    BY <1>1, <1>5 DEF Settling!CancelRelease, Settling!FailRun, JobExecs
  <2> QED
    BY <1>5, <2>1, <2>2 DEF Settling!CancelRelease, Settling!TypeOK, TaskTyped, JobExecs
<1>6. ASSUME NEW k \in {"complete", "cancel", "abort"}, Settling!RecomputeGet(k, i) PROVE Settling!TypeOK'
  <2>1. TaskTyped
    BY <1>6, RecomputeTask, TaskMoved DEF Settling!Kinds, TaskTyped
  <2> QED
    BY <1>6, <2>1 DEF Settling!RecomputeGet, Settling!TypeOK, TaskTyped
<1>7. ASSUME NEW k \in {"complete", "cancel", "abort"}, Settling!RecomputeScan(k, i) PROVE Settling!TypeOK'
  <2>1. TaskTyped
    BY <1>7, ToTyped DEF Settling!RecomputeScan, Settling!Kinds, Settling!Steps, TaskTyped
  <2> QED
    BY <1>7, <2>1 DEF Settling!RecomputeScan, Settling!TypeOK, TaskTyped
<1>8. ASSUME NEW k \in {"complete", "cancel", "abort"}, Settling!RecomputeWrite(k, i) PROVE Settling!TypeOK'
  <2>1. TaskTyped /\ task[<<k, i>>] \in Settling!Task
    BY <1>1, <1>8, ToTyped DEF Settling!RecomputeWrite, Settling!Kinds, TaskTyped
  <2>2. Settling!AfterTerminal(k, task[<<k, i>>]) \in Settling!AssetStatus
    BY <2>1 DEF Settling!AfterTerminal, Settling!Task, Settling!AssetStatus
  <2>3. asset' \in JobAssets
    BY <1>1, <1>8, <2>2, AssetMoves DEF Settling!RecomputeWrite, JobAssets
  <2> QED
    BY <1>8, <2>1, <2>3 DEF Settling!RecomputeWrite, Settling!TypeOK, TaskTyped, JobAssets
<1> QED
  BY <1>2, <1>4, <1>5, <1>6, <1>7, <1>8 DEF Settling!Cancels, Settling!Recomputes

LEMMA AbortTypes ==
  ASSUME SettlingConstants, Settling!TypeOK, NEW i \in Settling!Jobs, Settling!Aborts(i)
  PROVE  Settling!TypeOK'
<1>1. job \in [Settling!Jobs -> Settling!JobRecord] /\ exec \in JobExecs /\ enc \in [Settling!Jobs -> {"no", "run", "ok", "bad", "gone"}]
  BY DEF Settling!TypeOK, JobExecs
<1>2. TaskTyped
  BY ToTyped DEF Settling!Aborts, Settling!Abort, Settling!AbortStop, Settling!AbortRun, Settling!AbortJob,
     Settling!Kinds, Settling!Steps, TaskTyped
<1>3. CASE Settling!Abort(i)
  BY <1>2, <1>3 DEF Settling!Abort, Settling!TypeOK, TaskTyped
<1>4. CASE Settling!AbortStop(i)
  <2>1. enc' \in [Settling!Jobs -> {"no", "run", "ok", "bad", "gone"}] /\ jobQueue' \subseteq Settling!Jobs
    BY <1>1, <1>4 DEF Settling!AbortStop, Settling!TypeOK
  <2>2. faults' \in 0..MaxFaults
    BY <1>4 DEF Settling!AbortStop, Settling!TypeOK, SettlingConstants
  <2> QED
    BY <1>2, <1>4, <2>1, <2>2 DEF Settling!AbortStop, Settling!TypeOK, TaskTyped
<1>5. CASE Settling!AbortRun(i)
  <2>1. exec' \in JobExecs
    BY <1>1, <1>5 DEF Settling!AbortRun, JobExecs
  <2> QED
    BY <1>2, <1>5, <2>1 DEF Settling!AbortRun, Settling!TypeOK, TaskTyped, JobExecs
<1>6. CASE Settling!AbortJob(i)
  <2>1. job' \in [Settling!Jobs -> Settling!JobRecord]
    BY <1>1, <1>6, RecordMoves DEF Settling!AbortJob, Settling!JobStatus
  <2> QED
    BY <1>2, <1>6, <2>1 DEF Settling!AbortJob, Settling!TypeOK, TaskTyped
<1> QED
  BY <1>3, <1>4, <1>5, <1>6 DEF Settling!Aborts

LEMMA SettlingTypes ==
  ASSUME SettlingConstants, Settling!TypeOK, [Settling!Next]_(Settling!vars)
  PROVE  Settling!TypeOK'
<1>1. CASE UNCHANGED Settling!vars
  BY <1>1 DEF Settling!vars, Settling!TypeOK
<1> QED
  BY <1>1, SubmitTypes, DispatchTypes, EncoderTypes, CompleteTypes, CancelTypes, AbortTypes DEF Settling!Next

LEMMA SettlingStart ==
  ASSUME SettlingConstants, Settling!Init
  PROVE  Settling!TypeOK /\ \A k \in Settling!Kinds, i \in Settling!Jobs : JobStep(k, i) = "idle"
BY DEF Settling!Init, Settling!TypeOK, Settling!NoJob, Settling!NoTask, Settling!JobRecord, Settling!JobStatus,
   Settling!AssetStatus, Settling!Task, Settling!Steps, SettlingConstants, JobStep

---------------------------------------------------------------------------
(* Whose task moves.                                                        *)
LEMMA SubmitTask ==
  ASSUME Settling!TypeOK, NEW i \in Settling!Jobs, Settling!Submits(i)
  PROVE  \E v \in Settling!Task : TaskMoves("submit", i, v)
<1> DEFINE S == {"idle", "count", "push", "reject", "revert"}
<1>1. S \in SUBSET Settling!Steps /\ "idle" \in S /\ "submit" \in Settling!Kinds
  BY DEF Settling!Steps, Settling!Kinds
<1>2. Settling!End("submit", i) \/ \E at \in S : Settling!To("submit", i, at)
  BY DEF Settling!Submits, Settling!Create, Settling!Count, Settling!Push, Settling!Reject, Settling!Revert
<1> HIDE DEF S
<1> QED
  BY <1>1, <1>2, StepMoves

LEMMA DispatchTask ==
  ASSUME Settling!TypeOK, NEW i \in Settling!Jobs, Settling!Dispatches(i)
  PROVE  task' = task \/ \E v \in Settling!Task : TaskMoves("dispatch", i, v)
<1> DEFINE S == {"idle", "read", "job", "asset"}
<1>1. S \in SUBSET Settling!Steps /\ "idle" \in S /\ "dispatch" \in Settling!Kinds
  BY DEF Settling!Steps, Settling!Kinds
<1>2. task' = task \/ Settling!End("dispatch", i) \/ \E at \in S : Settling!To("dispatch", i, at)
  BY DEF Settling!Dispatches, Settling!Claim, Settling!Post, Settling!DispatchRead, Settling!DispatchJob,
     Settling!DispatchAsset, Settling!DispatchFails
<1> HIDE DEF S
<1> QED
  BY <1>1, <1>2, StepMoves

LEMMA CompleteTask ==
  ASSUME Settling!TypeOK, NEW i \in Settling!Jobs, Settling!Completes(i)
  PROVE  \E v \in Settling!Task : TaskMoves("complete", i, v)
<1>1. \/ Settling!End("complete", i)
      \/ \E at \in Settling!Steps : Settling!To("complete", i, at)
  BY DEF Settling!Completes, Settling!CompleteRead, Settling!CompleteFail, Settling!CompleteFailAsset,
     Settling!CompleteRelease, Settling!CompleteRend, Settling!CompleteState,
     Settling!CompleteDone, Settling!CompleteAdvance, Settling!Reclaim, Settling!Steps, Settling!Branch
<1> QED
  BY <1>1, EndMoves, ToMoves DEF Settling!Kinds

LEMMA CancelTask ==
  ASSUME Settling!TypeOK, NEW i \in Settling!Jobs, Settling!Cancels(i)
  PROVE  \E v \in Settling!Task : TaskMoves("cancel", i, v)
<1>1. Settling!End("cancel", i) \/ \E at \in Settling!Steps : Settling!To("cancel", i, at)
  BY DEF Settling!Cancels, Settling!Cancel, Settling!CancelJob, Settling!CancelRelease, Settling!Steps
<1> QED
  BY <1>1, EndMoves, ToMoves DEF Settling!Kinds

LEMMA AbortTask ==
  ASSUME Settling!TypeOK, NEW i \in Settling!Jobs, Settling!Aborts(i)
  PROVE  \E v \in Settling!Task : TaskMoves("abort", i, v)
<1>1. Settling!End("abort", i) \/ \E at \in Settling!Steps : Settling!To("abort", i, at)
  BY DEF Settling!Aborts, Settling!Abort, Settling!AbortStop, Settling!AbortRun, Settling!AbortJob,
     Settling!Steps
<1> QED
  BY <1>1, EndMoves, ToMoves DEF Settling!Kinds

---------------------------------------------------------------------------
(* One handler at a time.                                                   *)

\* A step moves no task, or one that is under way, or starts one when none is.
OneTaskMoves == task' = task \/ \E k \in Settling!Kinds, i \in Settling!Jobs, v \in Settling!Task : TaskMoves(k, i, v) /\ (JobStep(k, i) # "idle" \/ Settling!Quiet)

LEMMA OneKept ==
  ASSUME Settling!TypeOK, OneTask, OneTaskMoves
  PROVE  OneTask'
<1>1. CASE task' = task
  BY <1>1 DEF OneTask, JobStep
<1>2. ASSUME NEW k \in Settling!Kinds, NEW i \in Settling!Jobs, NEW v \in Settling!Task, TaskMoves(k, i, v), JobStep(k, i) # "idle" \/ Settling!Quiet
      PROVE  OneTask'
  <2>1. TaskBecomes(k, i, v)
    BY <1>2, TaskMoved
  <2>2. \A l \in Settling!Kinds, m \in Settling!Jobs : l # k \/ m # i => JobStep(l, m) = "idle"
    BY <1>2 DEF OneTask, Settling!Quiet, JobStep
  <2> QED
    BY <2>1, <2>2 DEF OneTask, JobStep, TaskBecomes
<1> QED
  BY <1>1, <1>2 DEF OneTaskMoves

LEMMA SubmitOne ==
  ASSUME Settling!TypeOK, ~Overlap, NEW i \in Settling!Jobs, Settling!Submits(i)
  PROVE  JobStep("submit", i) # "idle" \/ Settling!Quiet
BY DEF Settling!Submits, Settling!Create, Settling!Count, Settling!Push, Settling!Reject, Settling!Revert,
   Settling!MayStart, Settling!At, JobStep

LEMMA DispatchOne ==
  ASSUME Settling!TypeOK, ~Overlap, NEW i \in Settling!Jobs, Settling!Dispatches(i)
  PROVE  task' = task \/ JobStep("dispatch", i) # "idle" \/ Settling!Quiet
BY DEF Settling!Dispatches, Settling!Claim, Settling!Post, Settling!DispatchRead, Settling!DispatchJob,
   Settling!DispatchAsset, Settling!DispatchFails, Settling!MayStart, Settling!At, JobStep

LEMMA CompleteOne ==
  ASSUME Settling!TypeOK, NEW i \in Settling!Jobs, Settling!Completes(i)
  PROVE  JobStep("complete", i) # "idle"
BY DEF Settling!Completes, Settling!CompleteRead, Settling!CompleteFail, Settling!CompleteFailAsset,
   Settling!CompleteRelease, Settling!CompleteRend, Settling!CompleteState,
   Settling!CompleteDone, Settling!CompleteAdvance, Settling!Reclaim, Settling!At, JobStep

LEMMA CancelOne ==
  ASSUME Settling!TypeOK, ~Overlap, NEW i \in Settling!Jobs, Settling!Cancels(i)
  PROVE  JobStep("cancel", i) # "idle" \/ Settling!Quiet
BY DEF Settling!Cancels, Settling!Cancel, Settling!CancelJob, Settling!CancelRelease, Settling!MayStart,
   Settling!At, JobStep

LEMMA AbortOne ==
  ASSUME Settling!TypeOK, ~Overlap, NEW i \in Settling!Jobs, Settling!Aborts(i)
  PROVE  JobStep("abort", i) # "idle" \/ Settling!Quiet
BY DEF Settling!Aborts, Settling!Abort, Settling!AbortStop, Settling!AbortRun, Settling!AbortJob,
   Settling!MayStart, Settling!At, JobStep

LEMMA NextOne ==
  ASSUME SettlingConstants, Settling!TypeOK, ~Overlap, [Settling!Next]_(Settling!vars)
  PROVE  OneTaskMoves
<1>1. ASSUME NEW m \in Settling!Jobs, Settling!Submits(m) PROVE OneTaskMoves
  <2>1. PICK v \in Settling!Task : TaskMoves("submit", m, v)
    BY <1>1, SubmitTask
  <2> QED
    BY <1>1, <2>1, SubmitOne DEF OneTaskMoves, Settling!Kinds
<1>2. ASSUME NEW m \in Settling!Jobs, Settling!Dispatches(m) PROVE OneTaskMoves
  <2>1. CASE task' = task
    BY <2>1 DEF OneTaskMoves
  <2>2. ASSUME NEW v \in Settling!Task, TaskMoves("dispatch", m, v) PROVE OneTaskMoves
    <3>1. CASE task' = task
      BY <3>1 DEF OneTaskMoves
    <3>2. CASE JobStep("dispatch", m) # "idle" \/ Settling!Quiet
      BY <2>2, <3>2 DEF OneTaskMoves, Settling!Kinds
    <3> QED
      BY <1>2, <3>1, <3>2, DispatchOne
  <2> QED
    BY <1>2, <2>1, <2>2, DispatchTask
<1>3. ASSUME NEW m \in Settling!Jobs, Settling!Encode(m) PROVE OneTaskMoves
  BY <1>3 DEF Settling!Encode, OneTaskMoves
<1>4. ASSUME NEW m \in Settling!Jobs, Settling!Deliver(m) \/ Settling!Sweep(m) \/ Settling!Drop(m) PROVE OneTaskMoves
  <2>1. PICK v \in Settling!Task : TaskMoves("complete", m, v)
    BY <1>4, StartMoves DEF Settling!Deliver, Settling!Sweep, Settling!Drop
  <2>2. Settling!Quiet
    BY <1>4 DEF Settling!Deliver, Settling!Sweep, Settling!Drop, Settling!MayStart
  <2> QED
    BY <2>1, <2>2 DEF OneTaskMoves, Settling!Kinds
<1>5. ASSUME NEW m \in Settling!Jobs, Settling!Completes(m) PROVE OneTaskMoves
  <2>1. PICK v \in Settling!Task : TaskMoves("complete", m, v)
    BY <1>5, CompleteTask
  <2> QED
    BY <1>5, <2>1, CompleteOne DEF OneTaskMoves, Settling!Kinds
<1>6. ASSUME NEW m \in Settling!Jobs, Settling!Cancels(m) PROVE OneTaskMoves
  <2>1. PICK v \in Settling!Task : TaskMoves("cancel", m, v)
    BY <1>6, CancelTask
  <2> QED
    BY <1>6, <2>1, CancelOne DEF OneTaskMoves, Settling!Kinds
<1>7. ASSUME NEW m \in Settling!Jobs, Settling!Recomputes(m) PROVE OneTaskMoves
  <2>1. PICK k \in {"complete", "cancel", "abort"} : Settling!RecomputeGet(k, m) \/ Settling!RecomputeScan(k, m) \/ Settling!RecomputeWrite(k, m)
    BY <1>7 DEF Settling!Recomputes
  <2>2. PICK v \in Settling!Task : TaskMoves(k, m, v)
    BY <2>1, RecomputeTask
  <2>3. JobStep(k, m) # "idle" /\ k \in Settling!Kinds
    BY <2>1 DEF Settling!RecomputeGet, Settling!RecomputeScan, Settling!RecomputeWrite, Settling!At, JobStep,
       Settling!Kinds
  <2> QED
    BY <2>2, <2>3 DEF OneTaskMoves
<1>8. CASE UNCHANGED Settling!vars
  BY <1>8 DEF Settling!vars, OneTaskMoves
<1>9. ASSUME NEW m \in Settling!Jobs, Settling!Aborts(m) PROVE OneTaskMoves
  <2>1. PICK v \in Settling!Task : TaskMoves("abort", m, v)
    BY <1>9, AbortTask
  <2> QED
    BY <1>9, <2>1, AbortOne DEF OneTaskMoves, Settling!Kinds
<1> QED
  BY <1>1, <1>2, <1>3, <1>4, <1>5, <1>6, <1>7, <1>8, <1>9 DEF Settling!Next

---------------------------------------------------------------------------
(* The queue and the in-flight list stay within the cap.                    *)
JobsListed == Cardinality(jobQueue) + Cardinality(inflight)

\* The instance counts as this module does.
LEMMA JobsSameCount ==
  \A S : Settling!Cardinality(S) = Cardinality(S)
BY Zenon DEF Settling!Cardinality, Cardinality

LEMMA JobSets ==
  ASSUME SettlingConstants, NEW S \in SUBSET Settling!Jobs
  PROVE  IsFiniteSet(S) /\ Cardinality(S) \in Nat
<1>1. IsFiniteSet(Settling!Jobs)
  BY FS_Interval DEF Settling!Jobs, SettlingConstants
<1>2. IsFiniteSet(S)
  BY <1>1, FS_Subset
<1> QED
  BY <1>2, FS_CardinalityType

LEMMA JobJoined ==
  ASSUME SettlingConstants, NEW S \in SUBSET Settling!Jobs, NEW i \in Settling!Jobs
  PROVE  /\ Cardinality(S \cup {i}) <= Cardinality(S) + 1
         /\ Cardinality(S \ {i}) <= Cardinality(S)
         /\ i \in S => Cardinality(S \ {i}) = Cardinality(S) - 1
<1>1. IsFiniteSet(S) /\ Cardinality(S) \in Nat
  BY JobSets
<1>2. Cardinality(S \cup {i}) = IF i \in S THEN Cardinality(S) ELSE Cardinality(S) + 1
  BY <1>1, FS_AddElement
<1>3. Cardinality(S \ {i}) = IF i \in S THEN Cardinality(S) - 1 ELSE Cardinality(S)
  BY <1>1, FS_RemoveElement
<1> QED
  BY <1>1, <1>2, <1>3

\* What a step does to the two lists, but for the push.
LEMMA ListsShrink ==
  ASSUME SettlingConstants, Settling!TypeOK, [Settling!Next]_(Settling!vars)
  PROVE  JobsListed' <= JobsListed \/ \E m \in Settling!Jobs : Settling!Push(m)
<1>0. jobQueue \in SUBSET Settling!Jobs /\ inflight \in SUBSET Settling!Jobs /\ Cardinality(jobQueue) \in Nat /\ Cardinality(inflight) \in Nat
  BY JobSets DEF Settling!TypeOK
<1>1. ASSUME UNCHANGED <<jobQueue, inflight>> PROVE JobsListed' <= JobsListed
  BY <1>0, <1>1 DEF JobsListed
<1>2. ASSUME NEW m \in Settling!Jobs, jobQueue' = jobQueue, inflight' = inflight \ {m} PROVE JobsListed' <= JobsListed
  <2>1. Cardinality(inflight \ {m}) <= Cardinality(inflight) /\ Cardinality(inflight \ {m}) \in Nat
    BY <1>0, JobJoined, JobSets
  <2> QED
    BY <1>0, <1>2, <2>1 DEF JobsListed
<1>3. ASSUME NEW m \in Settling!Jobs, inflight' = inflight, jobQueue' = jobQueue \ {m} PROVE JobsListed' <= JobsListed
  <2>1. Cardinality(jobQueue \ {m}) <= Cardinality(jobQueue) /\ Cardinality(jobQueue \ {m}) \in Nat
    BY <1>0, JobJoined, JobSets
  <2> QED
    BY <1>0, <1>3, <2>1 DEF JobsListed
<1>4. ASSUME NEW m \in Settling!Jobs, Settling!Claim(m) PROVE JobsListed' <= JobsListed
  <2>1. /\ Cardinality(jobQueue \ {m}) = Cardinality(jobQueue) - 1
        /\ Cardinality(inflight \cup {m}) <= Cardinality(inflight) + 1
        /\ Cardinality(inflight \cup {m}) \in Nat
    BY <1>0, <1>4, JobJoined, JobSets DEF Settling!Claim
  <2>2. jobQueue' = jobQueue \ {m} /\ inflight' = inflight \cup {m}
    BY <1>4 DEF Settling!Claim
  <2> QED
    BY <1>0, <2>1, <2>2 DEF JobsListed
<1>5. ASSUME NEW m \in Settling!Jobs, Settling!Dispatches(m) PROVE JobsListed' <= JobsListed
  BY <1>1, <1>2, <1>4, <1>5 DEF Settling!Dispatches, Settling!Post, Settling!DispatchRead,
     Settling!DispatchJob, Settling!DispatchAsset, Settling!DispatchFails
<1>6. ASSUME NEW m \in Settling!Jobs, Settling!Cancels(m) PROVE JobsListed' <= JobsListed
  BY <1>1, <1>6 DEF Settling!Cancels, Settling!Cancel, Settling!CancelJob, Settling!CancelRelease
<1>10. ASSUME NEW m \in Settling!Jobs, Settling!Aborts(m) PROVE JobsListed' <= JobsListed
  BY <1>1, <1>3, <1>10 DEF Settling!Aborts, Settling!Abort, Settling!AbortStop, Settling!AbortRun,
     Settling!AbortJob
<1>7. ASSUME NEW m \in Settling!Jobs, Settling!Submits(m) PROVE JobsListed' <= JobsListed \/ Settling!Push(m)
  BY <1>1, <1>7 DEF Settling!Submits, Settling!Create, Settling!Count, Settling!Reject, Settling!Revert
<1>8. ASSUME NEW m \in Settling!Jobs, Settling!Completes(m) PROVE JobsListed' <= JobsListed
  BY <1>1, <1>8 DEF Settling!Completes, Settling!CompleteRead, Settling!CompleteFail,
     Settling!CompleteFailAsset, Settling!CompleteRelease, Settling!CompleteRend, Settling!CompleteState,
     Settling!CompleteDone, Settling!CompleteAdvance, Settling!Reclaim
<1>9. ASSUME NEW m \in Settling!Jobs, Settling!Encode(m) \/ Settling!Deliver(m) \/ Settling!Sweep(m) \/ Settling!Drop(m) \/ Settling!Recomputes(m)
      PROVE  JobsListed' <= JobsListed
  BY <1>1, <1>9 DEF Settling!Encode, Settling!Deliver, Settling!Sweep, Settling!Drop, Settling!Recomputes,
     Settling!RecomputeGet, Settling!RecomputeScan, Settling!RecomputeWrite
<1> QED
  BY <1>1, <1>5, <1>6, <1>7, <1>8, <1>9, <1>10 DEF Settling!Next, Settling!vars

\* What the step of a handler leaves of its task, and that no other task moves.
OnlyTask(k, i) == \A l \in Settling!Kinds, m \in Settling!Jobs : l # k \/ m # i => task'[<<l, m>>] = task[<<l, m>>]

LEMMA ToGives ==
  ASSUME Settling!TypeOK, NEW k \in Settling!Kinds, NEW i \in Settling!Jobs, NEW at \in Settling!Steps, Settling!To(k, i, at)
  PROVE  /\ task'[<<k, i>>].at = at /\ task'[<<k, i>>].ok = task[<<k, i>>].ok
         /\ task'[<<k, i>>].drop = task[<<k, i>>].drop /\ OnlyTask(k, i)
<1>1. PICK v \in Settling!Task : TaskMoves(k, i, v) /\ v.at = at /\ v.ok = task[<<k, i>>].ok /\ v.drop = task[<<k, i>>].drop
  BY ToMoves
<1>2. TaskBecomes(k, i, v)
  BY <1>1, TaskMoved
<1> QED
  BY <1>1, <1>2 DEF TaskBecomes, OnlyTask

LEMMA EndGives ==
  ASSUME Settling!TypeOK, NEW k \in Settling!Kinds, NEW i \in Settling!Jobs, Settling!End(k, i)
  PROVE  task'[<<k, i>>].at = "idle" /\ OnlyTask(k, i)
<1>1. TaskBecomes(k, i, Settling!NoTask) /\ Settling!NoTask.at = "idle"
  BY EndMoves, TaskMoved
<1> QED
  BY <1>1 DEF TaskBecomes, OnlyTask

LEMMA MovesOnly ==
  ASSUME Settling!TypeOK, NEW k \in Settling!Kinds, NEW i \in Settling!Jobs, \E v \in Settling!Task : TaskMoves(k, i, v)
  PROVE  OnlyTask(k, i)
BY TaskMoved DEF TaskBecomes, OnlyTask

\* Whose task a step moves.
LEMMA WhoseTask ==
  ASSUME Settling!TypeOK, NEW m \in Settling!Jobs
  PROVE  /\ Settling!Submits(m) => OnlyTask("submit", m)
         /\ Settling!Dispatches(m) => OnlyTask("dispatch", m)
         /\ Settling!Encode(m) => task' = task
         /\ Settling!Deliver(m) \/ Settling!Sweep(m) \/ Settling!Drop(m) \/ Settling!Completes(m) => OnlyTask("complete", m)
         /\ Settling!Cancels(m) => OnlyTask("cancel", m)
         /\ Settling!Aborts(m) => OnlyTask("abort", m)
         /\ Settling!Recomputes(m) => OnlyTask("complete", m) \/ OnlyTask("cancel", m) \/ OnlyTask("abort", m)
<1>1. Settling!Submits(m) => OnlyTask("submit", m)
  BY SubmitTask, MovesOnly DEF Settling!Kinds
<1>2. ASSUME Settling!Dispatches(m) PROVE OnlyTask("dispatch", m)
  <2>1. CASE task' = task
    BY <2>1 DEF OnlyTask
  <2> QED
    BY <1>2, <2>1, DispatchTask, MovesOnly DEF Settling!Kinds
<1>3. Settling!Encode(m) => task' = task
  BY DEF Settling!Encode
<1>4. ASSUME Settling!Deliver(m) \/ Settling!Sweep(m) \/ Settling!Drop(m) PROVE OnlyTask("complete", m)
  <2>1. \E v \in Settling!Task : TaskMoves("complete", m, v)
    BY <1>4, StartMoves DEF Settling!Deliver, Settling!Sweep, Settling!Drop
  <2> QED
    BY <2>1, MovesOnly DEF Settling!Kinds
<1>5. Settling!Completes(m) => OnlyTask("complete", m)
  BY CompleteTask, MovesOnly DEF Settling!Kinds
<1>6. ASSUME Settling!Cancels(m) PROVE OnlyTask("cancel", m)
  <2>1. \E v \in Settling!Task : TaskMoves("cancel", m, v)
    BY <1>6, CancelTask
  <2> QED
    BY <2>1, MovesOnly DEF Settling!Kinds
<1>7. ASSUME NEW k \in {"complete", "cancel", "abort"}, Settling!RecomputeGet(k, m) \/ Settling!RecomputeScan(k, m) \/ Settling!RecomputeWrite(k, m)
      PROVE  OnlyTask("complete", m) \/ OnlyTask("cancel", m) \/ OnlyTask("abort", m)
  <2>1. \E v \in Settling!Task : TaskMoves(k, m, v)
    BY <1>7, RecomputeTask
  <2>2. OnlyTask(k, m)
    BY <2>1, MovesOnly DEF Settling!Kinds
  <2> QED
    BY <2>2
<1>8. Settling!Recomputes(m) => OnlyTask("complete", m) \/ OnlyTask("cancel", m) \/ OnlyTask("abort", m)
  BY <1>7 DEF Settling!Recomputes
<1>9. Settling!Aborts(m) => OnlyTask("abort", m)
  BY AbortTask, MovesOnly DEF Settling!Kinds
<1> QED
  BY <1>1, <1>2, <1>3, <1>4, <1>5, <1>6, <1>8, <1>9

\* A submit is about to push only when its count found room.
LEMMA RoomFound ==
  ASSUME Settling!TypeOK, [Settling!Next]_(Settling!vars), NEW i \in Settling!Jobs, JobStep("submit", i)' = "push"
  PROVE  \/ JobStep("submit", i) = "push" /\ ~Settling!Push(i)
         \/ Settling!Count(i) /\ Settling!UnderCap
<1>1. ASSUME NEW m \in Settling!Jobs, Settling!Submits(m), m # i PROVE JobStep("submit", i)' = JobStep("submit", i)
  BY <1>1, WhoseTask DEF OnlyTask, JobStep, Settling!Kinds
<1>2. ASSUME NEW m \in Settling!Jobs, Settling!Dispatches(m) \/ Settling!Encode(m) \/ Settling!Deliver(m) \/ Settling!Sweep(m) \/ Settling!Drop(m) \/ Settling!Completes(m) \/ Settling!Cancels(m)
                              \/ Settling!Aborts(m) \/ Settling!Recomputes(m)
      PROVE  JobStep("submit", i)' = JobStep("submit", i)
  <2>1. task' = task \/ \E k \in Settling!Kinds \ {"submit"} : OnlyTask(k, m)
    BY <1>2, WhoseTask DEF Settling!Kinds
  <2> QED
    BY <2>1 DEF OnlyTask, JobStep, Settling!Kinds
<1>3. ASSUME NEW at \in Settling!Steps \ {"push"}, Settling!To("submit", i, at) PROVE FALSE
  BY <1>3, ToGives DEF JobStep, Settling!Kinds
<1>4. ~Settling!End("submit", i)
  BY EndGives DEF JobStep, Settling!Kinds
<1>5. ~Settling!Push(i)
  BY <1>4 DEF Settling!Push
<1>6. ASSUME Settling!Submits(i) PROVE Settling!Count(i) /\ Settling!UnderCap
  <2>1. ~\E piped \in BOOLEAN : Settling!Create(i, piped)
    BY <1>3 DEF Settling!Create, Settling!Steps
  <2>2. ~Settling!Reject(i) /\ ~Settling!Revert(i)
    BY <1>3, <1>4 DEF Settling!Reject, Settling!Revert, Settling!Steps
  <2>3. Settling!Count(i)
    BY <1>5, <1>6, <2>1, <2>2 DEF Settling!Submits
  <2>4. CASE ~Settling!UnderCap
    BY <1>3, <2>3, <2>4 DEF Settling!Count, Settling!Steps
  <2> QED
    BY <2>3, <2>4
<1>7. CASE UNCHANGED Settling!vars
  BY <1>5, <1>7 DEF Settling!vars, JobStep
<1>8. ASSUME JobStep("submit", i)' = JobStep("submit", i) PROVE JobStep("submit", i) = "push" /\ ~Settling!Push(i)
  BY <1>5, <1>8
<1> QED
  BY <1>1, <1>2, <1>6, <1>7, <1>8 DEF Settling!Next

LEMMA CapStep ==
  ASSUME SettlingConstants, ~Overlap, CapInv, [Settling!Next]_(Settling!vars)
  PROVE  CapInv'
<1>1. Settling!TypeOK /\ OneTask /\ Settling!WithinCap /\ Settling!TypeOK' /\ OneTask' /\ OneTaskMoves
  BY SettlingTypes, NextOne, OneKept DEF CapInv
<1>2. JobsListed \in Nat /\ JobsListed' \in Nat /\ Cap \in Nat
  <2>1. jobQueue \in SUBSET Settling!Jobs /\ inflight \in SUBSET Settling!Jobs /\ jobQueue' \in SUBSET Settling!Jobs /\ inflight' \in SUBSET Settling!Jobs
    BY <1>1 DEF Settling!TypeOK
  <2> QED
    BY <2>1, JobSets DEF JobsListed, SettlingConstants
<1>3. (Settling!WithinCap <=> JobsListed <= Cap) /\ (Settling!UnderCap <=> JobsListed < Cap)
  BY JobsSameCount DEF Settling!WithinCap, Settling!UnderCap, JobsListed
<1>4. (Settling!WithinCap' <=> JobsListed' <= Cap) /\ (Settling!UnderCap' <=> JobsListed' < Cap)
  BY JobsSameCount DEF Settling!WithinCap, Settling!UnderCap, JobsListed
<1>5. Settling!WithinCap'
  <2>1. CASE JobsListed' <= JobsListed
    BY <1>1, <1>2, <1>3, <1>4, <2>1
  <2>2. ASSUME NEW m \in Settling!Jobs, Settling!Push(m) PROVE Settling!WithinCap'
    <3>1. Settling!UnderCap /\ jobQueue' = jobQueue \cup {m} /\ inflight' = inflight
      BY <2>2 DEF Settling!Push, Settling!At, JobStep, CapInv
    <3>2. jobQueue \in SUBSET Settling!Jobs /\ inflight \in SUBSET Settling!Jobs
      BY <1>1 DEF Settling!TypeOK
    <3>3. /\ Cardinality(jobQueue \cup {m}) <= Cardinality(jobQueue) + 1 /\ Cardinality(jobQueue) \in Nat
          /\ Cardinality(inflight) \in Nat /\ Cardinality(jobQueue \cup {m}) \in Nat
      BY <3>2, JobJoined, JobSets
    <3>4. JobsListed' <= JobsListed + 1
      BY <3>1, <3>3 DEF JobsListed
    <3> QED
      BY <1>2, <1>3, <1>4, <3>1, <3>4
  <2> QED
    BY <1>1, <2>1, <2>2, ListsShrink
<1>6. ASSUME NEW i \in Settling!Jobs, JobStep("submit", i)' = "push" PROVE Settling!UnderCap'
  <2>1. CASE Settling!Count(i) /\ Settling!UnderCap
    BY <2>1 DEF Settling!Count, Settling!UnderCap
  <2>2. CASE JobStep("submit", i) = "push" /\ ~Settling!Push(i)
    <3>1. Settling!UnderCap
      BY <2>2 DEF CapInv
    <3>2. ASSUME NEW m \in Settling!Jobs, Settling!Push(m) PROVE FALSE
      <4>1. JobStep("submit", m) = "push"
        BY <3>2 DEF Settling!Push, Settling!At, JobStep
      <4>2. m = i
        BY <1>1, <2>2, <4>1 DEF OneTask, Settling!Kinds
      <4> QED
        BY <2>2, <3>2, <4>2
    <3>3. JobsListed' <= JobsListed
      BY <1>1, <3>2, ListsShrink
    <3> QED
      BY <1>2, <1>3, <1>4, <3>1, <3>3
  <2> QED
    BY <1>1, <1>6, <2>1, <2>2, RoomFound
<1> QED
  BY <1>1, <1>5, <1>6 DEF CapInv

(* While handlers do not overlap, the queue and the in-flight list never hold more
   than the cap, whichever calls fail. *)
THEOREM CapKept ==
  ASSUME SettlingConstants, ~Overlap
  PROVE  Settling!Spec => []Settling!WithinCap
<1>1. Settling!Init => CapInv
  <2> SUFFICES ASSUME Settling!Init PROVE CapInv
    OBVIOUS
  <2>1. Settling!TypeOK /\ \A k \in Settling!Kinds, i \in Settling!Jobs : JobStep(k, i) = "idle"
    BY SettlingStart
  <2>2. Settling!WithinCap
    BY FS_EmptySet, JobsSameCount DEF Settling!Init, Settling!WithinCap, SettlingConstants
  <2> QED
    BY <2>1, <2>2 DEF CapInv, OneTask, Settling!Kinds
<1>2. CapInv /\ [Settling!Next]_(Settling!vars) => CapInv'
  BY CapStep
<1>3. CapInv => Settling!WithinCap
  BY DEF CapInv
<1> QED
  BY <1>1, <1>2, <1>3, PTL DEF Settling!Spec

---------------------------------------------------------------------------
(* The ends of the jobs, and what they leave on the asset.                  *)

\* Handlers do not overlap and every dispatch is reported.
JobsCalm == SettlingConstants /\ ~Overlap /\ ~ReportFails

\* What a step for one job leaves of the others.
BesidesJob(m) ==
  /\ \A i \in Settling!Jobs \ {m} :
       /\ job'[i] = job[i] /\ enc'[i] = enc[i] /\ cb'[i] = cb[i]
       /\ (i \in out') = (i \in out) /\ (i \in jobQueue') = (i \in jobQueue)
       /\ (i \in inflight') = (i \in inflight) /\ (i \in stray') = (i \in stray)
  /\ asset'.rend \in {asset.rend, m}
TasksBesides(m) == \A k \in Settling!Kinds, i \in Settling!Jobs \ {m} : task'[<<k, i>>] = task[<<k, i>>]

JobFields == job \in [Settling!Jobs -> Settling!JobRecord] /\ enc \in [Settling!Jobs -> {"no", "run", "ok", "bad", "gone"}] /\ cb \in [Settling!Jobs -> 0..MaxTries]
          /\ asset \in JobAssets

LEMMA BesidesSubmit ==
  ASSUME Settling!TypeOK, NEW m \in Settling!Jobs, Settling!Submits(m)
  PROVE  BesidesJob(m)
<1>1. JobFields
  BY DEF Settling!TypeOK, JobFields, JobAssets
<1>2. ASSUME NEW piped \in BOOLEAN, Settling!Create(m, piped) PROVE BesidesJob(m)
  BY <1>1, <1>2, RecordMoves DEF Settling!Create, BesidesJob, Settling!JobStatus
<1>3. CASE Settling!Count(m) \/ Settling!Push(m)
  BY <1>3 DEF Settling!Count, Settling!Push, BesidesJob
<1>4. CASE Settling!Reject(m)
  BY <1>1, <1>4, RecordMoves DEF Settling!Reject, BesidesJob, Settling!JobStatus
<1>5. CASE Settling!Revert(m)
  <2>1. asset'.rend = asset.rend
    BY <1>1, <1>5, AssetMoves DEF Settling!Revert, Settling!AssetStatus, JobFields, JobAssets
  <2> QED
    BY <1>5, <2>1 DEF Settling!Revert, BesidesJob
<1> QED
  BY <1>2, <1>3, <1>4, <1>5 DEF Settling!Submits

LEMMA BesidesDispatch ==
  ASSUME Settling!TypeOK, NEW m \in Settling!Jobs, Settling!Dispatches(m)
  PROVE  BesidesJob(m)
<1>1. JobFields
  BY DEF Settling!TypeOK, JobFields, JobAssets
<1>2. CASE Settling!Claim(m) \/ Settling!DispatchRead(m) \/ Settling!DispatchFails(m)
  BY <1>2 DEF Settling!Claim, Settling!DispatchRead, Settling!DispatchFails, BesidesJob
<1>3. CASE Settling!Post(m)
  BY <1>1, <1>3 DEF Settling!Post, BesidesJob, JobFields
<1>4. CASE Settling!DispatchJob(m)
  BY <1>1, <1>4, RecordMoves DEF Settling!DispatchJob, BesidesJob, Settling!JobStatus
<1>5. CASE Settling!DispatchAsset(m)
  <2>1. asset'.rend = asset.rend
    BY <1>1, <1>5, AssetMoves DEF Settling!DispatchAsset, Settling!AssetStatus, JobFields, JobAssets
  <2> QED
    BY <1>5, <2>1 DEF Settling!DispatchAsset, BesidesJob
<1> QED
  BY <1>2, <1>3, <1>4, <1>5 DEF Settling!Dispatches

LEMMA BesidesEncode ==
  ASSUME Settling!TypeOK, NEW m \in Settling!Jobs, Settling!Encode(m) \/ Settling!Deliver(m) \/ Settling!Sweep(m) \/ Settling!Drop(m) \/ Settling!Cancels(m) \/ Settling!Aborts(m)
  PROVE  BesidesJob(m)
<1>1. JobFields
  BY DEF Settling!TypeOK, JobFields, JobAssets
<1>2. CASE Settling!Encode(m)
  BY <1>1, <1>2 DEF Settling!Encode, BesidesJob, JobFields
<1>3. CASE Settling!Deliver(m)
  BY <1>1, <1>3 DEF Settling!Deliver, BesidesJob, JobFields
<1>4. CASE Settling!Sweep(m) \/ Settling!Drop(m) \/ Settling!Cancel(m) \/ Settling!CancelRelease(m)
  BY <1>4 DEF Settling!Sweep, Settling!Drop, Settling!Cancel, Settling!CancelRelease, BesidesJob
<1>5. CASE Settling!AbortStop(m)
  BY <1>1, <1>5 DEF Settling!AbortStop, BesidesJob, JobFields
<1>6. CASE Settling!CancelJob(m) \/ Settling!AbortJob(m)
  BY <1>1, <1>6, RecordMoves DEF Settling!CancelJob, Settling!AbortJob, BesidesJob, Settling!JobStatus
<1>7. CASE Settling!Abort(m) \/ Settling!AbortRun(m)
  BY <1>7 DEF Settling!Abort, Settling!AbortRun, BesidesJob
<1> QED
  BY <1>2, <1>3, <1>4, <1>5, <1>6, <1>7 DEF Settling!Cancels, Settling!Aborts

LEMMA BesidesComplete ==
  ASSUME Settling!TypeOK, NEW m \in Settling!Jobs, Settling!Completes(m) \/ Settling!Recomputes(m)
  PROVE  BesidesJob(m)
<1>1. JobFields
  BY DEF Settling!TypeOK, JobFields, JobAssets
<1>2. CASE Settling!CompleteRead(m) \/ Settling!CompleteRelease(m) \/ Settling!CompleteAdvance(m)
  BY <1>2 DEF Settling!CompleteRead, Settling!CompleteRelease, Settling!CompleteAdvance, BesidesJob
<1>3. CASE Settling!CompleteFail(m)
  BY <1>1, <1>3 DEF Settling!CompleteFail, BesidesJob, JobFields
<1>4. CASE Settling!CompleteFailAsset(m)
  <2>1. asset'.rend = asset.rend
    BY <1>1, <1>4, AssetMoves DEF Settling!CompleteFailAsset, Settling!AssetStatus, JobFields, JobAssets
  <2> QED
    BY <1>4, <2>1 DEF Settling!CompleteFailAsset, BesidesJob
<1>5. CASE Settling!CompleteRend(m)
  BY <1>1, <1>5 DEF Settling!CompleteRend, BesidesJob, JobFields, JobAssets
<1>6. CASE Settling!CompleteState(m)
  <2>1. asset'.rend = asset.rend
    <3>1. Settling!Moved(asset, "processing") \in JobAssets /\ Settling!Moved(asset, "processing").rend = asset.rend
      BY <1>1, AssetMoves DEF Settling!AssetStatus, JobFields, JobAssets
    <3>2. Settling!Moved(Settling!Moved(asset, "processing"), "ready").rend = asset.rend /\ Settling!Moved(asset, "ready").rend = asset.rend
      BY <1>1, <3>1, AssetMoves DEF Settling!AssetStatus, JobFields, JobAssets
    <3> QED
      BY <1>6, <3>2 DEF Settling!CompleteState
  <2> QED
    BY <1>6, <2>1 DEF Settling!CompleteState, BesidesJob
<1>7. CASE Settling!CompleteDone(m)
  BY <1>1, <1>7 DEF Settling!CompleteDone, BesidesJob, JobFields
<1>8. CASE Settling!Reclaim(m)
  BY <1>1, <1>8 DEF Settling!Reclaim, BesidesJob, JobFields
<1>9. ASSUME NEW k \in {"complete", "cancel", "abort"}, Settling!RecomputeGet(k, m) \/ Settling!RecomputeScan(k, m) \/ Settling!RecomputeWrite(k, m)
      PROVE  BesidesJob(m)
  <2>1. CASE Settling!RecomputeGet(k, m) \/ Settling!RecomputeScan(k, m)
    BY <2>1 DEF Settling!RecomputeGet, Settling!RecomputeScan, BesidesJob
  <2>2. CASE Settling!RecomputeWrite(k, m)
    <3>1. task[<<k, m>>] \in Settling!Task
      BY <1>9 DEF Settling!TypeOK, Settling!Kinds
    <3>2. Settling!AfterTerminal(k, task[<<k, m>>]) \in Settling!AssetStatus
      BY <3>1 DEF Settling!AfterTerminal, Settling!Task, Settling!AssetStatus
    <3>3. asset'.rend = asset.rend
      BY <1>1, <2>2, <3>2, AssetMoves DEF Settling!RecomputeWrite, JobFields, JobAssets
    <3> QED
      BY <2>2, <3>3 DEF Settling!RecomputeWrite, BesidesJob
  <2> QED
    BY <1>9, <2>1, <2>2
<1> QED
  BY <1>2, <1>3, <1>4, <1>5, <1>6, <1>7, <1>8, <1>9 DEF Settling!Completes, Settling!Recomputes

LEMMA TasksStay ==
  ASSUME Settling!TypeOK, NEW m \in Settling!Jobs,
         Settling!Submits(m) \/ Settling!Dispatches(m) \/ Settling!Encode(m) \/ Settling!Deliver(m) \/ Settling!Sweep(m) \/ Settling!Drop(m) \/ Settling!Completes(m) \/ Settling!Cancels(m)
         \/ Settling!Aborts(m) \/ Settling!Recomputes(m)
  PROVE  TasksBesides(m)
<1>1. task' = task \/ \E k \in Settling!Kinds : OnlyTask(k, m)
  BY WhoseTask DEF Settling!Kinds
<1> QED
  BY <1>1 DEF TasksBesides, OnlyTask

LEMMA OthersFit ==
  ASSUME NEW m \in Settling!Jobs, NEW i \in Settling!Jobs \ {m}, BesidesJob(m), TasksBesides(m), JobFits(i)
  PROVE  JobFits(i)' /\ (HeldBy(i)' <=> HeldBy(i)) /\ JobStep("complete", i)' = JobStep("complete", i)
<1>1. \A k \in Settling!Kinds : JobStep(k, i)' = JobStep(k, i) /\ task'[<<k, i>>] = task[<<k, i>>]
  BY DEF TasksBesides, JobStep
<1>2. /\ JobStep("submit", i)' = JobStep("submit", i) /\ JobStep("dispatch", i)' = JobStep("dispatch", i)
      /\ JobStep("complete", i)' = JobStep("complete", i) /\ JobStep("cancel", i)' = JobStep("cancel", i)
      /\ JobStep("abort", i)' = JobStep("abort", i) /\ task'[<<"complete", i>>] = task[<<"complete", i>>]
  BY <1>1 DEF Settling!Kinds
<1>3. /\ job'[i] = job[i] /\ enc'[i] = enc[i] /\ cb'[i] = cb[i]
      /\ (i \in out' <=> i \in out) /\ (i \in jobQueue' <=> i \in jobQueue)
      /\ (i \in inflight' <=> i \in inflight) /\ (i \in stray' <=> i \in stray)
      /\ (asset'.rend = i => asset.rend = i)
  BY DEF BesidesJob
<1>4. TaskSteps(i)'
  BY <1>2 DEF JobFits, TaskSteps
<1>5. SubmitFits(i)'
  BY <1>2, <1>3 DEF JobFits, SubmitFits
<1>6. DispatchFits(i)'
  BY <1>2, <1>3 DEF JobFits, DispatchFits
<1>7. CompleteFits(i)'
  BY <1>2, <1>3 DEF JobFits, CompleteFits, LateTidied
<1>9. HeldBy(i)' <=> HeldBy(i)
  BY <1>2, <1>3 DEF HeldBy, Settling!Active, Settling!PostedLate
<1> QED
  BY <1>2, <1>4, <1>5, <1>6, <1>7, <1>9 DEF JobFits

\* A handler under way is alone, and so is one that starts.
LoneOf(k, m) == \A l \in Settling!Kinds, i \in Settling!Jobs : l # k \/ i # m => JobStep(l, i) = "idle" /\ JobStep(l, i)' = "idle"

LEMMA AloneGoes ==
  ASSUME OneTask, NEW k \in Settling!Kinds, NEW m \in Settling!Jobs, OnlyTask(k, m), JobStep(k, m) # "idle" \/ Settling!Quiet
  PROVE  LoneOf(k, m)
BY DEF OneTask, Settling!Quiet, OnlyTask, JobStep, LoneOf

LEMMA StartGives ==
  ASSUME Settling!TypeOK, NEW m \in Settling!Jobs, NEW ok \in BOOLEAN, NEW drop \in BOOLEAN, Settling!Start(m, ok, drop)
  PROVE  task'[<<"complete", m>>].at = "read" /\ task'[<<"complete", m>>].ok = ok /\ OnlyTask("complete", m)
<1>1. PICK v \in Settling!Task : TaskMoves("complete", m, v) /\ v.at = "read" /\ v.ok = ok
  BY StartMoves
<1>2. TaskBecomes("complete", m, v)
  BY <1>1, TaskMoved DEF Settling!Kinds
<1> QED
  BY <1>1, <1>2 DEF TaskBecomes, OnlyTask

\* What a step for a job owes the asset: who holds it while it is `processing`, and that
\* no completion is about to write `done` meanwhile.
AssetHands(m) ==
  /\ asset'.st = "processing" => asset.st = "processing" \/ HeldBy(m)'
  /\ HeldBy(m) /\ asset'.st = "processing" => HeldBy(m)' \/ \E i \in Settling!Jobs \ {m} : HeldBy(i)
  /\ JobStep("complete", m)' = "done" => asset'.st # "processing"
  /\ asset'.st = asset.st \/ \E k \in Settling!Kinds : JobStep(k, m) # "idle"

LEMMA SubmitFit ==
  ASSUME JobsCalm, Settling!TypeOK, OneTask, AssetHeld, NEW m \in Settling!Jobs, JobFits(m), Settling!Submits(m)
  PROVE  JobFits(m)' /\ AssetHands(m)
<1>1. JobFields
  BY DEF Settling!TypeOK, JobFields, JobAssets
<1>2. ASSUME NEW piped \in BOOLEAN, Settling!Create(m, piped) PROVE JobFits(m)' /\ AssetHands(m)
  <2>1. Settling!Quiet /\ JobStep("submit", m) = "idle"
    BY <1>2 DEF Settling!Create, Settling!MayStart, JobsCalm, Settling!Quiet, JobStep, Settling!Kinds
  <2>2. JobStep("submit", m)' = "count" /\ OnlyTask("submit", m)
    BY <1>2, ToGives DEF Settling!Create, JobStep, Settling!Kinds, Settling!Steps
  <2>3. LoneOf("submit", m)
    BY <2>1, <2>2, AloneGoes DEF LoneOf, Settling!Kinds
  <2>4. /\ JobStep("dispatch", m) = "idle" /\ JobStep("dispatch", m)' = "idle"
        /\ JobStep("complete", m) = "idle" /\ JobStep("complete", m)' = "idle"
        /\ JobStep("cancel", m) = "idle" /\ JobStep("cancel", m)' = "idle"
        /\ JobStep("abort", m) = "idle" /\ JobStep("abort", m)' = "idle"
    BY <2>3 DEF LoneOf, Settling!Kinds
  <2>5. job'[m].st = "queued" /\ job'[m].late = job[m].late
    BY <1>2, RecordMoves DEF Settling!Create, Settling!JobStatus
  <2>10. JobFits(m)'
    BY <1>1, <1>2, <2>1, <2>2, <2>4, <2>5 DEF Settling!Create, JobFits, TaskSteps, SubmitFits, DispatchFits,
       CompleteFits, LateTidied
  <2>11. AssetHands(m)
    BY <1>1, <1>2, <2>1, <2>2, <2>4, <2>5 DEF Settling!Create, AssetHands, HeldBy, Settling!Active,
       Settling!PostedLate, Settling!Kinds, JobFits, TaskSteps, SubmitFits, DispatchFits, CompleteFits
  <2> QED
    BY <2>10, <2>11
<1>3. CASE Settling!Count(m)
  <2>1. JobStep("submit", m) = "count"
    BY <1>3 DEF Settling!Count, Settling!At, JobStep
  <2>2. JobStep("submit", m)' \in {"push", "reject"} /\ OnlyTask("submit", m)
    BY <1>3, ToGives DEF Settling!Count, JobStep, Settling!Kinds, Settling!Steps
  <2>3. LoneOf("submit", m)
    BY <2>1, <2>2, AloneGoes DEF LoneOf, Settling!Kinds
  <2>4. /\ JobStep("dispatch", m) = "idle" /\ JobStep("dispatch", m)' = "idle"
        /\ JobStep("complete", m) = "idle" /\ JobStep("complete", m)' = "idle"
        /\ JobStep("cancel", m) = "idle" /\ JobStep("cancel", m)' = "idle"
        /\ JobStep("abort", m) = "idle" /\ JobStep("abort", m)' = "idle"
    BY <2>3 DEF LoneOf, Settling!Kinds
  <2>10. JobFits(m)'
    BY <1>1, <1>3, <2>1, <2>2, <2>4 DEF Settling!Count, JobFits, TaskSteps, SubmitFits, DispatchFits,
       CompleteFits, LateTidied
  <2>11. AssetHands(m)
    BY <1>1, <1>3, <2>1, <2>2, <2>4 DEF Settling!Count, AssetHands, HeldBy, Settling!Active,
       Settling!PostedLate, Settling!Kinds, JobFits, TaskSteps, SubmitFits, DispatchFits, CompleteFits
  <2> QED
    BY <2>10, <2>11
<1>4. CASE Settling!Push(m)
  <2>1. JobStep("submit", m) = "push"
    BY <1>4 DEF Settling!Push, Settling!At, JobStep
  <2>2. JobStep("submit", m)' = "idle" /\ OnlyTask("submit", m)
    BY <1>4, EndGives DEF Settling!Push, JobStep, Settling!Kinds
  <2>3. LoneOf("submit", m)
    BY <2>1, <2>2, AloneGoes DEF LoneOf, Settling!Kinds
  <2>4. /\ JobStep("dispatch", m) = "idle" /\ JobStep("dispatch", m)' = "idle"
        /\ JobStep("complete", m) = "idle" /\ JobStep("complete", m)' = "idle"
        /\ JobStep("cancel", m) = "idle" /\ JobStep("cancel", m)' = "idle"
        /\ JobStep("abort", m) = "idle" /\ JobStep("abort", m)' = "idle"
    BY <2>3 DEF LoneOf, Settling!Kinds
  <2>10. JobFits(m)'
    BY <1>1, <1>4, <2>1, <2>2, <2>4 DEF Settling!Push, JobFits, TaskSteps, SubmitFits, DispatchFits,
       CompleteFits, LateTidied
  <2>11. AssetHands(m)
    BY <1>1, <1>4, <2>1, <2>2, <2>4 DEF Settling!Push, AssetHands, HeldBy, Settling!Active,
       Settling!PostedLate, Settling!Kinds, JobFits, TaskSteps, SubmitFits, DispatchFits, CompleteFits
  <2> QED
    BY <2>10, <2>11
<1>5. CASE Settling!Reject(m)
  <2>1. JobStep("submit", m) = "reject"
    BY <1>5 DEF Settling!Reject, Settling!At, JobStep
  <2>5. Settling!ValidJob(job[m].st, "failed") /\ job[m].st = "queued" /\ job'[m].st = "failed" /\ job'[m].late = job[m].late
    BY <1>5, <2>1, RecordMoves DEF Settling!Reject, Settling!JobStatus, JobFits, SubmitFits, Settling!ValidJob,
       Settling!JobAllowed
  <2>2. JobStep("submit", m)' = "revert" /\ OnlyTask("submit", m)
    BY <1>5, <2>5, ToGives DEF Settling!Reject, JobStep, Settling!Kinds, Settling!Steps
  <2>3. LoneOf("submit", m)
    BY <2>1, <2>2, AloneGoes DEF LoneOf, Settling!Kinds
  <2>4. /\ JobStep("dispatch", m) = "idle" /\ JobStep("dispatch", m)' = "idle"
        /\ JobStep("complete", m) = "idle" /\ JobStep("complete", m)' = "idle"
        /\ JobStep("cancel", m) = "idle" /\ JobStep("cancel", m)' = "idle"
        /\ JobStep("abort", m) = "idle" /\ JobStep("abort", m)' = "idle"
    BY <2>3 DEF LoneOf, Settling!Kinds
  <2>10. JobFits(m)'
    BY <1>1, <1>5, <2>1, <2>2, <2>4, <2>5 DEF Settling!Reject, JobFits, TaskSteps, SubmitFits, DispatchFits,
       CompleteFits, LateTidied
  <2>11. AssetHands(m)
    BY <1>1, <1>5, <2>1, <2>2, <2>4, <2>5 DEF Settling!Reject, AssetHands, HeldBy, Settling!Active,
       Settling!PostedLate, Settling!Kinds, JobFits, TaskSteps, SubmitFits, DispatchFits, CompleteFits
  <2> QED
    BY <2>10, <2>11
<1>6. CASE Settling!Revert(m)
  <2>1. JobStep("submit", m) = "revert"
    BY <1>6 DEF Settling!Revert, Settling!At, JobStep
  <2>2. JobStep("submit", m)' = "idle" /\ OnlyTask("submit", m)
    BY <1>6, EndGives DEF Settling!Revert, JobStep, Settling!Kinds
  <2>3. LoneOf("submit", m)
    BY <2>1, <2>2, AloneGoes DEF LoneOf, Settling!Kinds
  <2>4. /\ JobStep("dispatch", m) = "idle" /\ JobStep("dispatch", m)' = "idle"
        /\ JobStep("complete", m) = "idle" /\ JobStep("complete", m)' = "idle"
        /\ JobStep("cancel", m) = "idle" /\ JobStep("cancel", m)' = "idle"
        /\ JobStep("abort", m) = "idle" /\ JobStep("abort", m)' = "idle"
    BY <2>3 DEF LoneOf, Settling!Kinds
  <2>5. asset'.rend = asset.rend /\ asset'.st # "processing"
    BY <1>1, <1>6, AssetMoves DEF Settling!Revert, Settling!AssetStatus, JobFields, JobAssets,
       Settling!ValidAsset, Settling!AssetAllowed
  <2>10. JobFits(m)'
    BY <1>1, <1>6, <2>1, <2>2, <2>4, <2>5 DEF Settling!Revert, JobFits, TaskSteps, SubmitFits, DispatchFits,
       CompleteFits, LateTidied
  <2>11. AssetHands(m)
    BY <1>1, <1>6, <2>1, <2>2, <2>4, <2>5 DEF Settling!Revert, AssetHands, HeldBy, Settling!Active,
       Settling!PostedLate, Settling!Kinds, JobFits, TaskSteps, SubmitFits, DispatchFits, CompleteFits
  <2> QED
    BY <2>10, <2>11
<1> QED
  BY <1>2, <1>3, <1>4, <1>5, <1>6 DEF Settling!Submits

LEMMA DispatchFit ==
  ASSUME JobsCalm, Settling!TypeOK, OneTask, AssetHeld, NEW m \in Settling!Jobs, JobFits(m), Settling!Dispatches(m)
  PROVE  JobFits(m)' /\ AssetHands(m)
<1>1. JobFields
  BY DEF Settling!TypeOK, JobFields, JobAssets
<1>2. CASE Settling!Claim(m)
  <2>1. JobStep("complete", m)' = JobStep("complete", m) /\ JobStep("submit", m)' = JobStep("submit", m)
        /\ JobStep("dispatch", m)' = JobStep("dispatch", m) /\ JobStep("cancel", m)' = JobStep("cancel", m)
        /\ JobStep("abort", m)' = JobStep("abort", m)
    BY <1>2 DEF Settling!Claim, JobStep
  <2>10. JobFits(m)'
    BY <1>2, <2>1 DEF Settling!Claim, JobFits, TaskSteps, SubmitFits, DispatchFits, CompleteFits, LateTidied
  <2>11. AssetHands(m)
    BY <1>2, <2>1 DEF Settling!Claim, AssetHeld, AssetHands, HeldBy, Settling!Active, Settling!PostedLate,
       Settling!Kinds, JobFits, TaskSteps, SubmitFits, DispatchFits, CompleteFits
  <2> QED
    BY <2>10, <2>11
<1>4. CASE Settling!Post(m)
  <2>1. Settling!Quiet /\ JobStep("dispatch", m) = "idle"
    BY <1>4 DEF Settling!Post, JobsCalm, Settling!Quiet, JobStep, Settling!Kinds
  <2>2. JobStep("dispatch", m)' = "read" /\ OnlyTask("dispatch", m)
    BY <1>4, ToGives DEF Settling!Post, JobStep, Settling!Kinds, Settling!Steps
  <2>3. LoneOf("dispatch", m)
    BY <2>1, <2>2, AloneGoes DEF LoneOf, Settling!Kinds
  <2>4. /\ JobStep("submit", m) = "idle" /\ JobStep("submit", m)' = "idle"
        /\ JobStep("complete", m) = "idle" /\ JobStep("complete", m)' = "idle"
        /\ JobStep("cancel", m) = "idle" /\ JobStep("cancel", m)' = "idle"
        /\ JobStep("abort", m) = "idle" /\ JobStep("abort", m)' = "idle"
    BY <2>3 DEF LoneOf, Settling!Kinds
  <2>5. enc[m] = "no" /\ enc'[m] = "run" /\ (m \in stray => m \in stray')
        /\ (job[m].st = "queued" \/ m \in stray')
    BY <1>1, <1>4 DEF Settling!Post, JobFields
  <2>10. JobFits(m)'
    BY <1>1, <1>4, <2>1, <2>2, <2>4, <2>5 DEF Settling!Post, JobFits, TaskSteps, SubmitFits, DispatchFits,
       CompleteFits, LateTidied
  <2>11. AssetHands(m)
    BY <1>1, <1>4, <2>1, <2>2, <2>4, <2>5 DEF Settling!Post, AssetHands, HeldBy, Settling!Active,
       Settling!PostedLate, Settling!Kinds, JobFits, TaskSteps, SubmitFits, DispatchFits, CompleteFits
  <2> QED
    BY <2>10, <2>11
<1>5. CASE Settling!DispatchRead(m)
  <2>1. JobStep("dispatch", m) = "read"
    BY <1>5 DEF Settling!DispatchRead, Settling!At, JobStep
  <2>2. JobStep("dispatch", m)' = (IF job[m].st = "queued" THEN "job" ELSE "asset") /\ OnlyTask("dispatch", m)
    BY <1>5, <2>1, ToGives DEF Settling!DispatchRead, JobStep, Settling!Kinds, Settling!Steps
  <2>3. LoneOf("dispatch", m)
    BY <2>1, <2>2, AloneGoes DEF LoneOf, Settling!Kinds
  <2>4. /\ JobStep("submit", m) = "idle" /\ JobStep("submit", m)' = "idle"
        /\ JobStep("complete", m) = "idle" /\ JobStep("complete", m)' = "idle"
        /\ JobStep("cancel", m) = "idle" /\ JobStep("cancel", m)' = "idle"
        /\ JobStep("abort", m) = "idle" /\ JobStep("abort", m)' = "idle"
    BY <2>3 DEF LoneOf, Settling!Kinds
  <2>10. JobFits(m)'
    BY <1>1, <1>5, <2>1, <2>2, <2>4 DEF Settling!DispatchRead, JobFits, TaskSteps, SubmitFits, DispatchFits,
       CompleteFits, LateTidied
  <2>11. AssetHands(m)
    BY <1>1, <1>5, <2>1, <2>2, <2>4 DEF Settling!DispatchRead, AssetHands, HeldBy, Settling!Active,
       Settling!PostedLate, Settling!Kinds, JobFits, TaskSteps, SubmitFits, DispatchFits, CompleteFits
  <2> QED
    BY <2>10, <2>11
<1>6. CASE Settling!DispatchJob(m)
  <2>1. JobStep("dispatch", m) = "job"
    BY <1>6 DEF Settling!DispatchJob, Settling!At, JobStep
  <2>2. JobStep("dispatch", m)' \in {"idle", "asset"} /\ OnlyTask("dispatch", m)
    BY <1>6, EndGives, ToGives DEF Settling!DispatchJob, JobStep, Settling!Kinds, Settling!Steps
  <2>3. LoneOf("dispatch", m)
    BY <2>1, <2>2, AloneGoes DEF LoneOf, Settling!Kinds
  <2>4. /\ JobStep("submit", m) = "idle" /\ JobStep("submit", m)' = "idle"
        /\ JobStep("complete", m) = "idle" /\ JobStep("complete", m)' = "idle"
        /\ JobStep("cancel", m) = "idle" /\ JobStep("cancel", m)' = "idle"
        /\ JobStep("abort", m) = "idle" /\ JobStep("abort", m)' = "idle"
    BY <2>3 DEF LoneOf, Settling!Kinds
  <2>5. job[m].st = "queued" /\ job'[m].st = "running" /\ job'[m].late = job[m].late
    BY <1>6, <2>1, RecordMoves DEF Settling!DispatchJob, Settling!JobStatus, JobFits, DispatchFits,
       Settling!ValidJob, Settling!JobAllowed
  <2>10. JobFits(m)'
    BY <1>1, <1>6, <2>1, <2>2, <2>4, <2>5 DEF Settling!DispatchJob, JobFits, TaskSteps, SubmitFits,
       DispatchFits, CompleteFits, LateTidied
  <2>11. AssetHands(m)
    BY <1>1, <1>6, <2>1, <2>2, <2>4, <2>5 DEF Settling!DispatchJob, AssetHands, HeldBy, Settling!Active,
       Settling!PostedLate, Settling!Kinds, JobFits, TaskSteps, SubmitFits, DispatchFits, CompleteFits
  <2> QED
    BY <2>10, <2>11
<1>7. CASE Settling!DispatchAsset(m)
  <2>1. JobStep("dispatch", m) = "asset"
    BY <1>7 DEF Settling!DispatchAsset, Settling!At, JobStep
  <2>2. JobStep("dispatch", m)' = "idle" /\ OnlyTask("dispatch", m)
    BY <1>7, EndGives DEF Settling!DispatchAsset, JobStep, Settling!Kinds
  <2>3. LoneOf("dispatch", m)
    BY <2>1, <2>2, AloneGoes DEF LoneOf, Settling!Kinds
  <2>4. /\ JobStep("submit", m) = "idle" /\ JobStep("submit", m)' = "idle"
        /\ JobStep("complete", m) = "idle" /\ JobStep("complete", m)' = "idle"
        /\ JobStep("cancel", m) = "idle" /\ JobStep("cancel", m)' = "idle"
        /\ JobStep("abort", m) = "idle" /\ JobStep("abort", m)' = "idle"
    BY <2>3 DEF LoneOf, Settling!Kinds
  <2>5. asset'.rend = asset.rend
    BY <1>1, <1>7, AssetMoves DEF Settling!DispatchAsset, Settling!AssetStatus, JobFields, JobAssets
  <2>10. JobFits(m)'
    BY <1>1, <1>7, <2>1, <2>2, <2>4, <2>5 DEF Settling!DispatchAsset, JobFits, TaskSteps, SubmitFits,
       DispatchFits, CompleteFits, LateTidied
  <2>11. AssetHands(m)
    BY <1>1, <1>7, <2>1, <2>2, <2>4, <2>5 DEF Settling!DispatchAsset, AssetHands, HeldBy, Settling!Active,
       Settling!PostedLate, Settling!Kinds, JobFits, TaskSteps, SubmitFits, DispatchFits, CompleteFits
  <2> QED
    BY <2>10, <2>11
<1>8. ~Settling!DispatchFails(m)
  BY DEF Settling!DispatchFails, JobsCalm
<1> QED
  BY <1>2, <1>4, <1>5, <1>6, <1>7, <1>8 DEF Settling!Dispatches

LEMMA EncodeFit ==
  ASSUME JobsCalm, Settling!TypeOK, OneTask, AssetHeld, NEW m \in Settling!Jobs, JobFits(m), Settling!Encode(m) \/ Settling!Deliver(m) \/ Settling!Sweep(m) \/ Settling!Drop(m)
  PROVE  JobFits(m)' /\ AssetHands(m)
<1>1. JobFields
  BY DEF Settling!TypeOK, JobFields, JobAssets
<1>2. CASE Settling!Encode(m)
  <2>1. JobStep("complete", m)' = JobStep("complete", m) /\ JobStep("submit", m)' = JobStep("submit", m)
        /\ JobStep("dispatch", m)' = JobStep("dispatch", m) /\ JobStep("cancel", m)' = JobStep("cancel", m)
        /\ JobStep("abort", m)' = JobStep("abort", m)
        /\ task' = task
    BY <1>2 DEF Settling!Encode, JobStep
  <2>2. enc[m] = "run" /\ enc'[m] \in {"ok", "bad", "gone"} /\ (enc'[m] = "ok" => cb'[m] = MaxTries)
        /\ (enc'[m] # "ok" => cb'[m] = cb[m])
    BY <1>1, <1>2 DEF Settling!Encode, JobFields
  <2>3. cb'[m] > 0 => enc'[m] = "ok"
    BY <2>2 DEF JobFits, CompleteFits
  <2>4. enc'[m] = "ok" => cb'[m] # 0
    BY <2>2 DEF JobsCalm, SettlingConstants
  <2>10. JobFits(m)'
    BY <1>2, <2>1, <2>2, <2>3, <2>4 DEF Settling!Encode, JobFits, TaskSteps, SubmitFits, DispatchFits,
       CompleteFits, LateTidied
  <2>11. AssetHands(m)
    BY <1>2, <2>1, <2>2, <2>3, <2>4 DEF Settling!Encode, AssetHeld, AssetHands, HeldBy, Settling!Active,
       Settling!PostedLate, Settling!Kinds, JobFits, TaskSteps, SubmitFits, DispatchFits, CompleteFits
  <2> QED
    BY <2>10, <2>11
<1>3. CASE Settling!Deliver(m)
  <2>1. Settling!Quiet /\ JobStep("complete", m) = "idle"
    BY <1>3 DEF Settling!Deliver, Settling!MayStart, JobsCalm, Settling!Quiet, JobStep, Settling!Kinds
  <2>2. JobStep("complete", m)' = "read" /\ OnlyTask("complete", m) /\ task'[<<"complete", m>>].ok
    BY <1>3, StartGives DEF Settling!Deliver, JobStep
  <2>3. LoneOf("complete", m)
    BY <2>1, <2>2, AloneGoes DEF LoneOf, Settling!Kinds
  <2>4. /\ JobStep("submit", m) = "idle" /\ JobStep("submit", m)' = "idle"
        /\ JobStep("dispatch", m) = "idle" /\ JobStep("dispatch", m)' = "idle"
        /\ JobStep("cancel", m) = "idle" /\ JobStep("cancel", m)' = "idle"
        /\ JobStep("abort", m) = "idle" /\ JobStep("abort", m)' = "idle"
    BY <2>3 DEF LoneOf, Settling!Kinds
  <2>5. cb[m] > 0 /\ enc[m] = "ok" /\ cb'[m] = cb[m] - 1 /\ cb[m] \in Nat /\ job[m].st \in {"running", "done", "failed", "cancelled"}
    BY <1>1, <1>3, <2>4 DEF Settling!Deliver, JobFields, Settling!JobRecord, Settling!JobStatus, JobFits,
       CompleteFits, DispatchFits, JobsCalm, SettlingConstants
  <2>10. JobFits(m)'
    BY <1>1, <1>3, <2>1, <2>2, <2>4, <2>5 DEF Settling!Deliver, JobFits, TaskSteps, SubmitFits, DispatchFits,
       CompleteFits, LateTidied
  <2>11. AssetHands(m)
    BY <1>1, <1>3, <2>1, <2>2, <2>4, <2>5 DEF Settling!Deliver, AssetHands, HeldBy, Settling!Active,
       Settling!PostedLate, Settling!Kinds, JobFits, TaskSteps, SubmitFits, DispatchFits, CompleteFits
  <2> QED
    BY <2>10, <2>11
<1>4. CASE Settling!Sweep(m)
  <2>1. Settling!Quiet /\ JobStep("complete", m) = "idle"
    BY <1>4 DEF Settling!Sweep, Settling!MayStart, JobsCalm, Settling!Quiet, JobStep, Settling!Kinds
  <2>2. JobStep("complete", m)' = "read" /\ OnlyTask("complete", m) /\ ~task'[<<"complete", m>>].ok
    BY <1>4, StartGives DEF Settling!Sweep, JobStep
  <2>3. LoneOf("complete", m)
    BY <2>1, <2>2, AloneGoes DEF LoneOf, Settling!Kinds
  <2>4. /\ JobStep("submit", m) = "idle" /\ JobStep("submit", m)' = "idle"
        /\ JobStep("dispatch", m) = "idle" /\ JobStep("dispatch", m)' = "idle"
        /\ JobStep("cancel", m) = "idle" /\ JobStep("cancel", m)' = "idle"
        /\ JobStep("abort", m) = "idle" /\ JobStep("abort", m)' = "idle"
    BY <2>3 DEF LoneOf, Settling!Kinds
  <2>5. job[m].st = "running" /\ enc[m] # "no"
    BY <1>4, <2>1, <2>4 DEF Settling!Sweep, Settling!Active, JobFits, DispatchFits
  <2>10. JobFits(m)'
    BY <1>1, <1>4, <2>1, <2>2, <2>4, <2>5 DEF Settling!Sweep, JobFits, TaskSteps, SubmitFits, DispatchFits,
       CompleteFits, LateTidied
  <2>11. AssetHands(m)
    BY <1>1, <1>4, <2>1, <2>2, <2>4, <2>5 DEF Settling!Sweep, AssetHands, HeldBy, Settling!Active,
       Settling!PostedLate, Settling!Kinds, JobFits, TaskSteps, SubmitFits, DispatchFits, CompleteFits
  <2> QED
    BY <2>10, <2>11
<1>5. CASE Settling!Drop(m)
  <2>1. Settling!Quiet /\ JobStep("complete", m) = "idle"
    BY <1>5 DEF Settling!Drop, Settling!MayStart, JobsCalm, Settling!Quiet, JobStep, Settling!Kinds
  <2>2. JobStep("complete", m)' = "read" /\ OnlyTask("complete", m) /\ ~task'[<<"complete", m>>].ok
    BY <1>5, StartGives DEF Settling!Drop, JobStep
  <2>3. LoneOf("complete", m)
    BY <2>1, <2>2, AloneGoes DEF LoneOf, Settling!Kinds
  <2>4. /\ JobStep("submit", m) = "idle" /\ JobStep("submit", m)' = "idle"
        /\ JobStep("dispatch", m) = "idle" /\ JobStep("dispatch", m)' = "idle"
        /\ JobStep("cancel", m) = "idle" /\ JobStep("cancel", m)' = "idle"
        /\ JobStep("abort", m) = "idle" /\ JobStep("abort", m)' = "idle"
    BY <2>3 DEF LoneOf, Settling!Kinds
  <2>5. job[m].st = "running" /\ enc[m] # "no"
    BY <1>5, <2>1, <2>4 DEF Settling!Drop, Settling!Active, JobFits, DispatchFits
  <2>10. JobFits(m)'
    BY <1>1, <1>5, <2>1, <2>2, <2>4, <2>5 DEF Settling!Drop, JobFits, TaskSteps, SubmitFits, DispatchFits,
       CompleteFits, LateTidied
  <2>11. AssetHands(m)
    BY <1>1, <1>5, <2>1, <2>2, <2>4, <2>5 DEF Settling!Drop, AssetHands, HeldBy, Settling!Active,
       Settling!PostedLate, Settling!Kinds, JobFits, TaskSteps, SubmitFits, DispatchFits, CompleteFits
  <2> QED
    BY <2>10, <2>11
<1> QED
  BY <1>2, <1>3, <1>4, <1>5

LEMMA StateMoves ==
  ASSUME asset \in JobAssets
  PROVE  /\ Settling!Moved(asset, "ready").st = "ready" /\ Settling!Moved(asset, "ready").rend = asset.rend
         /\ Settling!Moved(Settling!Moved(asset, "processing"), "ready").st = "ready"
         /\ Settling!Moved(Settling!Moved(asset, "processing"), "ready").rend = asset.rend
<1>1. Settling!Moved(asset, "processing") \in JobAssets /\ Settling!Moved(asset, "processing").rend = asset.rend
  BY AssetMoves DEF Settling!AssetStatus, JobAssets
<1> QED
  BY <1>1, AssetMoves DEF Settling!AssetStatus, JobAssets

LEMMA CompleteFit ==
  ASSUME JobsCalm, Settling!TypeOK, OneTask, AssetHeld, NEW m \in Settling!Jobs, JobFits(m), Settling!Completes(m)
  PROVE  JobFits(m)' /\ AssetHands(m)
<1>1. JobFields
  BY DEF Settling!TypeOK, JobFields, JobAssets
<1>2. CASE Settling!CompleteRead(m)
  <2>1. JobStep("complete", m) = "read"
    BY <1>2 DEF Settling!CompleteRead, Settling!At, JobStep
  <2>2. JobStep("complete", m)' = Settling!Branch(job[m], task[<<"complete", m>>].ok) /\ OnlyTask("complete", m)
    <3>1. Settling!Branch(job[m], task[<<"complete", m>>].ok) \in {"idle", "reclaim", "rend", "fail"}
      BY DEF Settling!Branch
    <3> QED
      BY <1>2, <3>1, EndGives, ToGives DEF Settling!CompleteRead, JobStep, Settling!Kinds, Settling!Steps
  <2>3. LoneOf("complete", m)
    BY <2>1, <2>2, AloneGoes DEF LoneOf, Settling!Kinds
  <2>4. /\ JobStep("submit", m) = "idle" /\ JobStep("submit", m)' = "idle"
        /\ JobStep("dispatch", m) = "idle" /\ JobStep("dispatch", m)' = "idle"
        /\ JobStep("cancel", m) = "idle" /\ JobStep("cancel", m)' = "idle"
        /\ JobStep("abort", m) = "idle" /\ JobStep("abort", m)' = "idle"
    BY <2>3 DEF LoneOf, Settling!Kinds
  <2>5. job[m].st \in Settling!JobStatus /\ job[m].drop \in BOOLEAN /\ task[<<"complete", m>>].ok \in BOOLEAN
    BY <1>1 DEF JobFields, Settling!JobRecord, Settling!TypeOK, Settling!Task, Settling!Kinds
  <2>6. /\ task[<<"complete", m>>].ok => enc[m] = "ok"
        /\ ~task[<<"complete", m>>].ok => job[m].st = "running"
    BY <2>1, <2>5 DEF JobFits, CompleteFits
  <2>7. enc[m] = "ok" => job[m].st \in {"running", "done", "failed", "cancelled"}
    BY <2>4, <2>5 DEF JobFits, DispatchFits, Settling!JobStatus
  <2>8. \/ JobStep("complete", m)' = "reclaim" /\ job[m].st = "cancelled"
        \/ JobStep("complete", m)' = "idle" /\ job[m].st \in {"done", "failed"}
        \/ JobStep("complete", m)' = "rend" /\ job[m].st \in {"running", "failed"}
        \/ JobStep("complete", m)' = "fail" /\ job[m].st = "running" /\ ~task[<<"complete", m>>].ok
    BY <2>2, <2>5, <2>6, <2>7 DEF Settling!Branch, Settling!JobStatus
  <2>10. JobFits(m)'
    BY <1>1, <1>2, <2>1, <2>4, <2>6, <2>8 DEF Settling!CompleteRead, JobFits, TaskSteps, SubmitFits,
       DispatchFits, CompleteFits, LateTidied
  <2>11. AssetHands(m)
    BY <1>1, <1>2, <2>1, <2>4, <2>6, <2>8 DEF Settling!CompleteRead, AssetHands, HeldBy, Settling!Active,
       Settling!PostedLate, Settling!Kinds, JobFits, TaskSteps, SubmitFits, DispatchFits, CompleteFits
  <2> QED
    BY <2>10, <2>11
<1>3. CASE Settling!CompleteFail(m)
  <2>1. JobStep("complete", m) = "fail"
    BY <1>3 DEF Settling!CompleteFail, Settling!At, JobStep
  <2>5. Settling!ValidJob(job[m].st, "failed") /\ job[m].st = "running" /\ job'[m].st = "failed" /\ job'[m].late = job[m].late
    BY <1>1, <1>3, <2>1 DEF Settling!CompleteFail, JobFields, Settling!JobRecord, JobFits, CompleteFits,
       Settling!ValidJob, Settling!JobAllowed
  <2>2. JobStep("complete", m)' = "failasset" /\ OnlyTask("complete", m)
    BY <1>3, <2>5, ToGives DEF Settling!CompleteFail, JobStep, Settling!Kinds, Settling!Steps
  <2>3. LoneOf("complete", m)
    BY <2>1, <2>2, AloneGoes DEF LoneOf, Settling!Kinds
  <2>4. /\ JobStep("submit", m) = "idle" /\ JobStep("submit", m)' = "idle"
        /\ JobStep("dispatch", m) = "idle" /\ JobStep("dispatch", m)' = "idle"
        /\ JobStep("cancel", m) = "idle" /\ JobStep("cancel", m)' = "idle"
        /\ JobStep("abort", m) = "idle" /\ JobStep("abort", m)' = "idle"
    BY <2>3 DEF LoneOf, Settling!Kinds
  <2>10. JobFits(m)'
    BY <1>1, <1>3, <2>1, <2>2, <2>4, <2>5 DEF Settling!CompleteFail, JobFits, TaskSteps, SubmitFits,
       DispatchFits, CompleteFits, LateTidied
  <2>11. AssetHands(m)
    BY <1>1, <1>3, <2>1, <2>2, <2>4, <2>5 DEF Settling!CompleteFail, AssetHands, HeldBy, Settling!Active,
       Settling!PostedLate, Settling!Kinds, JobFits, TaskSteps, SubmitFits, DispatchFits, CompleteFits
  <2> QED
    BY <2>10, <2>11
<1>4. CASE Settling!CompleteFailAsset(m)
  <2>1. JobStep("complete", m) = "failasset"
    BY <1>4 DEF Settling!CompleteFailAsset, Settling!At, JobStep
  <2>2. JobStep("complete", m)' \in {"idle", "release"} /\ OnlyTask("complete", m)
    BY <1>4, EndGives, ToGives DEF Settling!CompleteFailAsset, JobStep, Settling!Kinds, Settling!Steps
  <2>3. LoneOf("complete", m)
    BY <2>1, <2>2, AloneGoes DEF LoneOf, Settling!Kinds
  <2>4. /\ JobStep("submit", m) = "idle" /\ JobStep("submit", m)' = "idle"
        /\ JobStep("dispatch", m) = "idle" /\ JobStep("dispatch", m)' = "idle"
        /\ JobStep("cancel", m) = "idle" /\ JobStep("cancel", m)' = "idle"
        /\ JobStep("abort", m) = "idle" /\ JobStep("abort", m)' = "idle"
    BY <2>3 DEF LoneOf, Settling!Kinds
  <2>5. asset'.rend = asset.rend /\ asset'.st # "processing"
    BY <1>1, <1>4, AssetMoves DEF Settling!CompleteFailAsset, Settling!AssetStatus, JobFields, JobAssets,
       Settling!ValidAsset, Settling!AssetAllowed
  <2>10. JobFits(m)'
    BY <1>1, <1>4, <2>1, <2>2, <2>4, <2>5 DEF Settling!CompleteFailAsset, JobFits, TaskSteps, SubmitFits,
       DispatchFits, CompleteFits, LateTidied
  <2>11. AssetHands(m)
    BY <1>1, <1>4, <2>1, <2>2, <2>4, <2>5 DEF Settling!CompleteFailAsset, AssetHands, HeldBy, Settling!Active,
       Settling!PostedLate, Settling!Kinds, JobFits, TaskSteps, SubmitFits, DispatchFits, CompleteFits
  <2> QED
    BY <2>10, <2>11
<1>5. CASE Settling!CompleteRelease(m)
  <2>1. JobStep("complete", m) = "release"
    BY <1>5 DEF Settling!CompleteRelease, Settling!At, JobStep
  <2>2. JobStep("complete", m)' = "idle" /\ OnlyTask("complete", m)
    BY <1>5, EndGives DEF Settling!CompleteRelease, JobStep, Settling!Kinds
  <2>3. LoneOf("complete", m)
    BY <2>1, <2>2, AloneGoes DEF LoneOf, Settling!Kinds
  <2>4. /\ JobStep("submit", m) = "idle" /\ JobStep("submit", m)' = "idle"
        /\ JobStep("dispatch", m) = "idle" /\ JobStep("dispatch", m)' = "idle"
        /\ JobStep("cancel", m) = "idle" /\ JobStep("cancel", m)' = "idle"
        /\ JobStep("abort", m) = "idle" /\ JobStep("abort", m)' = "idle"
    BY <2>3 DEF LoneOf, Settling!Kinds
  <2>10. JobFits(m)'
    BY <1>1, <1>5, <2>1, <2>2, <2>4 DEF Settling!CompleteRelease, JobFits, TaskSteps, SubmitFits, DispatchFits,
       CompleteFits, LateTidied
  <2>11. AssetHands(m)
    BY <1>1, <1>5, <2>1, <2>2, <2>4 DEF Settling!CompleteRelease, AssetHands, HeldBy, Settling!Active,
       Settling!PostedLate, Settling!Kinds, JobFits, TaskSteps, SubmitFits, DispatchFits, CompleteFits
  <2> QED
    BY <2>10, <2>11
<1>6. CASE Settling!CompleteRend(m)
  <2>1. JobStep("complete", m) = "rend"
    BY <1>6 DEF Settling!CompleteRend, Settling!At, JobStep
  <2>2. JobStep("complete", m)' = "state" /\ OnlyTask("complete", m)
    BY <1>6, ToGives DEF Settling!CompleteRend, JobStep, Settling!Kinds, Settling!Steps
  <2>3. LoneOf("complete", m)
    BY <2>1, <2>2, AloneGoes DEF LoneOf, Settling!Kinds
  <2>4. /\ JobStep("submit", m) = "idle" /\ JobStep("submit", m)' = "idle"
        /\ JobStep("dispatch", m) = "idle" /\ JobStep("dispatch", m)' = "idle"
        /\ JobStep("cancel", m) = "idle" /\ JobStep("cancel", m)' = "idle"
        /\ JobStep("abort", m) = "idle" /\ JobStep("abort", m)' = "idle"
    BY <2>3 DEF LoneOf, Settling!Kinds
  <2>5. asset'.rend = m /\ asset'.st = asset.st
    BY <1>1, <1>6 DEF Settling!CompleteRend, JobFields, JobAssets
  <2>10. JobFits(m)'
    BY <1>1, <1>6, <2>1, <2>2, <2>4, <2>5 DEF Settling!CompleteRend, JobFits, TaskSteps, SubmitFits,
       DispatchFits, CompleteFits, LateTidied
  <2>11. AssetHands(m)
    BY <1>1, <1>6, <2>1, <2>2, <2>4, <2>5 DEF Settling!CompleteRend, AssetHands, HeldBy, Settling!Active,
       Settling!PostedLate, Settling!Kinds, JobFits, TaskSteps, SubmitFits, DispatchFits, CompleteFits
  <2> QED
    BY <2>10, <2>11
<1>7. CASE Settling!CompleteState(m)
  <2>1. JobStep("complete", m) = "state"
    BY <1>7 DEF Settling!CompleteState, Settling!At, JobStep
  <2>2. JobStep("complete", m)' = "done" /\ OnlyTask("complete", m)
    BY <1>7, ToGives DEF Settling!CompleteState, JobStep, Settling!Kinds, Settling!Steps
  <2>3. LoneOf("complete", m)
    BY <2>1, <2>2, AloneGoes DEF LoneOf, Settling!Kinds
  <2>4. /\ JobStep("submit", m) = "idle" /\ JobStep("submit", m)' = "idle"
        /\ JobStep("dispatch", m) = "idle" /\ JobStep("dispatch", m)' = "idle"
        /\ JobStep("cancel", m) = "idle" /\ JobStep("cancel", m)' = "idle"
        /\ JobStep("abort", m) = "idle" /\ JobStep("abort", m)' = "idle"
    BY <2>3 DEF LoneOf, Settling!Kinds
  <2>5. asset'.rend = asset.rend /\ asset'.st # "processing"
    BY <1>1, <1>7, StateMoves DEF Settling!CompleteState, JobFields
  <2>10. JobFits(m)'
    BY <1>1, <1>7, <2>1, <2>2, <2>4, <2>5 DEF Settling!CompleteState, JobFits, TaskSteps, SubmitFits,
       DispatchFits, CompleteFits, LateTidied
  <2>11. AssetHands(m)
    BY <1>1, <1>7, <2>1, <2>2, <2>4, <2>5 DEF Settling!CompleteState, AssetHands, HeldBy, Settling!Active,
       Settling!PostedLate, Settling!Kinds, JobFits, TaskSteps, SubmitFits, DispatchFits, CompleteFits
  <2> QED
    BY <2>10, <2>11
<1>8. CASE Settling!CompleteDone(m)
  <2>1. JobStep("complete", m) = "done"
    BY <1>8 DEF Settling!CompleteDone, Settling!At, JobStep
  <2>2. JobStep("complete", m)' \in {"idle", "advance"} /\ OnlyTask("complete", m)
    BY <1>8, EndGives, ToGives DEF Settling!CompleteDone, JobStep, Settling!Kinds, Settling!Steps
  <2>3. LoneOf("complete", m)
    BY <2>1, <2>2, AloneGoes DEF LoneOf, Settling!Kinds
  <2>4. /\ JobStep("submit", m) = "idle" /\ JobStep("submit", m)' = "idle"
        /\ JobStep("dispatch", m) = "idle" /\ JobStep("dispatch", m)' = "idle"
        /\ JobStep("cancel", m) = "idle" /\ JobStep("cancel", m)' = "idle"
        /\ JobStep("abort", m) = "idle" /\ JobStep("abort", m)' = "idle"
    BY <2>3 DEF LoneOf, Settling!Kinds
  <2>5. job[m].st \in {"running", "failed"} /\ job'[m].st = "done" /\ job'[m].late = job[m].late /\ cb'[m] = 0
    BY <1>1, <1>8, <2>1 DEF Settling!CompleteDone, JobFields, Settling!JobRecord, JobFits, CompleteFits,
       Settling!ValidJob, Settling!JobAllowed
  <2>10. JobFits(m)'
    BY <1>1, <1>8, <2>1, <2>2, <2>4, <2>5 DEF Settling!CompleteDone, JobFits, TaskSteps, SubmitFits,
       DispatchFits, CompleteFits, LateTidied
  <2>6. asset.st # "processing"
    BY <2>1 DEF AssetHeld
  <2>11. AssetHands(m)
    BY <2>6, <1>1, <1>8, <2>1, <2>2, <2>4, <2>5 DEF Settling!CompleteDone, AssetHands, HeldBy, Settling!Active,
       Settling!PostedLate, Settling!Kinds, JobFits, TaskSteps, SubmitFits, DispatchFits, CompleteFits
  <2> QED
    BY <2>10, <2>11
<1>9. CASE Settling!CompleteAdvance(m)
  <2>1. JobStep("complete", m) = "advance"
    BY <1>9 DEF Settling!CompleteAdvance, Settling!At, JobStep
  <2>2. JobStep("complete", m)' = "idle" /\ OnlyTask("complete", m)
    BY <1>9, EndGives DEF Settling!CompleteAdvance, JobStep, Settling!Kinds
  <2>3. LoneOf("complete", m)
    BY <2>1, <2>2, AloneGoes DEF LoneOf, Settling!Kinds
  <2>4. /\ JobStep("submit", m) = "idle" /\ JobStep("submit", m)' = "idle"
        /\ JobStep("dispatch", m) = "idle" /\ JobStep("dispatch", m)' = "idle"
        /\ JobStep("cancel", m) = "idle" /\ JobStep("cancel", m)' = "idle"
        /\ JobStep("abort", m) = "idle" /\ JobStep("abort", m)' = "idle"
    BY <2>3 DEF LoneOf, Settling!Kinds
  <2>10. JobFits(m)'
    BY <1>1, <1>9, <2>1, <2>2, <2>4 DEF Settling!CompleteAdvance, JobFits, TaskSteps, SubmitFits, DispatchFits,
       CompleteFits, LateTidied
  <2>11. AssetHands(m)
    BY <1>1, <1>9, <2>1, <2>2, <2>4 DEF Settling!CompleteAdvance, AssetHands, HeldBy, Settling!Active,
       Settling!PostedLate, Settling!Kinds, JobFits, TaskSteps, SubmitFits, DispatchFits, CompleteFits
  <2> QED
    BY <2>10, <2>11
<1>10. CASE Settling!Reclaim(m)
  <2>1. JobStep("complete", m) = "reclaim"
    BY <1>10 DEF Settling!Reclaim, Settling!At, JobStep
  <2>2. JobStep("complete", m)' = "rget" /\ OnlyTask("complete", m)
    BY <1>10, ToGives DEF Settling!Reclaim, JobStep, Settling!Kinds, Settling!Steps
  <2>3. LoneOf("complete", m)
    BY <2>1, <2>2, AloneGoes DEF LoneOf, Settling!Kinds
  <2>4. /\ JobStep("submit", m) = "idle" /\ JobStep("submit", m)' = "idle"
        /\ JobStep("dispatch", m) = "idle" /\ JobStep("dispatch", m)' = "idle"
        /\ JobStep("cancel", m) = "idle" /\ JobStep("cancel", m)' = "idle"
        /\ JobStep("abort", m) = "idle" /\ JobStep("abort", m)' = "idle"
    BY <2>3 DEF LoneOf, Settling!Kinds
  <2>5. job[m].st = "cancelled" /\ job'[m].st = "cancelled" /\ cb'[m] = 0 /\ LateTidied(m)'
    BY <1>1, <1>10, <2>1 DEF Settling!Reclaim, JobFields, Settling!JobRecord, JobFits, CompleteFits, LateTidied
  <2>10. JobFits(m)'
    BY <1>1, <1>10, <2>1, <2>2, <2>4, <2>5 DEF Settling!Reclaim, JobFits, TaskSteps, SubmitFits, DispatchFits,
       CompleteFits, LateTidied
  <2>11. AssetHands(m)
    BY <1>1, <1>10, <2>1, <2>2, <2>4, <2>5 DEF Settling!Reclaim, AssetHands, HeldBy, Settling!Active,
       Settling!PostedLate, Settling!Kinds, JobFits, TaskSteps, SubmitFits, DispatchFits, CompleteFits
  <2> QED
    BY <2>10, <2>11
<1> QED
  BY <1>2, <1>3, <1>4, <1>5, <1>6, <1>7, <1>8, <1>9, <1>10 DEF Settling!Completes

LEMMA CancelFit ==
  ASSUME JobsCalm, Settling!TypeOK, OneTask, AssetHeld, NEW m \in Settling!Jobs, JobFits(m), Settling!Cancels(m)
  PROVE  JobFits(m)' /\ AssetHands(m)
<1>1. JobFields
  BY DEF Settling!TypeOK, JobFields, JobAssets
<1>2. CASE Settling!Cancel(m)
  <2>1. Settling!Quiet /\ JobStep("cancel", m) = "idle"
    BY <1>2 DEF Settling!Cancel, Settling!MayStart, JobsCalm, Settling!Quiet, JobStep, Settling!Kinds
  <2>2. JobStep("cancel", m)' = "job" /\ OnlyTask("cancel", m)
    BY <1>2, ToGives DEF Settling!Cancel, JobStep, Settling!Kinds, Settling!Steps
  <2>3. LoneOf("cancel", m)
    BY <2>1, <2>2, AloneGoes DEF LoneOf, Settling!Kinds
  <2>4. /\ JobStep("submit", m) = "idle" /\ JobStep("submit", m)' = "idle"
        /\ JobStep("dispatch", m) = "idle" /\ JobStep("dispatch", m)' = "idle"
        /\ JobStep("complete", m) = "idle" /\ JobStep("complete", m)' = "idle"
        /\ JobStep("abort", m) = "idle" /\ JobStep("abort", m)' = "idle"
    BY <2>3 DEF LoneOf, Settling!Kinds
  <2>5. job[m].st \in {"queued", "running"}
    BY <1>2 DEF Settling!Cancel, Settling!Active
  <2>10. JobFits(m)'
    BY <1>1, <1>2, <2>1, <2>2, <2>4, <2>5 DEF Settling!Cancel, JobFits, TaskSteps, SubmitFits, DispatchFits,
       CompleteFits, LateTidied
  <2>11. AssetHands(m)
    BY <1>1, <1>2, <2>1, <2>2, <2>4, <2>5 DEF Settling!Cancel, AssetHands, HeldBy, Settling!Active,
       Settling!PostedLate, Settling!Kinds, JobFits, TaskSteps, SubmitFits, DispatchFits, CompleteFits
  <2> QED
    BY <2>10, <2>11
<1>4. CASE Settling!CancelJob(m)
  <2>1. JobStep("cancel", m) = "job"
    BY <1>4 DEF Settling!CancelJob, Settling!At, JobStep
  <2>2. JobStep("cancel", m)' \in {"idle", "release"} /\ OnlyTask("cancel", m)
    BY <1>4, EndGives, ToGives DEF Settling!CancelJob, JobStep, Settling!Kinds, Settling!Steps
  <2>5. /\ job' = job \/ (job'[m].st = "cancelled" /\ Settling!Active(m) /\ JobStep("cancel", m)' = "release")
                         \/ (job'[m].st = "cancelled" /\ job[m].st = "cancelled")
        /\ job'[m].late = job[m].late
    <3>1. job[m].st \in Settling!JobStatus
      BY <1>1 DEF JobFields, Settling!JobRecord
    <3>2. CASE Settling!ValidJob(job[m].st, "cancelled")
      <4>1. job'[m].st = "cancelled" /\ job'[m].late = job[m].late
        BY <1>4, <3>2, RecordMoves DEF Settling!CancelJob, Settling!JobStatus
      <4>2. JobStep("cancel", m)' = "release"
        BY <1>4, <3>2, ToGives DEF Settling!CancelJob, JobStep, Settling!Kinds, Settling!Steps
      <4> QED
        BY <3>1, <3>2, <4>1, <4>2 DEF Settling!ValidJob, Settling!JobAllowed, Settling!JobStatus,
           Settling!Active
    <3> QED
      BY <1>4, <3>2 DEF Settling!CancelJob
  <2>3. LoneOf("cancel", m)
    BY <2>1, <2>2, AloneGoes DEF LoneOf, Settling!Kinds
  <2>4. /\ JobStep("submit", m) = "idle" /\ JobStep("submit", m)' = "idle"
        /\ JobStep("dispatch", m) = "idle" /\ JobStep("dispatch", m)' = "idle"
        /\ JobStep("complete", m) = "idle" /\ JobStep("complete", m)' = "idle"
        /\ JobStep("abort", m) = "idle" /\ JobStep("abort", m)' = "idle"
    BY <2>3 DEF LoneOf, Settling!Kinds
  <2>10. JobFits(m)'
    <3>1. UNCHANGED <<asset, jobQueue, inflight, enc, stray, cb, out>>
      BY <1>4 DEF Settling!CancelJob
    <3>2. TaskSteps(m)'
      BY <2>2, <2>4 DEF JobFits, TaskSteps
    <3>3. SubmitFits(m)'
      BY <2>1, <2>4, <2>5, <3>1 DEF JobFits, SubmitFits, DispatchFits, Settling!Active
    <3>4. DispatchFits(m)'
      BY <2>1, <2>4, <2>5, <3>1 DEF JobFits, DispatchFits
    <3>5. CompleteFits(m)'
      BY <2>1, <2>4, <2>5, <3>1 DEF JobFits, DispatchFits, CompleteFits, LateTidied, Settling!Active
    <3> QED
      BY <3>2, <3>3, <3>4, <3>5 DEF JobFits
  <2>11. AssetHands(m)
    BY <1>1, <1>4, <2>1, <2>2, <2>4, <2>5 DEF Settling!CancelJob, AssetHands, HeldBy, Settling!Active,
       Settling!PostedLate, Settling!Kinds, JobFits, TaskSteps, SubmitFits, DispatchFits, CompleteFits
  <2> QED
    BY <2>10, <2>11
<1>5. CASE Settling!CancelRelease(m)
  <2>1. JobStep("cancel", m) = "release"
    BY <1>5 DEF Settling!CancelRelease, Settling!At, JobStep
  <2>2. JobStep("cancel", m)' = "rget" /\ OnlyTask("cancel", m)
    BY <1>5, ToGives DEF Settling!CancelRelease, JobStep, Settling!Kinds, Settling!Steps
  <2>3. LoneOf("cancel", m)
    BY <2>1, <2>2, AloneGoes DEF LoneOf, Settling!Kinds
  <2>4. /\ JobStep("submit", m) = "idle" /\ JobStep("submit", m)' = "idle"
        /\ JobStep("dispatch", m) = "idle" /\ JobStep("dispatch", m)' = "idle"
        /\ JobStep("complete", m) = "idle" /\ JobStep("complete", m)' = "idle"
        /\ JobStep("abort", m) = "idle" /\ JobStep("abort", m)' = "idle"
    BY <2>3 DEF LoneOf, Settling!Kinds
  <2>10. JobFits(m)'
    BY <1>1, <1>5, <2>1, <2>2, <2>4 DEF Settling!CancelRelease, JobFits, TaskSteps, SubmitFits, DispatchFits,
       CompleteFits, LateTidied
  <2>11. AssetHands(m)
    BY <1>1, <1>5, <2>1, <2>2, <2>4 DEF Settling!CancelRelease, AssetHands, HeldBy, Settling!Active,
       Settling!PostedLate, Settling!Kinds, JobFits, TaskSteps, SubmitFits, DispatchFits, CompleteFits
  <2> QED
    BY <2>10, <2>11
<1> QED
  BY <1>2, <1>4, <1>5 DEF Settling!Cancels

LEMMA AbortFit ==
  ASSUME JobsCalm, Settling!TypeOK, OneTask, AssetHeld, NEW m \in Settling!Jobs, JobFits(m), Settling!Aborts(m)
  PROVE  JobFits(m)' /\ AssetHands(m)
<1>1. JobFields
  BY DEF Settling!TypeOK, JobFields, JobAssets
<1>2. CASE Settling!Abort(m)
  <2>1. Settling!Quiet /\ JobStep("abort", m) = "idle"
    BY <1>2 DEF Settling!Abort, Settling!MayStart, JobsCalm, Settling!Quiet, JobStep, Settling!Kinds
  <2>2. JobStep("abort", m)' \in {"stop"} /\ OnlyTask("abort", m)
    BY <1>2, EndGives, ToGives DEF Settling!Abort, JobStep, Settling!Kinds, Settling!Steps
  <2>3. LoneOf("abort", m)
    BY <2>1, <2>2, AloneGoes DEF LoneOf, Settling!Kinds
  <2>4. /\ JobStep("submit", m) = "idle" /\ JobStep("submit", m)' = "idle"
        /\ JobStep("dispatch", m) = "idle" /\ JobStep("dispatch", m)' = "idle"
        /\ JobStep("complete", m) = "idle" /\ JobStep("complete", m)' = "idle"
        /\ JobStep("cancel", m) = "idle" /\ JobStep("cancel", m)' = "idle"
    BY <2>3 DEF LoneOf, Settling!Kinds
  <2>10. JobFits(m)'
    BY <1>1, <1>2, <2>1, <2>2, <2>4 DEF Settling!Abort, JobFits, TaskSteps, SubmitFits, DispatchFits,
       CompleteFits, LateTidied
  <2>11. AssetHands(m)
    BY <1>1, <1>2, <2>1, <2>2, <2>4 DEF Settling!Abort, AssetHands, HeldBy, Settling!Active,
       Settling!PostedLate, Settling!Kinds, JobFits, TaskSteps, SubmitFits, DispatchFits, CompleteFits
  <2> QED
    BY <2>10, <2>11
<1>3. CASE Settling!AbortStop(m)
  <2>1. JobStep("abort", m) = "stop"
    BY <1>3 DEF Settling!AbortStop, Settling!At, JobStep
  <2>2. JobStep("abort", m)' \in {"state"} /\ OnlyTask("abort", m)
    BY <1>3, EndGives, ToGives DEF Settling!AbortStop, JobStep, Settling!Kinds, Settling!Steps
  <2>3. LoneOf("abort", m)
    BY <2>1, <2>2, AloneGoes DEF LoneOf, Settling!Kinds
  <2>4. /\ JobStep("submit", m) = "idle" /\ JobStep("submit", m)' = "idle"
        /\ JobStep("dispatch", m) = "idle" /\ JobStep("dispatch", m)' = "idle"
        /\ JobStep("complete", m) = "idle" /\ JobStep("complete", m)' = "idle"
        /\ JobStep("cancel", m) = "idle" /\ JobStep("cancel", m)' = "idle"
    BY <2>3 DEF LoneOf, Settling!Kinds
  <2>5. enc'[m] = enc[m] \/ (enc[m] = "run" /\ enc'[m] = "bad")
    BY <1>1, <1>3 DEF Settling!AbortStop, JobFields
  <2>6. m \in jobQueue' => m \in jobQueue
    BY <1>3 DEF Settling!AbortStop
  <2>10. JobFits(m)'
    BY <1>1, <1>3, <2>1, <2>2, <2>4, <2>5, <2>6 DEF Settling!AbortStop, JobFits, TaskSteps, SubmitFits,
       DispatchFits, CompleteFits, LateTidied
  <2>11. AssetHands(m)
    BY <1>1, <1>3, <2>1, <2>2, <2>4, <2>5, <2>6 DEF Settling!AbortStop, AssetHands, HeldBy, Settling!Active,
       Settling!PostedLate, Settling!Kinds, JobFits, TaskSteps, SubmitFits, DispatchFits, CompleteFits
  <2> QED
    BY <2>10, <2>11
<1>4. CASE Settling!AbortRun(m)
  <2>1. JobStep("abort", m) = "state"
    BY <1>4 DEF Settling!AbortRun, Settling!At, JobStep
  <2>2. JobStep("abort", m)' \in {"job"} /\ OnlyTask("abort", m)
    BY <1>4, EndGives, ToGives DEF Settling!AbortRun, JobStep, Settling!Kinds, Settling!Steps
  <2>3. LoneOf("abort", m)
    BY <2>1, <2>2, AloneGoes DEF LoneOf, Settling!Kinds
  <2>4. /\ JobStep("submit", m) = "idle" /\ JobStep("submit", m)' = "idle"
        /\ JobStep("dispatch", m) = "idle" /\ JobStep("dispatch", m)' = "idle"
        /\ JobStep("complete", m) = "idle" /\ JobStep("complete", m)' = "idle"
        /\ JobStep("cancel", m) = "idle" /\ JobStep("cancel", m)' = "idle"
    BY <2>3 DEF LoneOf, Settling!Kinds
  <2>10. JobFits(m)'
    BY <1>1, <1>4, <2>1, <2>2, <2>4 DEF Settling!AbortRun, JobFits, TaskSteps, SubmitFits, DispatchFits,
       CompleteFits, LateTidied
  <2>11. AssetHands(m)
    BY <1>1, <1>4, <2>1, <2>2, <2>4 DEF Settling!AbortRun, AssetHands, HeldBy, Settling!Active,
       Settling!PostedLate, Settling!Kinds, JobFits, TaskSteps, SubmitFits, DispatchFits, CompleteFits
  <2> QED
    BY <2>10, <2>11
<1>5. CASE Settling!AbortJob(m)
  <2>1. JobStep("abort", m) = "job"
    BY <1>5 DEF Settling!AbortJob, Settling!At, JobStep
  <2>2. JobStep("abort", m)' \in {"idle", "rget"} /\ OnlyTask("abort", m)
    BY <1>5, EndGives, ToGives DEF Settling!AbortJob, JobStep, Settling!Kinds, Settling!Steps
  <2>3. LoneOf("abort", m)
    BY <2>1, <2>2, AloneGoes DEF LoneOf, Settling!Kinds
  <2>4. /\ JobStep("submit", m) = "idle" /\ JobStep("submit", m)' = "idle"
        /\ JobStep("dispatch", m) = "idle" /\ JobStep("dispatch", m)' = "idle"
        /\ JobStep("complete", m) = "idle" /\ JobStep("complete", m)' = "idle"
        /\ JobStep("cancel", m) = "idle" /\ JobStep("cancel", m)' = "idle"
    BY <2>3 DEF LoneOf, Settling!Kinds
  <2>5. /\ job' = job \/ (job'[m].st = "failed" /\ job[m].st \in {"queued", "running", "failed"} /\ JobStep("abort", m)' = "rget")
        /\ job'[m].late = job[m].late
    <3>1. job[m].st \in Settling!JobStatus
      BY <1>1 DEF JobFields, Settling!JobRecord
    <3>2. CASE Settling!ValidJob(job[m].st, "failed")
      <4>1. job'[m].st = "failed" /\ job'[m].late = job[m].late
        BY <1>5, <3>2, RecordMoves DEF Settling!AbortJob, Settling!JobStatus
      <4>2. JobStep("abort", m)' = "rget"
        BY <1>5, <3>2, ToGives DEF Settling!AbortJob, JobStep, Settling!Kinds, Settling!Steps
      <4> QED
        BY <3>1, <3>2, <4>1, <4>2 DEF Settling!ValidJob, Settling!JobAllowed, Settling!JobStatus
    <3> QED
      BY <1>5, <3>2 DEF Settling!AbortJob
  <2>10. JobFits(m)'
    BY <1>1, <1>5, <2>1, <2>2, <2>4, <2>5 DEF Settling!AbortJob, JobFits, TaskSteps, SubmitFits, DispatchFits,
       CompleteFits, LateTidied
  <2>11. AssetHands(m)
    BY <1>1, <1>5, <2>1, <2>2, <2>4, <2>5 DEF Settling!AbortJob, AssetHands, HeldBy, Settling!Active,
       Settling!PostedLate, Settling!Kinds, JobFits, TaskSteps, SubmitFits, DispatchFits, CompleteFits
  <2> QED
    BY <2>10, <2>11
<1> QED
  BY <1>2, <1>3, <1>4, <1>5 DEF Settling!Aborts

LEMMA RecomputeFit ==
  ASSUME JobsCalm, Settling!TypeOK, OneTask, AssetHeld, NEW m \in Settling!Jobs, JobFits(m),
         NEW k \in {"complete", "cancel", "abort"}, Settling!RecomputeGet(k, m) \/ Settling!RecomputeScan(k, m) \/ Settling!RecomputeWrite(k, m)
  PROVE  JobFits(m)' /\ AssetHands(m)
<1>1. JobFields
  BY DEF Settling!TypeOK, JobFields, JobAssets
<1>2. JobStep(k, m) \in {"rget", "rscan", "rwrite"} /\ k \in Settling!Kinds
  BY DEF Settling!RecomputeGet, Settling!RecomputeScan, Settling!RecomputeWrite, Settling!At, JobStep,
     Settling!Kinds
<1>3. PICK v \in Settling!Task : TaskMoves(k, m, v) /\ v.at \in {"idle", "rscan", "rwrite"}
  BY RecomputeTask
<1>4. JobStep(k, m)' \in {"idle", "rscan", "rwrite"} /\ OnlyTask(k, m)
  BY <1>2, <1>3, TaskMoved DEF TaskBecomes, OnlyTask, JobStep
<1>5. LoneOf(k, m)
  BY <1>2, <1>4, AloneGoes
<1>6. UNCHANGED <<job, jobQueue, inflight, enc, stray, cb, out>> /\ asset'.rend = asset.rend
      /\ (Settling!RecomputeWrite(k, m) => asset'.st # "processing") /\ (~Settling!RecomputeWrite(k, m) => asset' = asset)
  <2>1. CASE Settling!RecomputeGet(k, m) \/ Settling!RecomputeScan(k, m)
    <3>1. ~Settling!RecomputeWrite(k, m)
      BY <2>1 DEF Settling!RecomputeGet, Settling!RecomputeScan, Settling!RecomputeWrite, Settling!At
    <3> QED
      BY <2>1, <3>1 DEF Settling!RecomputeGet, Settling!RecomputeScan
  <2>2. CASE Settling!RecomputeWrite(k, m)
    <3>1. task[<<k, m>>] \in Settling!Task
      BY <1>2 DEF Settling!TypeOK
    <3>2. Settling!AfterTerminal(k, task[<<k, m>>]) \in Settling!AssetStatus \ {"processing"}
          /\ Settling!ValidAsset("processing", Settling!AfterTerminal(k, task[<<k, m>>]))
      BY <3>1 DEF Settling!AfterTerminal, Settling!Task, Settling!AssetStatus, Settling!ValidAsset,
         Settling!AssetAllowed
    <3>3. asset'.rend = asset.rend /\ asset'.st # "processing"
      BY <1>1, <2>2, <3>2, AssetMoves DEF Settling!RecomputeWrite, JobFields, JobAssets
    <3> QED
      BY <2>2, <3>3 DEF Settling!RecomputeWrite
  <2> QED
    BY <2>1, <2>2
<1>7. Settling!RecomputeGet(k, m) => asset' = asset /\ (asset'.st = "processing" => JobStep(k, m)' = "rscan")
  <2>1. task \in [Settling!Kinds \X Settling!Jobs -> Settling!Task] /\ <<k, m>> \in Settling!Kinds \X Settling!Jobs
    BY <1>2 DEF Settling!TypeOK
  <2> QED
    BY <2>1 DEF Settling!RecomputeGet, JobStep, Settling!Task
<1>8. Settling!RecomputeScan(k, m) => asset' = asset /\ (JobStep(k, m)' = "rwrite" \/ \E i \in Settling!Jobs \ {m} : HeldBy(i))
  <2>1. Settling!Others(m) # {} => \E i \in Settling!Jobs \ {m} : HeldBy(i)
    BY DEF Settling!Others, HeldBy
  <2> QED
    BY <1>2, <2>1, ToGives DEF Settling!RecomputeScan, JobStep, Settling!Steps
<1>9. CASE k = "complete"
  <2>1. /\ JobStep("submit", m) = "idle" /\ JobStep("submit", m)' = "idle"
        /\ JobStep("dispatch", m) = "idle" /\ JobStep("dispatch", m)' = "idle"
        /\ JobStep("cancel", m) = "idle" /\ JobStep("cancel", m)' = "idle"
        /\ JobStep("abort", m) = "idle" /\ JobStep("abort", m)' = "idle"
    BY <1>5, <1>9 DEF LoneOf, Settling!Kinds
  <2>2. JobStep("complete", m) \in {"rget", "rscan", "rwrite"} /\ JobStep("complete", m)' \in {"idle", "rscan", "rwrite"}
    BY <1>2, <1>4, <1>9
  <2>10. JobFits(m)'
    BY <1>6, <2>1, <2>2 DEF JobFits, TaskSteps, SubmitFits, DispatchFits, CompleteFits, LateTidied
  <2>11. AssetHands(m)
    BY <1>2, <1>6, <1>7, <1>8, <1>9, <2>1, <2>2 DEF AssetHands, HeldBy
  <2> QED
    BY <2>10, <2>11
<1>10. CASE k = "cancel"
  <2>1. /\ JobStep("submit", m) = "idle" /\ JobStep("submit", m)' = "idle"
        /\ JobStep("dispatch", m) = "idle" /\ JobStep("dispatch", m)' = "idle"
        /\ JobStep("complete", m) = "idle" /\ JobStep("complete", m)' = "idle"
        /\ JobStep("abort", m) = "idle" /\ JobStep("abort", m)' = "idle"
    BY <1>5, <1>10 DEF LoneOf, Settling!Kinds
  <2>2. JobStep("cancel", m) \in {"rget", "rscan", "rwrite"} /\ JobStep("cancel", m)' \in {"idle", "rscan", "rwrite"}
    BY <1>2, <1>4, <1>10
  <2>10. JobFits(m)'
    BY <1>6, <2>1, <2>2 DEF JobFits, TaskSteps, SubmitFits, DispatchFits, CompleteFits, LateTidied
  <2>11. AssetHands(m)
    BY <1>2, <1>6, <1>7, <1>8, <1>10, <2>1, <2>2 DEF AssetHands, HeldBy
  <2> QED
    BY <2>10, <2>11
<1>11. CASE k = "abort"
  <2>1. /\ JobStep("submit", m) = "idle" /\ JobStep("submit", m)' = "idle"
        /\ JobStep("dispatch", m) = "idle" /\ JobStep("dispatch", m)' = "idle"
        /\ JobStep("complete", m) = "idle" /\ JobStep("complete", m)' = "idle"
        /\ JobStep("cancel", m) = "idle" /\ JobStep("cancel", m)' = "idle"
    BY <1>5, <1>11 DEF LoneOf, Settling!Kinds
  <2>2. JobStep("abort", m) \in {"rget", "rscan", "rwrite"} /\ JobStep("abort", m)' \in {"idle", "rscan", "rwrite"}
    BY <1>2, <1>4, <1>11
  <2>10. JobFits(m)'
    BY <1>6, <2>1, <2>2 DEF JobFits, TaskSteps, SubmitFits, DispatchFits, CompleteFits, LateTidied
  <2>11. AssetHands(m)
    BY <1>2, <1>6, <1>7, <1>8, <1>11, <2>1, <2>2 DEF AssetHands, HeldBy
  <2> QED
    BY <2>10, <2>11
<1> QED
  BY <1>9, <1>10, <1>11

LEMMA EachFits ==
  ASSUME JobsCalm, Settling!TypeOK, OneTask, AssetHeld, NEW m \in Settling!Jobs, JobFits(m),
         Settling!Submits(m) \/ Settling!Dispatches(m) \/ Settling!Encode(m) \/ Settling!Deliver(m) \/ Settling!Sweep(m) \/ Settling!Drop(m) \/ Settling!Completes(m) \/ Settling!Cancels(m)
         \/ Settling!Aborts(m) \/ Settling!Recomputes(m)
  PROVE  JobFits(m)' /\ AssetHands(m)
BY SubmitFit, DispatchFit, EncodeFit, CompleteFit, CancelFit, AbortFit, RecomputeFit DEF Settling!Recomputes

LEMMA SettleStep ==
  ASSUME JobsCalm, SettleInv, [Settling!Next]_(Settling!vars)
  PROVE  SettleInv'
<1>1. Settling!TypeOK /\ OneTask /\ AssetHeld /\ \A i \in Settling!Jobs : JobFits(i)
  BY DEF SettleInv
<1>2. Settling!TypeOK' /\ OneTask'
  BY <1>1, SettlingTypes, NextOne, OneKept DEF JobsCalm
<1>3. ASSUME NEW m \in Settling!Jobs,
             Settling!Submits(m) \/ Settling!Dispatches(m) \/ Settling!Encode(m) \/ Settling!Deliver(m) \/ Settling!Sweep(m) \/ Settling!Drop(m) \/ Settling!Completes(m) \/ Settling!Cancels(m)
             \/ Settling!Aborts(m) \/ Settling!Recomputes(m)
      PROVE  AssetHeld' /\ \A i \in Settling!Jobs : JobFits(i)'
  <2>1. JobFits(m)' /\ AssetHands(m)
    BY <1>1, <1>3, EachFits
  <2>2. BesidesJob(m) /\ TasksBesides(m)
    BY <1>1, <1>3, BesidesSubmit, BesidesDispatch, BesidesEncode, BesidesComplete, TasksStay
  <2>3. \A i \in Settling!Jobs \ {m} : JobFits(i)' /\ (HeldBy(i)' <=> HeldBy(i)) /\ JobStep("complete", i)' = JobStep("complete", i)
    BY <1>1, <2>2, OthersFit
  <2>4. ASSUME asset'.st = "processing" PROVE \E i \in Settling!Jobs : HeldBy(i)'
    <3>1. HeldBy(m)' \/ asset.st = "processing"
      BY <2>1, <2>4 DEF AssetHands
    <3>2. CASE asset.st = "processing"
      <4>1. PICK i \in Settling!Jobs : HeldBy(i)
        BY <1>1, <3>2 DEF AssetHeld
      <4>2. CASE i = m
        BY <2>1, <2>3, <2>4, <4>1, <4>2 DEF AssetHands
      <4> QED
        BY <2>3, <4>1, <4>2
    <3> QED
      BY <3>1, <3>2
  <2>5. ASSUME NEW i \in Settling!Jobs, JobStep("complete", i)' = "done" PROVE asset'.st # "processing"
    <3>1. CASE i = m
      BY <2>1, <2>5, <3>1 DEF AssetHands
    <3>2. CASE i # m
      <4>1. JobStep("complete", i) = "done"
        BY <2>3, <2>5, <3>2
      <4>2. \A k \in Settling!Kinds : JobStep(k, m) = "idle"
        BY <1>1, <3>2, <4>1 DEF OneTask, Settling!Kinds
      <4>3. asset'.st = asset.st
        BY <2>1, <4>2 DEF AssetHands
      <4> QED
        BY <1>1, <4>1, <4>3 DEF AssetHeld
    <3> QED
      BY <3>1, <3>2
  <2>6. AssetHeld'
    BY <2>4, <2>5 DEF AssetHeld
  <2> QED
    BY <2>1, <2>3, <2>6
<1>4. CASE UNCHANGED Settling!vars
  <2>1. AssetHeld'
    BY <1>1, <1>4 DEF Settling!vars, AssetHeld, HeldBy, Settling!Active, Settling!PostedLate, JobStep
  <2>2. ASSUME NEW i \in Settling!Jobs PROVE JobFits(i)'
    <3>1. TaskSteps(i)'
      BY <1>1, <1>4 DEF Settling!vars, JobFits, TaskSteps, JobStep
    <3>2. SubmitFits(i)'
      BY <1>1, <1>4 DEF Settling!vars, JobFits, SubmitFits, JobStep
    <3>3. DispatchFits(i)'
      BY <1>1, <1>4 DEF Settling!vars, JobFits, DispatchFits, JobStep
    <3>4. CompleteFits(i)'
      BY <1>1, <1>4 DEF Settling!vars, JobFits, CompleteFits, LateTidied, JobStep
    <3> QED
      BY <3>1, <3>2, <3>3, <3>4 DEF JobFits
  <2> QED
    BY <1>2, <2>1, <2>2 DEF SettleInv
<1> QED
  BY <1>2, <1>3, <1>4 DEF Settling!Next, SettleInv

(* While handlers do not overlap and every dispatch is reported: once no job of the
   asset is active and no handler is under way, the asset is not `processing`, but for a
   job the scaler posted after its record had ended, whose report nothing undoes; and at
   rest a cancelled job whose callback was consumed has left neither renditions on the
   asset nor, unless storage refused, objects.  Settling!Cancels of jobs and of runs included. *)
THEOREM JobsSettle ==
  ASSUME SettlingConstants, ~Overlap, ~ReportFails
  PROVE  Settling!Spec => [](Settling!Released /\ Settling!LateOutputReclaimed)
<1>1. JobsCalm
  BY DEF JobsCalm
<1>2. Settling!Init => SettleInv
  <2> SUFFICES ASSUME Settling!Init PROVE SettleInv
    OBVIOUS
  <2>1. Settling!TypeOK /\ \A k \in Settling!Kinds, i \in Settling!Jobs : JobStep(k, i) = "idle"
    BY SettlingStart
  <2>2. /\ job = [i \in Settling!Jobs |-> Settling!NoJob] /\ enc = [i \in Settling!Jobs |-> "no"] /\ cb = [i \in Settling!Jobs |-> 0]
        /\ jobQueue = {} /\ inflight = {} /\ stray = {} /\ asset.rend = 0 /\ asset.st # "processing"
    BY DEF Settling!Init
  <2>3. ASSUME NEW i \in Settling!Jobs PROVE JobFits(i)
    <3>1. /\ JobStep("submit", i) = "idle" /\ JobStep("dispatch", i) = "idle" /\ JobStep("complete", i) = "idle"
          /\ JobStep("cancel", i) = "idle" /\ JobStep("abort", i) = "idle"
          /\ job[i].st = "none" /\ job[i].late = "no" /\ enc[i] = "no" /\ cb[i] = 0 /\ asset.rend # i
      BY <2>1, <2>2 DEF Settling!Kinds, Settling!NoJob, Settling!Jobs, SettlingConstants
    <3> QED
      BY <2>2, <3>1 DEF JobFits, TaskSteps, SubmitFits, DispatchFits, CompleteFits
  <2>4. AssetHeld /\ OneTask
    BY <2>1, <2>2 DEF AssetHeld, OneTask, Settling!Kinds
  <2> QED
    BY <2>1, <2>3, <2>4 DEF SettleInv
<1>3. SettleInv /\ [Settling!Next]_(Settling!vars) => SettleInv'
  BY <1>1, SettleStep
<1>4. SettleInv => Settling!Released /\ Settling!LateOutputReclaimed
  <2> SUFFICES ASSUME SettleInv PROVE Settling!Released /\ Settling!LateOutputReclaimed
    OBVIOUS
  <2>1. Settling!Quiet => \A k \in Settling!Kinds, i \in Settling!Jobs : JobStep(k, i) = "idle"
    BY DEF Settling!Quiet, JobStep
  <2>2. Settling!Released
    BY <2>1 DEF Settling!Released, SettleInv, AssetHeld, HeldBy, Settling!Kinds
  <2>3. ASSUME Settling!Quiet, NEW i \in Settling!Jobs, job[i].st = "cancelled", enc[i] = "ok", cb[i] = 0
        PROVE  asset.rend # i /\ LateTidied(i)
    <3>1. JobStep("complete", i) = "idle" /\ CompleteFits(i)
      BY <2>1, <2>3 DEF SettleInv, JobFits, Settling!Kinds
    <3> QED
      BY <2>3, <3>1 DEF CompleteFits
  <2> QED
    BY <2>2, <2>3 DEF Settling!LateOutputReclaimed, LateTidied
<1> QED
  BY <1>2, <1>3, <1>4, PTL DEF Settling!Spec
=============================================================================
