---------------------------- MODULE UnwindProofs ----------------------------
(***************************************************************************)
(* Proofs about Unwind, for any number of frames, deferred calls and       *)
(* nested runs: TypeOK, PanicFlagIsExact, DefersBelongToFrames,            *)
(* RunsOwnTheirFrames and NestedRunIsContained.                            *)
(*                                                                         *)
(* The inductive invariant UInv has three parts. Nested is about the native *)
(* stack: the targets of its runs and the frames being unwound. Floor says *)
(* of the frames and the deferred calls above a target that they stay      *)
(* above it. Both hold whatever fails. Exact, about the panic flag, and    *)
(* Sections, about the deferred calls of each frame, hold until an unwind  *)
(* has itself failed. All are stated of arbitrary stacks, so that each     *)
(* shape of a change (a push, a pop, another record in place) is a lemma   *)
(* of its own, and an action is one or two of these.                       *)
(***************************************************************************)
EXTENDS Unwind, SequenceTheorems, FiniteSetTheorems, TLAPS

----------------------------------------------------------------------------
(* Sequences and records.                                                  *)

\* A nonempty set of naturals has a least element: the well-foundedness of
\* strict inclusion among finite sets, applied to the intervals 0 .. x.
LEMMA Smallest ==
    ASSUME NEW T \in SUBSET Nat, T # {}
    PROVE  \E x \in T : \A y \in T : x <= y
  <1> DEFINE F == {0 .. x : x \in T}
             R == StrictSubsetOrdering(Nat)
             B == FiniteSubsetsOf(Nat)
  <1>1. \A x \in T : 0 .. x \in B
    <2> SUFFICES ASSUME NEW x \in T PROVE 0 .. x \in B
      OBVIOUS
    <2>1. x \in Int /\ 0 \in Int
      OBVIOUS
    <2>2. IsFiniteSet(0 .. x)
      BY <2>1, FS_Interval
    <2> QED BY <2>2 DEF FiniteSubsetsOf
  <1>2. F \subseteq B /\ F # {}
    BY <1>1
  <1>3. IsWellFoundedOn(R, B)
    BY FS_StrictSubsetOrderingWellFounded
  <1>4. \E s \in F : \A r \in F : ~(<<r, s>> \in R)
    <2> HIDE DEF F, R, B
    <2> QED BY <1>2, <1>3, WFMin
  <1>5. PICK x \in T : \A y \in T : ~(<<0 .. y, 0 .. x>> \in R)
    BY <1>4
  <1>6. ASSUME NEW y \in T, ~(x <= y) PROVE FALSE
    <2>1. 0 .. y \subseteq 0 .. x /\ 0 .. y # 0 .. x
      <3>1. x \in 0 .. x /\ x \notin 0 .. y
        BY <1>6
      <3> QED BY <3>1, <1>6
    <2>2. <<0 .. y, 0 .. x>> \in R
      BY <2>1, <1>1 DEF StrictSubsetOrdering
    <2> QED BY <1>5, <2>2
  <1> QED BY <1>5, <1>6

\* A nonempty set of positions has a last one. CHOOSE in Innermost and in
\* InProgressBelow rests on it.
LEMMA Largest ==
    ASSUME NEW n \in Nat, NEW S \in SUBSET (1 .. n), S # {}
    PROVE  \E i \in S : \A j \in S : j <= i
  <1> DEFINE T == {n - i : i \in S}
  <1>1. T \subseteq Nat /\ T # {}
    OBVIOUS
  <1>2. PICK x \in T : \A y \in T : x <= y
    <2> HIDE DEF T
    <2> QED BY <1>1, Smallest
  <1>3. PICK i \in S : x = n - i
    BY <1>2
  <1>4. \A j \in S : n - i <= n - j
    BY <1>2, <1>3
  <1> QED BY <1>4

\* What a sequence is after a push.
LEMMA Pushed ==
    ASSUME NEW S, NEW s \in Seq(S), NEW e \in S
    PROVE  LET r == Append(s, e)
           IN  /\ r \in Seq(S) /\ Len(r) = Len(s) + 1 /\ r # << >>
               /\ r[Len(s) + 1] = e
               /\ \A i \in 1 .. Len(s) : r[i] = s[i]
  OBVIOUS

\* What a sequence is after a pop, empty or not.
LEMMA Popped ==
    ASSUME NEW S, NEW s \in Seq(S)
    PROVE  LET r == Front(s)
           IN  /\ r \in Seq(S)
               /\ Len(r) = IF s = << >> THEN 0 ELSE Len(s) - 1
               /\ \A i \in 1 .. Len(r) : r[i] = s[i]
  <1>1. Len(s) \in Nat /\ (s = << >> <=> Len(s) = 0) /\ \A i \in 1 .. Len(s) : s[i] \in S
    OBVIOUS
  <1>2. \A i \in 1 .. (Len(s) - 1) : s[i] \in S
    BY <1>1
  <1>3. Len(s) - 1 \in Int /\ 1 \in Int
    BY <1>1
  <1>4. /\ SubSeq(s, 1, Len(s) - 1) \in Seq(S)
        /\ Len(SubSeq(s, 1, Len(s) - 1)) = IF 1 <= Len(s) - 1 THEN (Len(s) - 1) - 1 + 1 ELSE 0
        /\ \A i \in 1 .. ((Len(s) - 1) - 1 + 1) : SubSeq(s, 1, Len(s) - 1)[i] = s[1 + i - 1]
    BY <1>2, <1>3, SubSeqProperties
  <1>5. Len(SubSeq(s, 1, Len(s) - 1)) = IF s = << >> THEN 0 ELSE Len(s) - 1
    BY <1>1, <1>4
  <1>6. \A i \in 1 .. (Len(s) - 1) : SubSeq(s, 1, Len(s) - 1)[i] = s[i]
    BY <1>1, <1>4
  <1> QED BY <1>1, <1>4, <1>5, <1>6 DEF Front

\* The records of runPanicUnwind.
UnwindRecords ==
    [kind : {"unwind"}, prev : BOOLEAN, frec : BOOLEAN, taken : BOOLEAN, frame : 0 .. MaxFrames]

\* The three shapes of a record of the native stack, and their fields.
LEMMA RecordKinds ==
    /\ \A r \in Records :
        /\ r.kind \in {"run", "ret", "unwind"}
        /\ r.kind = "run" => r.target \in 0 .. NoTarget
        /\ r.kind = "ret" => r.gone \in BOOLEAN /\ r = RetRec(r.gone)
        /\ r.kind = "unwind" => r \in UnwindRecords
    /\ \A t \in 0 .. NoTarget :
            RunRec(t) \in Records /\ RunRec(t).kind = "run" /\ RunRec(t).target = t
    /\ \A g \in BOOLEAN :
            RetRec(g) \in Records /\ RetRec(g).kind = "ret" /\ RetRec(g).gone = g
    /\ UnwindRecords \subseteq Records
    /\ \A p \in BOOLEAN : /\ UnwindRec(p) \in UnwindRecords
                          /\ UnwindRec(p).kind = "unwind" /\ UnwindRec(p).prev = p
                          /\ ~UnwindRec(p).frec /\ UnwindRec(p).frame = 0
  <1>1. \A p \in BOOLEAN : /\ UnwindRec(p) \in UnwindRecords
                          /\ UnwindRec(p).kind = "unwind" /\ UnwindRec(p).prev = p
                          /\ ~UnwindRec(p).frec /\ UnwindRec(p).frame = 0
    BY UnwindAssumption DEF UnwindRecords, UnwindRec
  <1>2. \A g \in BOOLEAN :
            RetRec(g) \in Records /\ RetRec(g).kind = "ret" /\ RetRec(g).gone = g
    BY DEF Records, RetRec
  <1>3. \A t \in 0 .. NoTarget :
            RunRec(t) \in Records /\ RunRec(t).kind = "run" /\ RunRec(t).target = t
    BY DEF Records, RunRec
  <1>4. UnwindRecords \subseteq Records
    BY DEF Records, UnwindRecords
  <1>5. ASSUME NEW r \in Records PROVE
        /\ r.kind \in {"run", "ret", "unwind"}
        /\ r.kind = "run" => r.target \in 0 .. NoTarget
        /\ r.kind = "ret" => r.gone \in BOOLEAN /\ r = RetRec(r.gone)
        /\ r.kind = "unwind" => r \in UnwindRecords
    <2>1. CASE \E g \in BOOLEAN : r = RetRec(g)
      BY <2>1 DEF RetRec
    <2>2. CASE \E t \in 0 .. NoTarget : r = RunRec(t)
      BY <2>2 DEF RunRec
    <2>3. CASE r \in UnwindRecords
      <3>1. r.kind = "unwind"
        BY <2>3 DEF UnwindRecords
      <3> QED BY <2>3, <3>1
    <2>4. r \in {RetRec(g) : g \in BOOLEAN} \cup {RunRec(t) : t \in 0 .. NoTarget}
               \cup UnwindRecords
      BY DEF Records, UnwindRecords
    <2> QED BY <2>1, <2>2, <2>3, <2>4
  <1> QED BY <1>1, <1>2, <1>3, <1>4, <1>5

\* The fields of a record of runPanicUnwind.
LEMMA UnwindFields ==
    ASSUME NEW r \in UnwindRecords
    PROVE  /\ r \in Records /\ r.kind = "unwind"
           /\ r.prev \in BOOLEAN /\ r.frec \in BOOLEAN
           /\ r.frame \in 0 .. MaxFrames /\ r.frame \in Int
           /\ [r EXCEPT !.taken = TRUE] \in UnwindRecords
           /\ [r EXCEPT !.taken = TRUE].prev = r.prev
           /\ [r EXCEPT !.taken = TRUE].frec = r.frec
           /\ [r EXCEPT !.taken = TRUE].frame = r.frame
  <1>1. r \in Records
    BY RecordKinds
  <1>2. r.frame \in 0 .. MaxFrames
    BY DEF UnwindRecords
  <1>3. r.frame \in Int
    BY <1>2, UnwindAssumption
  <1> QED BY <1>1, <1>2, <1>3 DEF UnwindRecords

\* TypeOK's part about ctl, of any stack c.
CtlOK(c) ==
    /\ c \in Seq(Records)
    /\ \A i \in DOMAIN c : c[i].kind # "run" => i > 1 /\ c[i - 1].kind = "run"

\* A run may be called by any record.
LEMMA PushRun ==
    ASSUME NEW c, CtlOK(c), NEW t \in 0 .. NoTarget
    PROVE  CtlOK(Append(c, RunRec(t)))
  <1>1. RunRec(t) \in Records /\ RunRec(t).kind = "run"
    BY RecordKinds
  <1>2. c \in Seq(Records)
    BY DEF CtlOK
  <1> DEFINE r == Append(c, RunRec(t))
  <1>3. /\ r \in Seq(Records) /\ Len(r) = Len(c) + 1
        /\ r[Len(c) + 1] = RunRec(t)
        /\ \A i \in 1 .. Len(c) : r[i] = c[i]
    BY <1>1, <1>2, Pushed
  <1>4. DOMAIN r = 1 .. (Len(c) + 1) /\ DOMAIN c = 1 .. Len(c) /\ Len(c) \in Nat
    BY <1>2, <1>3
  <1> HIDE DEF r
  <1> QED BY <1>1, <1>3, <1>4 DEF CtlOK

\* retSlowPath and runPanicUnwind are called by a run.
LEMMA PushOther ==
    ASSUME NEW c, CtlOK(c), c # << >>, Last(c).kind = "run", NEW e \in Records
    PROVE  CtlOK(Append(c, e))
  <1>2. c \in Seq(Records) /\ c[Len(c)].kind = "run" /\ Len(c) \in Nat \ {0}
    BY DEF CtlOK, Last
  <1> DEFINE r == Append(c, e)
  <1>3. /\ r \in Seq(Records) /\ Len(r) = Len(c) + 1
        /\ r[Len(c) + 1] = e
        /\ \A i \in 1 .. Len(c) : r[i] = c[i]
    BY <1>2, Pushed
  <1>4. DOMAIN r = 1 .. (Len(c) + 1) /\ DOMAIN c = 1 .. Len(c)
    BY <1>2, <1>3
  <1> HIDE DEF r
  <1> QED BY <1>2, <1>3, <1>4 DEF CtlOK

\* What is left of a stack when its top record returns.
LEMMA PopCtl ==
    ASSUME NEW c, CtlOK(c), c # << >>
    PROVE  /\ CtlOK(Front(c))
           /\ Len(Front(c)) = Len(c) - 1
           /\ \A i \in 1 .. Len(Front(c)) : Front(c)[i] = c[i]
           /\ Last(c).kind # "run" => Front(c) # << >> /\ Last(Front(c)).kind = "run"
  <1>1. /\ c \in Seq(Records) /\ Len(c) \in Nat \ {0} /\ DOMAIN c = 1 .. Len(c)
        /\ Len(c) \in DOMAIN c
    BY DEF CtlOK
  <1> DEFINE r == Front(c)
  <1>2. /\ r \in Seq(Records) /\ Len(r) = Len(c) - 1
        /\ \A i \in 1 .. Len(r) : r[i] = c[i]
    BY <1>1, Popped
  <1>3. DOMAIN r = 1 .. (Len(c) - 1) /\ (r = << >> <=> Len(r) = 0)
    BY <1>2
  <1> HIDE DEF r
  <1>4. CtlOK(r)
    BY <1>1, <1>2, <1>3 DEF CtlOK
  <1>5. c[Len(c)].kind # "run" => Len(c) > 1 /\ c[Len(c) - 1].kind = "run"
    BY <1>1 DEF CtlOK
  <1>6. c[Len(c)].kind # "run" => r # << >> /\ r[Len(r)].kind = "run"
    BY <1>1, <1>2, <1>3, <1>5
  <1> QED BY <1>2, <1>4, <1>6 DEF r, Last

\* d is c but for the taken of its unwinds.
Alike(c, d) ==
    /\ Len(d) = Len(c)
    /\ \A i \in 1 .. Len(c) :
        /\ d[i].kind = c[i].kind
        /\ c[i].kind # "unwind" => d[i] = c[i]
        /\ c[i].kind = "unwind" => /\ d[i].prev = c[i].prev /\ d[i].frec = c[i].frec
                                  /\ d[i].frame = c[i].frame

\* core_recover marks one unwind as taken and changes nothing else of ctl.
LEMMA RecoverMarks ==
    ASSUME TypeOK, CoreRecover
    PROVE  CtlOK(ctl') /\ Alike(ctl, ctl') /\ recovered' \in BOOLEAN
  <1>1. CtlOK(ctl) /\ ctl \in Seq(Records) /\ Len(ctl) \in Nat /\ DOMAIN ctl = 1 .. Len(ctl)
    BY DEF TypeOK, CtlOK
  <1>2. CASE UNCHANGED ctl
    BY <1>1, <1>2 DEF Alike, CoreRecover, TypeOK
  <1>3. CASE Unwinds # {} /\ ctl' = [ctl EXCEPT ![Innermost].taken = TRUE]
    <2>1. Unwinds \in SUBSET (1 .. Len(ctl))
      BY <1>1 DEF Unwinds
    <2>2. Innermost \in Unwinds
      BY <1>1, <1>3, <2>1, Largest DEF Innermost
    <2> DEFINE n == Innermost
    <2>3. n \in 1 .. Len(ctl) /\ ctl[n].kind = "unwind"
      BY <2>1, <2>2 DEF Unwinds
    <2> DEFINE r == [ctl[n] EXCEPT !.taken = TRUE]
    <2>4. ctl[n] \in UnwindRecords
      BY <1>1, <2>3, RecordKinds
    <2>5. /\ r \in Records /\ r.kind = "unwind" /\ r.prev = ctl[n].prev
          /\ r.frec = ctl[n].frec /\ r.frame = ctl[n].frame
      BY <2>4, UnwindFields
    <2> HIDE DEF n
    <2>6. ctl' = [ctl EXCEPT ![n] = r]
      BY <1>3 DEF n
    <2> HIDE DEF r
    <2>7. /\ ctl' \in Seq(Records) /\ Len(ctl') = Len(ctl)
          /\ \A j \in 1 .. Len(ctl) : ctl'[j] = IF j = n THEN r ELSE ctl[j]
      BY <1>1, <2>3, <2>5, <2>6, ExceptSeq
    <2>8. DOMAIN ctl' = 1 .. Len(ctl)
      BY <2>7
    <2>9. Alike(ctl, ctl')
      BY <1>1, <2>3, <2>5, <2>7 DEF Alike
    <2>10. CtlOK(ctl')
      BY <1>1, <2>7, <2>8, <2>9 DEF CtlOK, Alike
    <2> QED BY <1>3, <2>9, <2>10 DEF CoreRecover, TypeOK
  <1> QED BY <1>2, <1>3 DEF CoreRecover

----------------------------------------------------------------------------
(* The panic flag.                                                         *)

\* The nearest unwind below position i of c has not recovered its frame:
\* InProgressBelow(i) of c, without CHOOSE.
Looking(c, i) ==
    \E j \in 1 .. i - 1 : /\ c[j].kind = "unwind" /\ ~c[j].frec
                          /\ \A k \in j + 1 .. i - 1 : c[k].kind # "unwind"

\* PanicFlagIsExact of a stack c and a flag p.
Flags(c, p) ==
    /\ p <=> Looking(c, Len(c) + 1)
    /\ \A i \in 1 .. Len(c) : c[i].kind = "unwind" => (c[i].prev <=> Looking(c, i))

\* Looking at i depends on the unwinds below i only.
LEMMA LookingDependsBelow ==
    ASSUME NEW c, NEW d, NEW i \in Nat,
           \A j \in 1 .. i - 1 : /\ d[j].kind = c[j].kind
                                 /\ c[j].kind = "unwind" => (d[j].frec <=> c[j].frec)
    PROVE  Looking(d, i) <=> Looking(c, i)
  BY DEF Looking

\* Looking one position further up.
LEMMA LookingAbove ==
    ASSUME NEW c, NEW n \in Nat \ {0}
    PROVE  Looking(c, n + 1) <=> IF c[n].kind = "unwind" THEN ~c[n].frec ELSE Looking(c, n)
  <1>1. CASE c[n].kind = "unwind"
    BY <1>1 DEF Looking
  <1>2. CASE c[n].kind # "unwind"
    BY <1>2 DEF Looking
  <1> QED BY <1>1, <1>2

\* Every prev_panicking of a stack is right in each of its prefixes.
LEMMA FlagsPrefix ==
    ASSUME NEW c, NEW d, NEW p, Len(c) \in Nat, Len(d) \in Nat, Len(d) <= Len(c),
           Flags(c, p), \A i \in 1 .. Len(d) : d[i] = c[i]
    PROVE  \A i \in 1 .. Len(d) : d[i].kind = "unwind" => (d[i].prev <=> Looking(d, i))
  <1> SUFFICES ASSUME NEW i \in 1 .. Len(d), d[i].kind = "unwind"
               PROVE  d[i].prev <=> Looking(d, i)
    OBVIOUS
  <1>1. Looking(d, i) <=> Looking(c, i)
    BY LookingDependsBelow
  <1>2. i \in 1 .. Len(c) /\ d[i] = c[i]
    OBVIOUS
  <1> QED BY <1>1, <1>2 DEF Flags

\* A run or a return leaves the flag right; so does an unwind that saves the
\* flag it found and begins to look for a recover().
LEMMA FlagsPush ==
    ASSUME NEW c, NEW e \in Records, NEW p \in BOOLEAN, CtlOK(c), Flags(c, p)
    PROVE  /\ e.kind # "unwind" => Flags(Append(c, e), p)
           /\ e.kind = "unwind" /\ e.prev = p => Flags(Append(c, e), ~e.frec)
  <1>1. c \in Seq(Records) /\ Len(c) \in Nat
    BY DEF CtlOK
  <1> DEFINE r == Append(c, e)
             n == Len(c) + 1
  <1>2. /\ Len(r) = n /\ r[n] = e /\ n \in Nat \ {0}
        /\ \A i \in 1 .. Len(c) : r[i] = c[i]
    BY <1>1, Pushed
  <1> HIDE DEF r
  <1>3. \A i \in 1 .. n : Looking(r, i) <=> Looking(c, i)
    BY <1>1, <1>2, LookingDependsBelow
  <1>4. \A i \in 1 .. n : i # n => i \in 1 .. Len(c)
    BY <1>1
  <1>5. \A i \in 1 .. n : i # n /\ r[i].kind = "unwind" => (r[i].prev <=> Looking(r, i))
    BY <1>2, <1>3, <1>4 DEF Flags
  <1>6. Looking(r, n) <=> p
    BY <1>1, <1>3 DEF Flags
  <1>7. Looking(r, n + 1) <=> IF e.kind = "unwind" THEN ~e.frec ELSE p
    BY <1>2, <1>6, LookingAbove
  <1>8. ASSUME e.kind # "unwind" PROVE Flags(r, p)
    BY <1>2, <1>5, <1>7, <1>8 DEF Flags
  <1>9. ASSUME e.kind = "unwind", e.prev = p PROVE Flags(r, ~e.frec)
    BY <1>2, <1>5, <1>6, <1>7, <1>9 DEF Flags
  <1> QED BY <1>8, <1>9 DEF r

\* A run or a return that ends leaves the flag right; an unwind that ends must
\* restore the flag it saved.
LEMMA FlagsPop ==
    ASSUME NEW c, NEW p \in BOOLEAN, CtlOK(c), Flags(c, p), c # << >>
    PROVE  /\ Last(c).kind # "unwind" => Flags(Front(c), p)
           /\ Last(c).kind = "unwind" => Flags(Front(c), Last(c).prev) /\ (p <=> ~Last(c).frec)
  <1>1. c \in Seq(Records) /\ Len(c) \in Nat \ {0}
    BY DEF CtlOK
  <1> DEFINE r == Front(c)
             n == Len(c)
  <1>2. Len(r) = n - 1 /\ \A i \in 1 .. Len(r) : r[i] = c[i]
    BY PopCtl
  <1> HIDE DEF r
  <1>3. \A i \in 1 .. Len(r) : r[i].kind = "unwind" => (r[i].prev <=> Looking(r, i))
    <2>1. Len(c) \in Nat /\ Len(r) \in Nat /\ Len(r) <= Len(c)
      BY <1>1, <1>2
    <2> QED BY <1>2, <2>1, FlagsPrefix
  <1>4. Looking(r, n) <=> Looking(c, n)
    BY <1>1, <1>2, LookingDependsBelow
  <1>5. p <=> IF c[n].kind = "unwind" THEN ~c[n].frec ELSE Looking(r, n)
    BY <1>1, <1>4, LookingAbove DEF Flags
  <1>6. c[n].kind = "unwind" => (c[n].prev <=> Looking(r, n))
    BY <1>1, <1>4 DEF Flags
  <1>7. Len(r) + 1 = n
    BY <1>1, <1>2
  <1> QED BY <1>3, <1>5, <1>6, <1>7 DEF Flags, Last, r

\* taken has no part in the flag.
LEMMA FlagsAlike ==
    ASSUME NEW c, NEW d, NEW p, CtlOK(c), Alike(c, d), Flags(c, p)
    PROVE  Flags(d, p)
  <1>1. Len(c) \in Nat
    BY DEF CtlOK
  <1>2. \A i \in 1 .. Len(c) + 1 : Looking(d, i) <=> Looking(c, i)
    BY <1>1, LookingDependsBelow DEF Alike
  <1> QED BY <1>1, <1>2 DEF Flags, Alike

----------------------------------------------------------------------------
(* The targets of the runs.                                                *)

\* A run of c with a depth to come down to.
Bounded(c, i) == c[i].kind = "run" /\ c[i].target # NoTarget

\* The record at i of c is a return whose frame has gone.
Gone(c, i) == c[i].kind = "ret" /\ c[i].gone

\* The runs nest: their targets grow with the native stack, strictly unless the
\* inner one has been called by a return whose frame has gone.
Ordered(c) ==
    \A i, j \in 1 .. Len(c) :
        i < j /\ Bounded(c, i) /\ Bounded(c, j)
            => IF Gone(c, j - 1) THEN c[i].target <= c[j].target
                                 ELSE c[i].target < c[j].target

\* Only the first run has no target.
OnlyFirst(c) == \A i \in 1 .. Len(c) : c[i].kind = "run" /\ c[i].target = NoTarget => i = 1

\* No run of c starts above d.
Within(c, d) == \A i \in 1 .. Len(c) : Bounded(c, i) => c[i].target <= d

\* While a run executes or a frame returns, the innermost of d frames is above
\* all targets. s is what the call made by the top record has returned.
Tight(c, d, s) ==
    c # << >> /\ (\/ Last(c).kind = "ret" /\ ~Last(c).gone
                  \/ Last(c).kind = "run" /\ s # "error")
        => Within(c, d - 1)

\* An unwind that has made a call has a frame; that frame is above the targets of
\* the runs outside it, at or below those of the runs inside it, and still there.
Marks(c, d, s) ==
    \A i \in 1 .. Len(c) : c[i].kind = "unwind" =>
        /\ i < Len(c) \/ s # "none" => c[i].frame # 0
        /\ c[i].frame # 0 =>
              /\ c[i].frame <= d
              /\ \A j \in 1 .. i - 1 : Bounded(c, j) => c[j].target < c[i].frame
              /\ \A j \in i + 1 .. Len(c) : Bounded(c, j) => c[i].frame <= c[j].target

\* The native stack c while d frames are open.
Stacked(c, d, s) == CtlOK(c) /\ Ordered(c) /\ OnlyFirst(c) /\ Within(c, d) /\ Marks(c, d, s)

Nested(c, d, s) == Stacked(c, d, s) /\ Tight(c, d, s)

----------------------------------------------------------------------------
(* The invariant.                                                          *)

\* The types of frames and defers.
Stacks(f, s) ==
    /\ f \in Seq(0 .. MaxDefers) /\ Len(f) <= MaxFrames
    /\ s \in Seq([kind : Kinds, frame : 1 .. MaxFrames]) /\ Len(s) <= MaxDefers

\* The first frame above t has the lowest defer_base of the frames above t, and
\* the deferred calls below it are still there.
FloorAt(t, f, s) ==
    t < Len(f) => /\ f[t + 1] <= Len(s)
                  /\ \A j \in t + 1 .. Len(f) : f[t + 1] <= f[j]

\* The depths that the runs of c are to come down to.
Targets(c) == {c[i].target : i \in {j \in 1 .. Len(c) : Bounded(c, j)}}

Floor(c, f, s) == \A t \in Targets(c) : FloorAt(t, f, s)

\* The bases of the frames grow, and each deferred call lies in the section of
\* the frame that scheduled it, at or below the bases of ALL later frames
\* (DefersBelongToFrames speaks of the next one).
Sections(f, s) ==
    /\ \A i, j \in 1 .. Len(f) : i <= j => f[i] <= f[j]
    /\ \A i \in 1 .. Len(f) : f[i] <= Len(s)
    /\ \A n \in 1 .. Len(s) :
          /\ s[n].frame \in 1 .. Len(f)
          /\ f[s[n].frame] < n
          /\ \A j \in 1 .. Len(f) : s[n].frame < j => n <= f[j]

\* An unwind is in progress.
HasUnwind(c) == \E i \in 1 .. Len(c) : c[i].kind = "unwind"

\* recovered is set only inside an unwind, and the unwind that is on top reads
\* and resets it before it does anything else.
Taken(c, s, r) == r => HasUnwind(c) /\ (Last(c).kind = "unwind" => s # "none")

\* The first run takes all frames.
Rooted(c, d) ==
    /\ c # << >> => c[1].target \in {0, NoTarget}
    /\ c = << >> => d = 0

\* The frame that an unwind is at is the innermost one, but for those of the run
\* that it has called.
Matched(c, d) ==
    \A i \in 1 .. Len(c) : c[i].kind = "unwind" =>
        IF i = Len(c) THEN c[i].frame \in {0, d}
        ELSE Bounded(c, i + 1) /\ c[i + 1].target = c[i].frame

\* What holds of the native stack until an unwind has itself failed.
Exact(c, d, s, p, r) == Flags(c, p) /\ Rooted(c, d) /\ Taken(c, s, r) /\ Matched(c, d)

Types ==
    /\ Stacks(frames, defers)
    /\ isPanicking \in BOOLEAN /\ recovered \in BOOLEAN /\ unwindFailed \in BOOLEAN
    /\ signal \in {"none", "ok", "done", "error"}

\* Whatever fails: the types, and the targets of the runs.
Skeleton == Types /\ Nested(ctl, Depth, signal)

\* The inductive invariant.
UInv ==
    /\ Skeleton
    /\ Floor(ctl, frames, defers)
    /\ ~unwindFailed => /\ Sections(frames, defers)
                        /\ Exact(ctl, Depth, signal, isPanicking, recovered)
----------------------------------------------------------------------------
(* Changes of the native stack: the targets.                               *)

\* The facts about a stack that the provers need again and again.
LEMMA CtlFacts ==
    ASSUME NEW c, CtlOK(c)
    PROVE  /\ c \in Seq(Records) /\ Len(c) \in Nat /\ DOMAIN c = 1 .. Len(c)
           /\ c = << >> <=> Len(c) = 0
           /\ \A i \in 1 .. Len(c) : c[i] \in Records /\ c[i].kind \in {"run", "ret", "unwind"}
           /\ \A i \in 1 .. Len(c) : c[i].kind = "run" => c[i].target \in 0 .. NoTarget
           /\ \A i \in 1 .. Len(c) : Bounded(c, i) => c[i].target \in 0 .. MaxFrames
           /\ \A i \in 1 .. Len(c) : c[i].kind = "unwind" => c[i] \in UnwindRecords
           /\ \A i \in 1 .. Len(c) : c[i].kind = "unwind" => c[i].frame \in 0 .. MaxFrames
           /\ \A i \in 1 .. Len(c) : c[i].kind # "run" => i > 1 /\ c[i - 1].kind = "run"
           /\ MaxFrames \in Nat /\ NoTarget \in Nat
  <1>1. c \in Seq(Records) /\ Len(c) \in Nat /\ DOMAIN c = 1 .. Len(c)
           /\ (c = << >> <=> Len(c) = 0)
           /\ \A i \in 1 .. Len(c) : c[i] \in Records
    BY DEF CtlOK
  <1>2. \A i \in 1 .. Len(c) : c[i].kind # "run" => i > 1 /\ c[i - 1].kind = "run"
    BY <1>1 DEF CtlOK
  <1>3. /\ \A i \in 1 .. Len(c) : c[i].kind \in {"run", "ret", "unwind"}
        /\ \A i \in 1 .. Len(c) : c[i].kind = "run" => c[i].target \in 0 .. NoTarget
        /\ \A i \in 1 .. Len(c) : c[i].kind = "unwind" => c[i] \in UnwindRecords
    BY <1>1, RecordKinds
  <1>4. \A i \in 1 .. Len(c) : c[i].kind = "unwind" => c[i].frame \in 0 .. MaxFrames
    BY <1>3, UnwindFields
  <1>5. MaxFrames \in Nat /\ NoTarget = MaxFrames + 1
    BY UnwindAssumption DEF NoTarget
  <1>6. \A i \in 1 .. Len(c) : Bounded(c, i) => c[i].target \in 0 .. MaxFrames
    BY <1>3, <1>5 DEF Bounded
  <1> QED BY <1>1, <1>2, <1>3, <1>4, <1>5, <1>6

\* The top record is a record.
LEMMA LastOfCtl ==
    ASSUME NEW c, CtlOK(c), c # << >>
    PROVE  /\ Len(c) \in 1 .. Len(c) /\ Len(c) \in Nat /\ Last(c) = c[Len(c)]
           /\ Last(c) \in Records /\ Last(c).kind \in {"run", "ret", "unwind"}
           /\ Last(c).kind = "run" => Last(c).target \in 0 .. NoTarget
           /\ Last(c).kind = "unwind" => Last(c) \in UnwindRecords
  <1>1. Len(c) \in 1 .. Len(c) /\ Len(c) \in Nat
    BY CtlFacts
  <1> QED BY <1>1, CtlFacts DEF Last

\* More frames ask less of the stack.
LEMMA StackedMore ==
    ASSUME NEW c, NEW s, NEW d \in Int, NEW e \in Int, d <= e, Stacked(c, d, s)
    PROVE  Stacked(c, e, s)
  <1>1. CtlOK(c)
    BY DEF Stacked
  <1>2. Within(c, e)
    BY <1>1, CtlFacts DEF Stacked, Within
  <1>3. Marks(c, e, s)
    BY <1>1, CtlFacts DEF Stacked, Marks
  <1> QED BY <1>2, <1>3 DEF Stacked

\* What the last call has returned matters to an unwind between two frames only.
LEMMA StackedSignal ==
    ASSUME NEW c, NEW d, NEW s, NEW r, Stacked(c, d, s),
           \/ c = << >> \/ Last(c).kind # "unwind" \/ Last(c).frame # 0 \/ r = "none"
    PROVE  Stacked(c, d, r)
  <1>1. CtlOK(c)
    BY DEF Stacked
  <1>2. Len(c) \in Nat /\ (c = << >> <=> Len(c) = 0)
    BY <1>1, CtlFacts
  <1>3. ASSUME NEW i \in 1 .. Len(c), c[i].kind = "unwind", ~(i < Len(c)), r # "none"
        PROVE  c[i].frame # 0
    <2>1. i = Len(c)
      BY <1>2, <1>3
    <2> QED BY <1>2, <1>3, <2>1 DEF Last
  <1>4. Marks(c, d, r)
    BY <1>2, <1>3 DEF Stacked, Marks
  <1> QED BY <1>4 DEF Stacked

\* What is left of the stack when its top record returns, whatever that returns.
LEMMA StackedPop ==
    ASSUME NEW c, NEW d, NEW s, NEW r, Stacked(c, d, s), c # << >>
    PROVE  Stacked(Front(c), d, r)
  <1> DEFINE f == Front(c)
             n == Len(c)
  <1>1. CtlOK(c)
    BY DEF Stacked
  <1>2. /\ CtlOK(f) /\ Len(f) = n - 1 /\ n \in Nat
        /\ \A i \in 1 .. Len(f) : f[i] = c[i]
    BY <1>1, PopCtl, CtlFacts
  <1> HIDE DEF f
  <1>3. \A i \in 1 .. Len(f) : /\ i \in 1 .. n /\ i < n
                               /\ Bounded(f, i) <=> Bounded(c, i)
    BY <1>2 DEF Bounded
  <1>4. Ordered(f)
    <2> SUFFICES ASSUME NEW i \in 1 .. Len(f), NEW j \in 1 .. Len(f), i < j,
                        Bounded(f, i), Bounded(f, j)
                 PROVE  IF Gone(f, j - 1) THEN f[i].target <= f[j].target
                                          ELSE f[i].target < f[j].target
      BY DEF Ordered
    <2>1. j - 1 \in 1 .. Len(f) /\ i \in 1 .. n /\ j \in 1 .. n /\ Bounded(c, i) /\ Bounded(c, j)
      BY <1>2, <1>3
    <2>2. Gone(f, j - 1) <=> Gone(c, j - 1)
      BY <1>2, <2>1 DEF Gone
    <2> QED BY <1>2, <2>1, <2>2 DEF Ordered, Stacked
  <1>5. OnlyFirst(f) /\ Within(f, d)
    BY <1>2, <1>3 DEF Stacked, OnlyFirst, Within
  <1>6. Marks(f, d, r)
    <2> SUFFICES ASSUME NEW i \in 1 .. Len(f), f[i].kind = "unwind"
                 PROVE  /\ f[i].frame # 0
                        /\ f[i].frame <= d
                        /\ \A j \in 1 .. i - 1 : Bounded(f, j) => f[j].target < f[i].frame
                        /\ \A j \in i + 1 .. Len(f) : Bounded(f, j) => f[i].frame <= f[j].target
      BY DEF Marks
    <2>1. i \in 1 .. n /\ i < n /\ c[i].kind = "unwind" /\ f[i] = c[i]
      BY <1>2, <1>3
    <2>2. /\ c[i].frame # 0
          /\ c[i].frame <= d
          /\ \A j \in 1 .. i - 1 : Bounded(c, j) => c[j].target < c[i].frame
          /\ \A j \in i + 1 .. n : Bounded(c, j) => c[i].frame <= c[j].target
      BY <2>1 DEF Stacked, Marks
    <2>3. /\ \A j \in 1 .. i - 1 : j \in 1 .. Len(f)
          /\ \A j \in i + 1 .. Len(f) : j \in 1 .. Len(f) /\ j \in i + 1 .. n
      BY <1>2
    <2> QED BY <1>2, <1>3, <2>1, <2>2, <2>3
  <1> QED BY <1>2, <1>4, <1>5, <1>6 DEF Stacked, f

\* A run on top bounds the stack: the runs below it have come less far down, and
\* the unwinds below it are at frames at or below its target.
LEMMA BelowTheLastRun ==
    ASSUME NEW c, NEW d, NEW s, Stacked(c, d, s), c # << >>, Last(c).kind = "run", NEW e \in Int,
           Last(c).target = NoTarget \/ Last(c).target <= e
    PROVE  /\ \A r : Stacked(c, e, r)
           /\ Last(c).target = NoTarget => Front(c) = << >>
           /\ Front(c) # << >> /\ ~Gone(c, Len(c) - 1) => Within(Front(c), e - 1)
  <1> DEFINE n == Len(c)
  <1>1. CtlOK(c) /\ Ordered(c) /\ OnlyFirst(c) /\ Within(c, d) /\ Marks(c, d, s)
    BY DEF Stacked
  <1>2. /\ n \in Nat \ {0} /\ c[n].kind = "run" /\ Last(c) = c[n]
        /\ c[n].target = NoTarget \/ c[n].target <= e
    <2>1. n \in 1 .. n /\ n \in Nat /\ Last(c) = c[n]
      BY <1>1, LastOfCtl
    <2> QED BY <2>1
  <1>3. /\ \A i \in 1 .. n : Bounded(c, i) => c[i].target \in Int
        /\ \A i \in 1 .. n : c[i].kind = "unwind" => c[i].frame \in Int
    BY <1>1, CtlFacts
  <1>4. CtlOK(Front(c)) /\ Len(Front(c)) = n - 1 /\ \A i \in 1 .. n - 1 : Front(c)[i] = c[i]
    BY <1>1, PopCtl
  <1>5. Front(c) = << >> <=> Len(Front(c)) = 0
    BY <1>4, CtlFacts
  <1>6. CASE c[n].target = NoTarget
    <2>1. n = 1
      <3>1. n \in 1 .. Len(c) /\ c[n].kind = "run" /\ c[n].target = NoTarget
        BY <1>2, <1>6
      <3>2. \A i \in 1 .. Len(c) : c[i].kind = "run" /\ c[i].target = NoTarget => i = 1
        BY <1>1 DEF OnlyFirst
      <3> HIDE DEF n
      <3> QED BY <3>1, <3>2
    <2>2. \A i \in 1 .. n : ~Bounded(c, i) /\ c[i].kind # "unwind"
      BY <1>2, <1>6, <2>1 DEF Bounded
    <2>3. \A r : Marks(c, e, r)
      BY <2>2 DEF Marks
    <2>4. Within(c, e)
      BY <2>2 DEF Within
    <2>5. Front(c) = << >>
      BY <1>4, <1>5, <2>1
    <2> QED BY <1>1, <2>3, <2>4, <2>5 DEF Stacked
  <1>7. CASE c[n].target # NoTarget
    <2>1. Bounded(c, n) /\ n \in 1 .. n /\ c[n].target <= e
      BY <1>2, <1>7 DEF Bounded
    <2>2. \A i \in 1 .. n : i < n /\ Bounded(c, i)
              => IF Gone(c, n - 1) THEN c[i].target <= c[n].target ELSE c[i].target < c[n].target
      BY <1>1, <2>1 DEF Ordered
    <2>3. \A i \in 1 .. n : Bounded(c, i) => c[i].target <= e
      BY <1>2, <1>3, <2>1, <2>2
    <2>4. Within(c, e)
      BY <2>3 DEF Within
    <2>5. ASSUME NEW r PROVE Marks(c, e, r)
      <3> SUFFICES ASSUME NEW i \in 1 .. n, c[i].kind = "unwind"
                   PROVE  /\ c[i].frame # 0
                          /\ c[i].frame <= e
                          /\ \A j \in 1 .. i - 1 : Bounded(c, j) => c[j].target < c[i].frame
                          /\ \A j \in i + 1 .. n : Bounded(c, j) => c[i].frame <= c[j].target
        BY DEF Marks
      <3>1. i < n /\ n \in i + 1 .. n
        BY <1>2
      <3>2. /\ c[i].frame # 0
            /\ \A j \in 1 .. i - 1 : Bounded(c, j) => c[j].target < c[i].frame
            /\ \A j \in i + 1 .. n : Bounded(c, j) => c[i].frame <= c[j].target
        BY <1>1, <3>1 DEF Marks
      <3>3. c[i].frame <= c[n].target
        BY <2>1, <3>1, <3>2
      <3>4. c[i].frame <= e
        BY <1>3, <2>1, <3>3
      <3> QED BY <3>2, <3>4
    <2>6. ASSUME ~Gone(c, n - 1) PROVE Within(Front(c), e - 1)
      <3>1. \A i \in 1 .. n - 1 : Bounded(c, i) => c[i].target <= e - 1
        BY <1>2, <1>3, <2>1, <2>2, <2>6
      <3> QED BY <1>4, <3>1 DEF Within, Bounded
    <2> QED BY <1>1, <1>2, <1>7, <2>4, <2>5, <2>6 DEF Stacked
  <1> QED BY <1>6, <1>7

\* taken has no part in all this.
LEMMA StackedAlike ==
    ASSUME NEW c, NEW a, NEW d \in Int, NEW s, CtlOK(a), Alike(c, a), Stacked(c, d, s)
    PROVE  /\ Stacked(a, d, s)
           /\ \A e \in Int : Within(c, e) => Within(a, e)
           /\ \A i \in 1 .. Len(c) : Bounded(a, i) <=> Bounded(c, i)
           /\ \A i \in 1 .. Len(c) : Bounded(c, i) => a[i].target = c[i].target
           /\ a = << >> <=> c = << >>
           /\ c # << >> => /\ Last(a).kind = Last(c).kind
                           /\ Last(c).kind = "ret" => Last(a).gone = Last(c).gone
                           /\ Last(c).kind = "unwind" => Last(a).frame = Last(c).frame
  <1>1. CtlOK(c) /\ Len(c) \in Nat /\ Len(a) = Len(c)
    BY CtlFacts DEF Stacked, Alike
  <1>2. \A i \in 1 .. Len(c) : /\ a[i].kind = c[i].kind
                               /\ c[i].kind # "unwind" => a[i] = c[i]
                               /\ c[i].kind = "unwind" => a[i].frame = c[i].frame
    BY DEF Alike
  <1>3. \A i \in 1 .. Len(c) : /\ Bounded(a, i) <=> Bounded(c, i)
                               /\ Bounded(c, i) => a[i].target = c[i].target
                               /\ Gone(a, i) <=> Gone(c, i)
    BY <1>2 DEF Bounded, Gone
  <1>4. \A i, j \in 1 .. Len(c) : i < j => j - 1 \in 1 .. Len(c)
    BY <1>1
  <1>5. Ordered(a)
    BY <1>1, <1>3, <1>4 DEF Ordered, Stacked
  <1>6. OnlyFirst(a)
    BY <1>1, <1>2 DEF OnlyFirst, Stacked
  <1>7. \A e \in Int : Within(c, e) => Within(a, e)
    BY <1>1, <1>3 DEF Within
  <1>8. Marks(a, d, s)
    <2> SUFFICES ASSUME NEW i \in 1 .. Len(c), a[i].kind = "unwind"
                 PROVE  /\ i < Len(c) \/ s # "none" => a[i].frame # 0
                        /\ a[i].frame # 0 =>
                            /\ a[i].frame <= d
                            /\ \A j \in 1 .. i - 1 : Bounded(a, j) => a[j].target < a[i].frame
                            /\ \A j \in i + 1 .. Len(c) : Bounded(a, j)
                                                            => a[i].frame <= a[j].target
      BY <1>1 DEF Marks
    <2>1. c[i].kind = "unwind" /\ a[i].frame = c[i].frame
      BY <1>2
    <2>2. \A j \in 1 .. i - 1 : j \in 1 .. Len(c)
      BY <1>1
    <2>3. \A j \in i + 1 .. Len(c) : j \in 1 .. Len(c)
      BY <1>1
    <2> QED BY <1>3, <2>1, <2>2, <2>3 DEF Stacked, Marks
  <1>9. /\ a = << >> <=> c = << >>
        /\ c # << >> => /\ Last(a).kind = Last(c).kind
                        /\ Last(c).kind = "ret" => Last(a).gone = Last(c).gone
                        /\ Last(c).kind = "unwind" => Last(a).frame = Last(c).frame
    <2>1. (a = << >> <=> Len(a) = 0) /\ (c = << >> <=> Len(c) = 0)
      BY <1>1, CtlFacts
    <2>2. c # << >> => Len(c) \in 1 .. Len(c)
      BY <1>1, <2>1
    <2> QED BY <1>1, <1>2, <2>1, <2>2 DEF Last
  <1> QED BY <1>3, <1>5, <1>6, <1>7, <1>8, <1>9 DEF Stacked

\* A run may be called at the depth d if every other run comes less far down, or
\* by a return whose frame has gone, or by an unwind for its frame.
LEMMA StackedPushRun ==
    ASSUME NEW c, NEW d \in 0 .. MaxFrames, NEW s, NEW r, Stacked(c, d, s),
           c = << >> \/ Within(c, d - 1) \/ Gone(c, Len(c)),
           c # << >> /\ Last(c).kind = "unwind" => Last(c).frame # 0
    PROVE  /\ Stacked(Append(c, RunRec(d)), d, r)
           /\ Append(c, RunRec(d)) # << >> /\ Last(Append(c, RunRec(d))) = RunRec(d)
  <1> DEFINE a == Append(c, RunRec(d))
             n == Len(c)
  <1>1. CtlOK(c) /\ Ordered(c) /\ OnlyFirst(c) /\ Within(c, d) /\ Marks(c, d, s)
    BY DEF Stacked
  <1>2. /\ n \in Nat /\ d \in Int /\ d \in 0 .. NoTarget /\ d # NoTarget
        /\ c = << >> <=> n = 0
        /\ \A i \in 1 .. n : Bounded(c, i) => c[i].target \in Int
        /\ \A i \in 1 .. n : c[i].kind = "unwind" => c[i].frame \in Int
    BY <1>1, CtlFacts, UnwindAssumption DEF NoTarget
  <1>3. RunRec(d) \in Records /\ RunRec(d).kind = "run" /\ RunRec(d).target = d
    BY <1>2, RecordKinds
  <1>4. /\ Len(a) = n + 1 /\ a[n + 1] = RunRec(d) /\ a # << >>
        /\ \A i \in 1 .. n : a[i] = c[i]
    BY <1>1, <1>3, CtlFacts, Pushed
  <1>5. CtlOK(a)
    BY <1>1, <1>2, PushRun
  <1>6. Last(a) = RunRec(d)
    BY <1>4 DEF Last
  <1> HIDE DEF a, n
  <1>7. \A i \in 1 .. n + 1 : i = n + 1 \/ i \in 1 .. n
    BY <1>2
  <1>8. /\ \A i \in 1 .. n : /\ Bounded(a, i) <=> Bounded(c, i)
                             /\ Gone(a, i) <=> Gone(c, i)
        /\ Bounded(a, n + 1) /\ a[n + 1].target = d
    BY <1>2, <1>3, <1>4 DEF Bounded, Gone
  <1>9. Within(a, d)
    BY <1>1, <1>2, <1>4, <1>7, <1>8 DEF Within, n
  <1>10. OnlyFirst(a)
    BY <1>1, <1>2, <1>3, <1>4, <1>7 DEF OnlyFirst, n
  <1>11. Ordered(a)
    <2> SUFFICES ASSUME NEW i \in 1 .. n + 1, NEW j \in 1 .. n + 1, i < j,
                        Bounded(a, i), Bounded(a, j)
                 PROVE  IF Gone(a, j - 1) THEN a[i].target <= a[j].target
                                          ELSE a[i].target < a[j].target
      BY <1>4 DEF Ordered
    <2>1. i \in 1 .. n /\ Bounded(c, i) /\ a[i] = c[i] /\ j - 1 \in 1 .. n
      BY <1>2, <1>4, <1>8
    <2>2. Gone(a, j - 1) <=> Gone(c, j - 1)
      BY <1>8, <2>1
    <2>3. CASE j = n + 1
      <3>1. j - 1 = n /\ n # 0
        BY <1>2, <2>1, <2>3
      <3>2. c[i].target \in Int /\ c[i].target <= d
        BY <1>1, <1>2, <2>1 DEF Within, n
      <3>3. ~Gone(c, n) => c[i].target <= d - 1
        BY <1>2, <2>1, <3>1 DEF Within, n
      <3> QED BY <1>2, <1>8, <2>1, <2>2, <2>3, <3>1, <3>2, <3>3
    <2>4. CASE j # n + 1
      <3>1. j \in 1 .. n /\ Bounded(c, j) /\ a[j] = c[j]
        BY <1>4, <1>7, <1>8, <2>4
      <3> QED BY <1>1, <2>1, <2>2, <3>1 DEF Ordered, n
    <2> QED BY <2>3, <2>4
  <1>12. Marks(a, d, r)
    <2> SUFFICES ASSUME NEW i \in 1 .. n + 1, a[i].kind = "unwind"
                 PROVE  /\ a[i].frame # 0
                        /\ a[i].frame <= d
                        /\ \A j \in 1 .. i - 1 : Bounded(a, j) => a[j].target < a[i].frame
                        /\ \A j \in i + 1 .. n + 1 : Bounded(a, j) => a[i].frame <= a[j].target
      BY <1>4 DEF Marks
    <2>1. i \in 1 .. n /\ a[i] = c[i] /\ c[i].kind = "unwind"
      BY <1>3, <1>4, <1>7
    <2>2. c[i].frame # 0
      <3>1. CASE i < n
        BY <1>1, <2>1, <3>1 DEF Marks, n
      <3>2. CASE i = n
        BY <1>2, <2>1, <3>2 DEF Last, n
      <3> QED BY <1>2, <2>1, <3>1, <3>2
    <2>3. /\ c[i].frame <= d
          /\ \A j \in 1 .. i - 1 : Bounded(c, j) => c[j].target < c[i].frame
          /\ \A j \in i + 1 .. n : Bounded(c, j) => c[i].frame <= c[j].target
      BY <1>1, <2>1, <2>2 DEF Marks, n
    <2>4. /\ \A j \in 1 .. i - 1 : j \in 1 .. n
          /\ \A j \in i + 1 .. n + 1 : j = n + 1 \/ (j \in i + 1 .. n /\ j \in 1 .. n)
      BY <1>2, <2>1
    <2> QED BY <1>4, <1>8, <2>1, <2>2, <2>3, <2>4
  <1> QED BY <1>4, <1>5, <1>6, <1>9, <1>10, <1>11, <1>12 DEF Stacked, a

\* A run may call retSlowPath, and runPanicUnwind, whose frame, if it has one, is
\* above all targets.
LEMMA StackedPushOther ==
    ASSUME NEW c, NEW d \in Int, NEW s, NEW r, Stacked(c, d, s),
           c # << >>, Last(c).kind = "run",
           NEW e \in Records, e.kind # "run",
           e.kind = "unwind" => IF e.frame = 0 THEN r = "none"
                                ELSE e.frame <= d /\ Within(c, e.frame - 1)
    PROVE  /\ Stacked(Append(c, e), d, r)
           /\ Append(c, e) # << >> /\ Last(Append(c, e)) = e
           /\ \A x : Within(c, x) => Within(Append(c, e), x)
  <1> DEFINE a == Append(c, e)
             n == Len(c)
  <1>1. CtlOK(c) /\ Ordered(c) /\ OnlyFirst(c) /\ Within(c, d) /\ Marks(c, d, s)
    BY DEF Stacked
  <1>2. /\ n \in Nat /\ c[n].kind = "run"
        /\ \A i \in 1 .. n : Bounded(c, i) => c[i].target \in Int
    BY <1>1, CtlFacts DEF Last
  <1>3. /\ Len(a) = n + 1 /\ a[n + 1] = e /\ a # << >>
        /\ \A i \in 1 .. n : a[i] = c[i]
    BY <1>1, CtlFacts, Pushed
  <1>4. CtlOK(a)
    BY <1>1, PushOther
  <1>5. Last(a) = e
    BY <1>3 DEF Last
  <1>6. e.kind = "unwind" => e.frame \in Int
    BY RecordKinds, UnwindFields
  <1> HIDE DEF a, n
  <1>7. \A i \in 1 .. n + 1 : i = n + 1 \/ i \in 1 .. n
    BY <1>2
  <1>8. /\ \A i \in 1 .. n : /\ Bounded(a, i) <=> Bounded(c, i)
                             /\ Gone(a, i) <=> Gone(c, i)
        /\ ~Bounded(a, n + 1)
    BY <1>2, <1>3 DEF Bounded, Gone
  <1>9. \A x : Within(c, x) => Within(a, x)
    BY <1>3, <1>7, <1>8 DEF Within, n
  <1>10. OnlyFirst(a)
    BY <1>1, <1>3, <1>7 DEF OnlyFirst, n
  <1>11. Ordered(a)
    <2> SUFFICES ASSUME NEW i \in 1 .. n + 1, NEW j \in 1 .. n + 1, i < j,
                        Bounded(a, i), Bounded(a, j)
                 PROVE  IF Gone(a, j - 1) THEN a[i].target <= a[j].target
                                          ELSE a[i].target < a[j].target
      BY <1>3 DEF Ordered
    <2>1. /\ i \in 1 .. n /\ Bounded(c, i) /\ a[i] = c[i]
          /\ j \in 1 .. n /\ Bounded(c, j) /\ a[j] = c[j]
      BY <1>3, <1>7, <1>8
    <2>2. j - 1 \in 1 .. n
      BY <1>2, <2>1
    <2>3. Gone(a, j - 1) <=> Gone(c, j - 1)
      BY <1>8, <2>2
    <2> QED BY <1>1, <2>1, <2>3 DEF Ordered, n
  <1>12. Marks(a, d, r)
    <2> SUFFICES ASSUME NEW i \in 1 .. n + 1, a[i].kind = "unwind"
                 PROVE  /\ i < n + 1 \/ r # "none" => a[i].frame # 0
                        /\ a[i].frame # 0 =>
                              /\ a[i].frame <= d
                              /\ \A j \in 1 .. i - 1 : Bounded(a, j) => a[j].target < a[i].frame
                              /\ \A j \in i + 1 .. n + 1 : Bounded(a, j) => a[i].frame <= a[j].target
      BY <1>3 DEF Marks
    <2>1. CASE i = n + 1
      <3>1. a[i] = e /\ e.kind = "unwind" /\ e.frame \in Int
        BY <1>3, <1>6, <2>1
      <3>2. (i < n + 1 \/ r # "none") => e.frame # 0
        BY <2>1, <1>2, <3>1
      <3>3. ASSUME e.frame # 0
            PROVE  /\ e.frame <= d
                   /\ \A j \in 1 .. n : Bounded(a, j) => a[j].target < e.frame
        <4>1. e.frame <= d /\ Within(c, e.frame - 1)
          BY <3>1, <3>3
        <4>2. \A j \in 1 .. n : Bounded(c, j) => c[j].target < e.frame
          BY <1>2, <3>1, <4>1 DEF Within, n
        <4> QED BY <1>3, <1>8, <4>1, <4>2
      <3>4. i - 1 = n /\ \A j \in i + 1 .. n + 1 : FALSE
        BY <1>2, <2>1
      <3> QED BY <3>1, <3>2, <3>3, <3>4
    <2>2. CASE i # n + 1
      <3>1. i \in 1 .. n /\ a[i] = c[i] /\ c[i].kind = "unwind"
        BY <1>3, <1>7, <2>2
      <3>2. i < n
        BY <1>2, <3>1
      <3>3. /\ c[i].frame # 0
            /\ c[i].frame <= d
            /\ \A j \in 1 .. i - 1 : Bounded(c, j) => c[j].target < c[i].frame
            /\ \A j \in i + 1 .. n : Bounded(c, j) => c[i].frame <= c[j].target
        BY <1>1, <3>1, <3>2 DEF Marks, n
      <3>4. /\ \A j \in 1 .. i - 1 : j \in 1 .. n
            /\ \A j \in i + 1 .. n + 1 : j = n + 1 \/ (j \in i + 1 .. n /\ j \in 1 .. n)
        BY <1>2, <3>1
      <3> QED BY <1>3, <1>8, <3>1, <3>3, <3>4
    <2> QED BY <2>1, <2>2
  <1> QED BY <1>1, <1>3, <1>4, <1>5, <1>9, <1>10, <1>11, <1>12 DEF Stacked, a

----------------------------------------------------------------------------
(* What a run, a return and an unwind leave of the stack.                  *)

\* The innermost run ends with e frames: it may, if its target is not above e.
LEMMA RunEnds ==
    ASSUME NEW c, NEW d, NEW s, NEW r, Stacked(c, d, s), c # << >>, Last(c).kind = "run",
           NEW e \in Int, Last(c).target = NoTarget \/ Last(c).target <= e
    PROVE  Nested(Front(c), e, r)
  <1>1. /\ Stacked(c, e, r)
        /\ Front(c) # << >> /\ ~Gone(c, Len(c) - 1) => Within(Front(c), e - 1)
    BY BelowTheLastRun
  <1>2. Stacked(Front(c), e, r)
    BY <1>1, StackedPop
  <1>3. /\ Len(Front(c)) = Len(c) - 1 /\ Len(c) \in Nat
        /\ \A i \in 1 .. Len(Front(c)) : Front(c)[i] = c[i]
        /\ Front(c) # << >> => Len(Front(c)) \in 1 .. Len(Front(c))
    <2>1. CtlOK(c) /\ CtlOK(Front(c))
      BY <1>1, <1>2 DEF Stacked
    <2> QED BY <2>1, PopCtl, CtlFacts, LastOfCtl
  <1>4. Front(c) # << >> => Last(Front(c)) = c[Len(c) - 1]
    BY <1>3 DEF Last
  <1>5. Tight(Front(c), e, r)
    BY <1>1, <1>4 DEF Tight, Gone
  <1> QED BY <1>2, <1>5 DEF Nested

\* The innermost run goes on with e frames, all targets below e.
LEMMA RunGoesOn ==
    ASSUME NEW c, NEW d, NEW s, NEW r, Stacked(c, d, s), c # << >>, Last(c).kind = "run",
           NEW e \in Int, Last(c).target = NoTarget \/ Last(c).target <= e - 1
    PROVE  Nested(c, e, r) /\ Within(c, e - 1)
  <1>1. e - 1 \in Int /\ e - 1 <= e
    OBVIOUS
  <1>2. Stacked(c, e - 1, r)
    BY <1>1, BelowTheLastRun
  <1>3. Stacked(c, e, r)
    BY <1>1, <1>2, StackedMore
  <1>4. Within(c, e - 1)
    BY <1>2 DEF Stacked
  <1> QED BY <1>3, <1>4 DEF Nested, Tight

\* The target of the innermost run of c, if there are no more than d.
LEMMA LastTarget ==
    ASSUME NEW c, NEW d, CtlOK(c), c # << >>, Last(c).kind = "run", Within(c, d)
    PROVE  Last(c).target = NoTarget \/ Last(c).target <= d
  BY LastOfCtl DEF Within, Bounded

\* An error may be raised, unless by an unwind between two frames.
LEMMA NestedRaise ==
    ASSUME NEW c, NEW d, NEW s, Nested(c, d, s),
           c = << >> \/ Last(c).kind # "unwind" \/ Last(c).frame # 0
    PROVE  Nested(c, d, "error")
  <1>1. Stacked(c, d, "error")
    BY StackedSignal DEF Nested
  <1> QED BY <1>1 DEF Nested, Tight

----------------------------------------------------------------------------
(* Frames and deferred calls.                                              *)

\* The lengths and elements of frames and defers.
LEMMA StacksFacts ==
    ASSUME NEW f, NEW s, Stacks(f, s)
    PROVE  /\ Len(f) \in 0 .. MaxFrames /\ Len(s) \in 0 .. MaxDefers
           /\ Len(f) \in Nat /\ Len(s) \in Nat
           /\ f = << >> <=> Len(f) = 0
           /\ s = << >> <=> Len(s) = 0
           /\ \A i \in 1 .. Len(f) : f[i] \in 0 .. MaxDefers
           /\ \A n \in 1 .. Len(s) : s[n] \in [kind : Kinds, frame : 1 .. MaxFrames]
  <1> DEFINE D == [kind : Kinds, frame : 1 .. MaxFrames]
             E == 0 .. MaxDefers
  <1>1. f \in Seq(E) /\ s \in Seq(D) /\ Len(f) <= MaxFrames /\ Len(s) <= MaxDefers
    BY DEF Stacks
  <1> HIDE DEF D, E
  <1>2. Len(s) \in Nat /\ (s = << >> <=> Len(s) = 0) /\ \A n \in 1 .. Len(s) : s[n] \in D
    BY <1>1
  <1>3. /\ Len(f) \in Nat /\ (f = << >> <=> Len(f) = 0)
        /\ \A i \in 1 .. Len(f) : f[i] \in E
    BY <1>1
  <1>4. Len(f) \in 0 .. MaxFrames /\ Len(s) \in 0 .. MaxDefers
    BY <1>1, <1>2, <1>3, UnwindAssumption
  <1> QED BY <1>2, <1>3, <1>4 DEF D, E

\* What enterFunctionFrame, a return, defer and a deferred call do to them.
LEMMA StacksChanges ==
    ASSUME NEW f, NEW s, Stacks(f, s)
    PROVE  /\ Len(f) < MaxFrames =>
                /\ Stacks(Append(f, Len(s)), s) /\ Len(Append(f, Len(s))) = Len(f) + 1
                /\ Append(f, Len(s))[Len(f) + 1] = Len(s)
                /\ \A i \in 1 .. Len(f) : Append(f, Len(s))[i] = f[i]
           /\ /\ Stacks(Front(f), s)
              /\ Len(Front(f)) = IF f = << >> THEN 0 ELSE Len(f) - 1
              /\ \A i \in 1 .. Len(Front(f)) : Front(f)[i] = f[i]
           /\ \A k \in Kinds : f # << >> /\ Len(s) # MaxDefers =>
                LET r == Append(s, [kind |-> k, frame |-> Len(f)]) IN
                /\ Stacks(f, r) /\ Len(r) = Len(s) + 1
                /\ r[Len(s) + 1].frame = Len(f)
                /\ \A i \in 1 .. Len(s) : r[i] = s[i]
           /\ s # << >> =>
                /\ Stacks(f, Front(s)) /\ Len(Front(s)) = Len(s) - 1
                /\ \A i \in 1 .. Len(Front(s)) : Front(s)[i] = s[i]
                /\ Last(s).kind \in Kinds
  <1> DEFINE D == [kind : Kinds, frame : 1 .. MaxFrames]
             E == 0 .. MaxDefers
  <1>1. /\ f \in Seq(E) /\ s \in Seq(D) /\ Len(f) <= MaxFrames /\ Len(s) <= MaxDefers
        /\ MaxFrames \in Nat /\ MaxDefers \in Nat
    BY UnwindAssumption DEF Stacks
  <1>2. /\ Len(f) \in 0 .. MaxFrames /\ Len(s) \in E /\ Len(f) \in Nat /\ Len(s) \in Nat
        /\ f = << >> <=> Len(f) = 0
        /\ s = << >> <=> Len(s) = 0
    BY StacksFacts
  <1>3. \A i \in 1 .. Len(s) : s[i] \in D
    BY StacksFacts
  <1>4. \A g, r : /\ g \in Seq(E) /\ r \in Seq(D) /\ Len(g) <= MaxFrames /\ Len(r) <= MaxDefers
                  => Stacks(g, r)
    BY DEF Stacks
  <1>5. \A k \in Kinds : Len(f) # 0 => [kind |-> k, frame |-> Len(f)] \in D
    BY <1>2
  <1>6. \A d \in D : d.kind \in Kinds
    OBVIOUS
  <1> HIDE DEF D, E
  <1>7. ASSUME Len(f) < MaxFrames
        PROVE  /\ Stacks(Append(f, Len(s)), s) /\ Len(Append(f, Len(s))) = Len(f) + 1
               /\ Append(f, Len(s))[Len(f) + 1] = Len(s)
               /\ \A i \in 1 .. Len(f) : Append(f, Len(s))[i] = f[i]
    <2> DEFINE r == Append(f, Len(s))
    <2>1. /\ r \in Seq(E) /\ Len(r) = Len(f) + 1
          /\ r[Len(f) + 1] = Len(s)
          /\ \A i \in 1 .. Len(f) : r[i] = f[i]
      BY <1>1, <1>2, Pushed
    <2> HIDE DEF r
    <2>2. Len(r) <= MaxFrames
      BY <1>1, <1>2, <1>7, <2>1
    <2>3. Stacks(r, s)
      BY <1>1, <1>4, <2>1, <2>2
    <2> QED BY <2>1, <2>3 DEF r
  <1>8. /\ Stacks(Front(f), s)
        /\ Len(Front(f)) = IF f = << >> THEN 0 ELSE Len(f) - 1
        /\ \A i \in 1 .. Len(Front(f)) : Front(f)[i] = f[i]
    <2> DEFINE r == Front(f)
    <2>1. /\ r \in Seq(E) /\ Len(r) = (IF f = << >> THEN 0 ELSE Len(f) - 1)
          /\ \A i \in 1 .. Len(r) : r[i] = f[i]
      BY <1>1, Popped
    <2> HIDE DEF r
    <2>2. Len(r) <= MaxFrames
      BY <1>1, <1>2, <2>1
    <2>3. Stacks(r, s)
      BY <1>1, <1>4, <2>1, <2>2
    <2> QED BY <2>1, <2>3 DEF r
  <1>9. ASSUME NEW k \in Kinds, f # << >>, Len(s) # MaxDefers
        PROVE  LET r == Append(s, [kind |-> k, frame |-> Len(f)]) IN
               /\ Stacks(f, r) /\ Len(r) = Len(s) + 1
               /\ r[Len(s) + 1].frame = Len(f)
               /\ \A i \in 1 .. Len(s) : r[i] = s[i]
    <2> DEFINE e == [kind |-> k, frame |-> Len(f)]
               r == Append(s, e)
    <2>1. e \in D /\ e.frame = Len(f)
      BY <1>2, <1>5, <1>9
    <2> HIDE DEF e
    <2>2. /\ r \in Seq(D) /\ Len(r) = Len(s) + 1
          /\ r[Len(s) + 1] = e
          /\ \A i \in 1 .. Len(s) : r[i] = s[i]
      BY <1>1, <2>1, Pushed
    <2> HIDE DEF r
    <2>3. Len(r) <= MaxDefers
      BY <1>1, <1>2, <1>9, <2>2
    <2>4. Stacks(f, r)
      BY <1>1, <1>4, <2>2, <2>3
    <2> QED BY <2>1, <2>2, <2>4 DEF r, e
  <1>10. ASSUME s # << >>
         PROVE  /\ Stacks(f, Front(s)) /\ Len(Front(s)) = Len(s) - 1
                /\ \A i \in 1 .. Len(Front(s)) : Front(s)[i] = s[i]
                /\ Last(s).kind \in Kinds
    <2> DEFINE r == Front(s)
    <2>1. /\ r \in Seq(D) /\ Len(r) = Len(s) - 1
          /\ \A i \in 1 .. Len(r) : r[i] = s[i]
      BY <1>1, <1>10, Popped
    <2> HIDE DEF r
    <2>2. Len(r) <= MaxDefers
      BY <1>1, <1>2, <2>1
    <2>3. Stacks(f, r)
      BY <1>1, <1>4, <2>1, <2>2
    <2>4. Len(s) \in 1 .. Len(s)
      BY <1>2, <1>10
    <2>5. Last(s).kind \in Kinds
      BY <1>3, <1>6, <2>4 DEF Last
    <2> QED BY <2>1, <2>3, <2>5 DEF r
  <1> QED BY <1>7, <1>8, <1>9, <1>10

\* Without a frame there is no deferred call.
LEMMA NoFrameNoDefer ==
    ASSUME NEW s, NEW f, Stacks(f, s), Sections(f, s), f = << >>
    PROVE  s = << >>
  <1>1. Len(f) = 0 /\ Len(s) \in Nat /\ (s = << >> <=> Len(s) = 0)
    BY StacksFacts
  <1>2. ASSUME Len(s) # 0 PROVE FALSE
    <2>1. 1 \in 1 .. Len(s)
      BY <1>1, <1>2
    <2>2. s[1].frame \in 1 .. Len(f)
      BY <2>1 DEF Sections
    <2> QED BY <1>1, <2>2
  <1> QED BY <1>1, <1>2

\* A new frame starts an empty section.
LEMMA PushFrame ==
    ASSUME NEW f, NEW s, Stacks(f, s), Sections(f, s), Len(f) < MaxFrames
    PROVE  Sections(Append(f, Len(s)), s)
  <1> DEFINE g == Append(f, Len(s))
             m == Len(f) + 1
  <1>1. /\ Len(f) \in Nat /\ Len(s) \in 0 .. MaxDefers
        /\ \A i \in 1 .. Len(f) : f[i] \in 0 .. MaxDefers
    BY StacksFacts
  <1>2. /\ Len(g) = m /\ g[m] = Len(s)
        /\ \A i \in 1 .. Len(f) : g[i] = f[i]
    BY StacksChanges
  <1> HIDE DEF g
  <1>3. \A i \in 1 .. m : IF i = m THEN g[i] = Len(s) ELSE i \in 1 .. Len(f) /\ g[i] = f[i]
    BY <1>1, <1>2
  <1>4. \A i, j \in 1 .. m : i <= j => g[i] <= g[j]
    <2> SUFFICES ASSUME NEW i \in 1 .. m, NEW j \in 1 .. m, i <= j PROVE g[i] <= g[j]
      OBVIOUS
    <2>1. CASE j = m
      BY <1>1, <1>3, <2>1 DEF Sections
    <2>2. CASE j # m
      BY <1>1, <1>3, <2>2 DEF Sections
    <2> QED BY <2>1, <2>2
  <1>5. \A i \in 1 .. m : g[i] <= Len(s)
    BY <1>1, <1>3 DEF Sections
  <1>6. ASSUME NEW n \in 1 .. Len(s)
        PROVE  /\ s[n].frame \in 1 .. m
               /\ g[s[n].frame] < n
               /\ \A j \in 1 .. m : s[n].frame < j => n <= g[j]
    <2>1. /\ s[n].frame \in 1 .. Len(f)
          /\ f[s[n].frame] < n
          /\ \A j \in 1 .. Len(f) : s[n].frame < j => n <= f[j]
      BY DEF Sections
    <2>2. s[n].frame \in 1 .. m /\ g[s[n].frame] < n
      BY <1>1, <1>2, <2>1
    <2>3. ASSUME NEW j \in 1 .. m, s[n].frame < j PROVE n <= g[j]
      BY <1>1, <1>3, <2>1, <2>3
    <2> QED BY <2>2, <2>3
  <1> QED BY <1>2, <1>4, <1>5, <1>6 DEF Sections, g

\* A frame whose section is empty may go.
LEMMA DropFrame ==
    ASSUME NEW f, NEW s, Stacks(f, s), Sections(f, s), f # << >>, ~(Len(s) > f[Len(f)])
    PROVE  Sections(Front(f), s)
  <1> DEFINE g == Front(f)
             m == Len(f)
  <1>1. /\ m \in Nat \ {0} /\ Len(s) \in 0 .. MaxDefers
        /\ \A i \in 1 .. m : f[i] \in 0 .. MaxDefers
        /\ m \in 1 .. m
    <2>1. m \in Nat /\ m # 0
      BY StacksFacts
    <2> QED BY <2>1, StacksFacts
  <1>2. /\ Len(g) = m - 1
        /\ \A i \in 1 .. m - 1 : g[i] = f[i]
    BY StacksChanges
  <1>3. Len(s) <= f[m]
    BY <1>1
  <1> HIDE DEF g
  <1>4. ASSUME NEW n \in 1 .. Len(s)
        PROVE  /\ s[n].frame \in 1 .. m - 1
               /\ g[s[n].frame] < n
               /\ \A j \in 1 .. m - 1 : s[n].frame < j => n <= g[j]
    <2>1. /\ s[n].frame \in 1 .. m
          /\ f[s[n].frame] < n
          /\ \A j \in 1 .. m : s[n].frame < j => n <= f[j]
      BY DEF Sections
    <2>2. s[n].frame # m
      BY <1>1, <1>3, <2>1
    <2>3. s[n].frame \in 1 .. m - 1
      <3> HIDE DEF m
      <3> QED BY <1>1, <2>1, <2>2
    <2>5. g[s[n].frame] < n
      BY <1>2, <2>1, <2>3
    <2>4. ASSUME NEW j \in 1 .. m - 1, s[n].frame < j PROVE n <= g[j]
      BY <1>1, <1>2, <2>1, <2>4
    <2> QED BY <2>3, <2>4, <2>5
  <1>5. \A i \in 1 .. m - 1 : i \in 1 .. m /\ g[i] = f[i]
    BY <1>1, <1>2
  <1>6. \A i, j \in 1 .. m - 1 : i <= j => g[i] <= g[j]
    BY <1>5 DEF Sections
  <1>7. \A i \in 1 .. m - 1 : g[i] <= Len(s)
    BY <1>5 DEF Sections
  <1> QED BY <1>2, <1>4, <1>6, <1>7 DEF Sections, g

\* A deferred call is scheduled in the section of the innermost frame.
LEMMA PushDefer ==
    ASSUME NEW f, NEW s, NEW k \in Kinds, Stacks(f, s), Sections(f, s), f # << >>,
           Len(s) # MaxDefers
    PROVE  Sections(f, Append(s, [kind |-> k, frame |-> Len(f)]))
  <1> DEFINE r == Append(s, [kind |-> k, frame |-> Len(f)])
  <1>1. /\ Len(s) \in Nat /\ Len(f) \in Nat /\ Len(f) # 0
        /\ \A i \in 1 .. Len(f) : f[i] \in 0 .. MaxDefers
    BY StacksFacts
  <1>2. /\ Len(r) = Len(s) + 1 /\ r[Len(s) + 1].frame = Len(f)
        /\ \A n \in 1 .. Len(s) : r[n] = s[n]
    BY StacksChanges
  <1> HIDE DEF r
  <1>3. \A i \in 1 .. Len(f) : f[i] <= Len(s)
    BY DEF Sections
  <1>4. ASSUME NEW n \in 1 .. Len(s) + 1
        PROVE  /\ r[n].frame \in 1 .. Len(f)
               /\ f[r[n].frame] < n
               /\ \A j \in 1 .. Len(f) : r[n].frame < j => n <= f[j]
    <2>1. CASE n = Len(s) + 1
      BY <1>1, <1>2, <1>3, <2>1
    <2>2. CASE n # Len(s) + 1
      <3>1. n \in 1 .. Len(s) /\ r[n] = s[n]
        BY <1>1, <1>2, <2>2
      <3> QED BY <3>1 DEF Sections
    <2> QED BY <2>1, <2>2
  <1>5. \A i \in 1 .. Len(f) : f[i] <= Len(s) + 1
    BY <1>1, <1>3
  <1> QED BY <1>2, <1>4, <1>5 DEF Sections, r

\* The last deferred call of the innermost frame is taken off its section.
LEMMA DropDefer ==
    ASSUME NEW f, NEW s, Stacks(f, s), Sections(f, s), f # << >>, Len(s) > f[Len(f)]
    PROVE  Sections(f, Front(s))
  <1> DEFINE r == Front(s)
  <1>1. /\ Len(s) \in Nat /\ Len(f) \in Nat /\ Len(f) \in 1 .. Len(f)
        /\ \A i \in 1 .. Len(f) : f[i] \in 0 .. MaxDefers
        /\ s = << >> <=> Len(s) = 0
    BY StacksFacts
  <1>2. Len(s) # 0
    BY <1>1
  <1>3. Len(r) = Len(s) - 1 /\ \A n \in 1 .. Len(s) - 1 : r[n] = s[n]
    BY <1>1, <1>2, StacksChanges
  <1> HIDE DEF r
  <1>4. ASSUME NEW i \in 1 .. Len(f) PROVE f[i] <= Len(s) - 1
    <2>1. f[i] <= f[Len(f)]
      BY <1>1 DEF Sections
    <2> QED BY <1>1, <2>1
  <1>5. ASSUME NEW n \in 1 .. Len(s) - 1
        PROVE  /\ r[n].frame \in 1 .. Len(f)
               /\ f[r[n].frame] < n
               /\ \A j \in 1 .. Len(f) : r[n].frame < j => n <= f[j]
    <2>1. n \in 1 .. Len(s) /\ r[n] = s[n]
      BY <1>1, <1>3
    <2> QED BY <2>1 DEF Sections
  <1>6. \A i, j \in 1 .. Len(f) : i <= j => f[i] <= f[j]
    BY DEF Sections
  <1> QED BY <1>3, <1>4, <1>5, <1>6 DEF Sections, r

----------------------------------------------------------------------------
(* Every action keeps the types and the targets.                           *)

\* The parts of Skeleton, by name.
LEMMA SkeletonFacts ==
    ASSUME Skeleton
    PROVE  /\ Stacks(frames, defers)
           /\ isPanicking \in BOOLEAN /\ recovered \in BOOLEAN /\ unwindFailed \in BOOLEAN
           /\ signal \in {"none", "ok", "done", "error"}
           /\ Depth = Len(frames) /\ Depth \in 0 .. MaxFrames /\ Depth \in Nat /\ Depth \in Int
           /\ frames = << >> <=> Depth = 0
           /\ Len(defers) \in 0 .. MaxDefers /\ Len(defers) \in Nat
           /\ Stacked(ctl, Depth, signal) /\ CtlOK(ctl) /\ Tight(ctl, Depth, signal)
           /\ Within(ctl, Depth) /\ Marks(ctl, Depth, signal)
           /\ ctl # << >> => /\ Top = Last(ctl) /\ Top \in Records
                             /\ Top.kind \in {"run", "ret", "unwind"}
                             /\ Top.kind = "run" => Top.target \in 0 .. NoTarget
                             /\ Top.kind = "unwind" => Top \in UnwindRecords
  <1>1. /\ Stacks(frames, defers)
        /\ isPanicking \in BOOLEAN /\ recovered \in BOOLEAN /\ unwindFailed \in BOOLEAN
        /\ signal \in {"none", "ok", "done", "error"}
    BY DEF Skeleton, Types
  <1>2. Depth = Len(frames) /\ Depth \in 0 .. MaxFrames /\ Depth \in Nat /\ Depth \in Int
        /\ (frames = << >> <=> Depth = 0)
        /\ Len(defers) \in 0 .. MaxDefers /\ Len(defers) \in Nat
    <2>1. Depth = Len(frames)
      BY DEF Depth
    <2> QED BY <1>1, <2>1, StacksFacts
  <1>3. Stacked(ctl, Depth, signal) /\ Tight(ctl, Depth, signal)
    BY DEF Skeleton, Nested
  <1>4. CtlOK(ctl) /\ Within(ctl, Depth) /\ Marks(ctl, Depth, signal)
    BY <1>3 DEF Stacked
  <1> QED BY <1>1, <1>2, <1>3, <1>4, LastOfCtl DEF Top

\* What is below the top record, when that is not a run: the run that it serves.
LEMMA CallerFacts ==
    ASSUME Skeleton, ctl # << >>, Top.kind # "run"
    PROVE  LET c == Front(ctl)
           IN  /\ c # << >> /\ Last(c).kind = "run" /\ CtlOK(c) /\ Within(c, Depth)
               /\ \A r : Stacked(c, Depth, r)
               /\ Target = Last(c).target /\ Target \in 0 .. NoTarget
               /\ Target = NoTarget \/ Target <= Depth
               /\ \A x : Within(ctl, x) => Within(c, x)
  <1> DEFINE c == Front(ctl)
  <1>1. /\ CtlOK(c) /\ c # << >> /\ Last(c).kind = "run"
        /\ Len(c) = Len(ctl) - 1 /\ \A i \in 1 .. Len(c) : c[i] = ctl[i]
        /\ Len(ctl) \in Nat
    BY SkeletonFacts, PopCtl, CtlFacts
  <1>2. \A r : Stacked(c, Depth, r)
    BY SkeletonFacts, StackedPop
  <1>3. Target = Last(c).target
    BY DEF Target
  <1>4. Target \in 0 .. NoTarget
    BY <1>1, <1>3, LastOfCtl
  <1>5. Within(c, Depth)
    BY <1>2 DEF Stacked
  <1>6. \A x : Within(ctl, x) => Within(c, x)
    BY <1>1 DEF Within, Bounded
  <1>7. Target = NoTarget \/ Target <= Depth
    BY <1>1, <1>3, <1>5, LastTarget
  <1> QED BY <1>1, <1>2, <1>3, <1>4, <1>5, <1>6, <1>7

\* Above all targets: the innermost frame when a run executes.
LEMMA ExecutingFacts ==
    ASSUME Skeleton, Executing
    PROVE  /\ ctl # << >> /\ Top.kind = "run" /\ signal = "none" /\ Within(ctl, Depth - 1)
           /\ Top.target = NoTarget \/ Top.target <= Depth - 1
  <1>1. ctl # << >> /\ Top.kind = "run" /\ signal = "none"
    BY DEF Executing
  <1>2. Within(ctl, Depth - 1)
    BY <1>1, SkeletonFacts DEF Tight
  <1> QED BY <1>1, <1>2, SkeletonFacts, LastTarget

\* And when deferred calls are made, or another call goes on: the frame unwound
\* is not below the innermost.
LEMMA ServingFacts ==
    ASSUME Skeleton, ctl # << >>, Top.kind \in {"ret", "unwind"},
           Top.kind = "unwind" => Top.frame # 0
    PROVE  /\ Within(ctl, Depth - 1) \/ Gone(ctl, Len(ctl))
           /\ Top.kind = "unwind" => /\ Top.frame \in 1 .. Depth
                                     /\ Within(ctl, Top.frame - 1) /\ Within(ctl, Depth - 1)
                                     /\ Depth # 0
  <1>1. /\ Len(ctl) \in 1 .. Len(ctl) /\ Len(ctl) \in Nat /\ Top = ctl[Len(ctl)]
        /\ \A i \in 1 .. Len(ctl) : Bounded(ctl, i) => ctl[i].target \in Int
    BY SkeletonFacts, LastOfCtl, CtlFacts
  <1>2. CASE Top.kind = "ret"
    BY <1>1, <1>2, SkeletonFacts DEF Tight, Gone
  <1>3. CASE Top.kind = "unwind"
    <2>1. Top.frame \in 0 .. MaxFrames /\ Top.frame \in Int /\ Top.frame # 0
      BY <1>3, SkeletonFacts, UnwindFields
    <2>2. /\ Top.frame <= Depth
          /\ \A j \in 1 .. Len(ctl) - 1 : Bounded(ctl, j) => ctl[j].target < Top.frame
      BY <1>1, <1>3, <2>1, SkeletonFacts DEF Marks
    <2>3. ~Bounded(ctl, Len(ctl))
      BY <1>1, <1>3 DEF Bounded
    <2>4. \A j \in 1 .. Len(ctl) : Bounded(ctl, j) => j \in 1 .. Len(ctl) - 1
      BY <1>1, <2>3
    <2>5. Within(ctl, Top.frame - 1)
      BY <1>1, <2>1, <2>2, <2>4 DEF Within
    <2>6. Within(ctl, Depth - 1)
      BY <1>1, <2>1, <2>2, <2>4, SkeletonFacts DEF Within
    <2>7. Top.frame \in 1 .. Depth /\ Depth # 0
      BY <2>1, <2>2, SkeletonFacts
    <2> QED BY <1>3, <2>5, <2>6, <2>7
  <1> QED BY <1>2, <1>3

\* enterFunctionFrame for the record that executes: the run goes on in the frame.
LEMMA EnterFrameKeeps ==
    ASSUME Skeleton, NEW c, EnterFrame(c), Stacks(frames, defers'),
           ctl = << >> \/ Top.kind # "unwind" \/ Top.frame # 0,
           Depth < MaxFrames => Nested(c, Depth + 1, "none")
    PROVE  /\ Stacks(frames', defers') /\ Nested(ctl', Depth', signal')
           /\ signal' \in {"none", "error"}
  <1>1. CASE Raise /\ UNCHANGED frames
    <2>1. signal' = "error" /\ ctl' = ctl /\ frames' = frames
      BY <1>1 DEF Raise
    <2>2. Nested(ctl, Depth, "error")
      BY NestedRaise DEF Skeleton, Top
    <2> QED BY <2>1, <2>2 DEF Depth
  <1>2. CASE /\ Depth < MaxFrames /\ frames' = Append(frames, Len(defers'))
             /\ ctl' = c /\ signal' = "none"
    <2>1. Stacks(frames', defers') /\ Len(frames') = Len(frames) + 1
      BY <1>2, StacksChanges DEF Depth
    <2> QED BY <1>2, <2>1 DEF Depth
  <1> QED BY <1>1, <1>2 DEF EnterFrame

\* The same for a call of run() at the present depth.
LEMMA NestedCallKeeps ==
    ASSUME Skeleton, EnterFrame(Append(ctl, RunRec(Depth))), Stacks(frames, defers'),
           ctl = << >> \/ Within(ctl, Depth - 1) \/ Gone(ctl, Len(ctl)),
           ctl = << >> \/ Top.kind # "unwind" \/ Top.frame # 0
    PROVE  /\ Stacks(frames', defers') /\ Nested(ctl', Depth', signal')
           /\ signal' \in {"none", "error"}
  <1> DEFINE c == Append(ctl, RunRec(Depth))
  <1>1. /\ Stacked(c, Depth, "none") /\ Depth \in Int
        /\ c # << >> /\ Last(c) = RunRec(Depth)
    BY SkeletonFacts, StackedPushRun DEF Top
  <1> HIDE DEF c
  <1>2. Stacked(c, Depth + 1, "none")
    BY <1>1, StackedMore
  <1>3. Within(c, (Depth + 1) - 1)
    <2>1. Within(c, Depth) /\ (Depth + 1) - 1 = Depth
      BY <1>1 DEF Stacked
    <2> QED BY <2>1
  <1>4. Nested(c, Depth + 1, "none")
    BY <1>2, <1>3 DEF Nested, Tight
  <1> QED BY <1>4, EnterFrameKeeps DEF c

\* The innermost frame of the innermost run of c goes.
LEMMA PopFrameKeeps ==
    ASSUME Skeleton, NEW c, NEW s, PopFrame(c), Depth # 0,
           Stacked(c, Depth, s), c # << >>, Last(c).kind = "run", Within(c, Depth - 1)
    PROVE  /\ Stacks(frames', defers) /\ Nested(ctl', Depth', signal')
           /\ Depth' = Depth - 1
           /\ signal' \in {"none", "ok"}
  <1>1. frames' = Front(frames)
    BY DEF PopFrame
  <1>2. Stacks(frames', defers) /\ Depth' = Depth - 1
    <2>1. Stacks(Front(frames), defers) /\ Len(Front(frames)) = Len(frames) - 1
      BY SkeletonFacts, StacksChanges
    <2> QED BY <1>1, <2>1 DEF Depth
  <1>3. /\ Depth \in Int /\ Depth - 1 \in Int /\ (Depth - 1) - 1 \in Int
        /\ CtlOK(c) /\ Last(c).target \in 0 .. NoTarget
        /\ Last(c).target = NoTarget \/ Last(c).target <= Depth - 1
    <2>1. CtlOK(c)
      BY DEF Stacked
    <2> QED BY <2>1, SkeletonFacts, LastOfCtl, LastTarget
  <1>4. CASE Depth - 1 = Last(c).target
    <2>1. ctl' = Front(c) /\ signal' = "ok"
      BY <1>4 DEF PopFrame
    <2>2. Nested(Front(c), Depth - 1, "ok")
      BY <1>3, RunEnds
    <2> QED BY <1>2, <2>1, <2>2
  <1>5. CASE Depth - 1 # Last(c).target
    <2>1. ctl' = c /\ signal' = "none"
      BY <1>5 DEF PopFrame
    <2>2. Last(c).target = NoTarget \/ Last(c).target <= (Depth - 1) - 1
      BY <1>3, <1>5
    <2>3. Nested(c, Depth - 1, "none")
      BY <1>3, <2>2, RunGoesOn
    <2> QED BY <1>2, <2>1, <2>3
  <1> QED BY <1>4, <1>5

----------------------------------------------------------------------------

\* The script: calls and returns, panics, recover(), a callback, the end.
LEMMA ScriptKeepsSkeleton ==
    ASSUME Skeleton, Script
    PROVE  Skeleton'
  <1>1. CASE Call
    <2>1. /\ Executing /\ EnterFrame(ctl) /\ defers' = defers /\ UNCHANGED flags
      BY <1>1 DEF Call
    <2>2. Nested(ctl, Depth + 1, "none")
      <3>1. /\ Last(ctl).kind = "run" /\ Depth + 1 \in Int /\ Depth \in Int /\ ctl # << >>
            /\ Last(ctl).target = NoTarget \/ Last(ctl).target <= (Depth + 1) - 1
        <4>1. (Depth + 1) - 1 = Depth /\ Depth \in Int /\ Within(ctl, Depth) /\ CtlOK(ctl)
          BY SkeletonFacts
        <4> QED BY <2>1, <4>1, ExecutingFacts, LastTarget DEF Top
      <3> QED BY <3>1, SkeletonFacts, RunGoesOn
    <2>3. Stacks(frames, defers') /\ Top.kind # "unwind"
      BY <2>1, SkeletonFacts, ExecutingFacts
    <2>4. /\ Stacks(frames', defers') /\ Nested(ctl', Depth', signal')
          /\ signal' \in {"none", "error"}
      BY <2>1, <2>2, <2>3, EnterFrameKeeps
    <2> QED BY <2>1, <2>4, SkeletonFacts DEF Skeleton, Types, flags
  <1>2. ASSUME NEW k \in Kinds, Defer(k) PROVE Skeleton'
    <2>1. /\ Executing /\ frames # << >> /\ frames' = frames /\ UNCHANGED flags /\ ctl' = ctl
      BY <1>2 DEF Defer, Raise
    <2>2. CASE Len(defers) = MaxDefers
      <3>1. signal' = "error" /\ defers' = defers
        BY <1>2, <2>2 DEF Defer, Raise
      <3>2. Nested(ctl, Depth, "error")
        BY <2>1, ExecutingFacts, NestedRaise DEF Skeleton, Top
      <3> QED BY <2>1, <3>1, <3>2, SkeletonFacts DEF Skeleton, Types, flags, Depth
    <2>3. CASE Len(defers) # MaxDefers
      <3>1. signal' = signal /\ defers' = Append(defers, [kind |-> k, frame |-> Len(frames)])
        BY <1>2, <2>3 DEF Defer, Depth
      <3>2. Stacks(frames, defers')
        BY <2>1, <2>3, <3>1, SkeletonFacts, StacksChanges
      <3> QED BY <2>1, <3>1, <3>2, SkeletonFacts DEF Skeleton, Types, flags, Depth
    <2> QED BY <2>2, <2>3
  <1>3. CASE Recover
    <2>1. /\ Executing /\ CoreRecover /\ frames' = frames /\ defers' = defers
          /\ isPanicking' = isPanicking /\ unwindFailed' = unwindFailed /\ signal' = signal
      BY <1>3 DEF Recover
    <2>2. CtlOK(ctl') /\ Alike(ctl, ctl') /\ recovered' \in BOOLEAN
      BY <2>1, SkeletonFacts, RecoverMarks DEF TypeOK, Stacks, CtlOK
    <2>3. Stacked(ctl', Depth, signal) /\ Within(ctl', Depth - 1)
      BY <2>1, <2>2, SkeletonFacts, ExecutingFacts, StackedAlike
    <2> QED BY <2>1, <2>2, <2>3, SkeletonFacts DEF Skeleton, Types, Nested, Tight, Depth
  <1>4. CASE Panic
    <2>1. Executing /\ signal' = "error" /\ UNCHANGED <<frames, defers, flags, ctl>>
      BY <1>4 DEF Panic, Raise
    <2>2. Nested(ctl, Depth, "error")
      BY <2>1, ExecutingFacts, NestedRaise DEF Skeleton, Top
    <2> QED BY <2>1, <2>2, SkeletonFacts DEF Skeleton, Types, flags, Depth
  <1>5. CASE CallBack
    <2>1. /\ Executing /\ EnterFrame(Append(ctl, RunRec(Depth))) /\ defers' = defers
          /\ UNCHANGED flags
      BY <1>5 DEF CallBack
    <2>2. /\ Stacks(frames', defers') /\ Nested(ctl', Depth', signal')
          /\ signal' \in {"none", "error"}
      BY <2>1, SkeletonFacts, ExecutingFacts, NestedCallKeeps
    <2> QED BY <2>1, <2>2, SkeletonFacts DEF Skeleton, Types, flags
  <1>6. CASE Return
    <2>1. /\ Executing /\ frames # << >> /\ defers' = defers /\ UNCHANGED flags
      BY <1>6 DEF Return
    <2>2. CASE PopFrame(ctl)
      <3>1. /\ Stacks(frames', defers) /\ Nested(ctl', Depth', signal')
            /\ signal' \in {"none", "ok"}
        <4>1. /\ Depth # 0 /\ ctl # << >> /\ Last(ctl).kind = "run" /\ Within(ctl, Depth - 1)
              /\ Stacked(ctl, Depth, signal)
          BY <2>1, SkeletonFacts, ExecutingFacts
        <4> QED BY <2>2, <4>1, PopFrameKeeps
      <3> QED BY <2>1, <3>1, SkeletonFacts DEF Skeleton, Types, flags
    <2>3. CASE ctl' = Append(ctl, RetRec(FALSE)) /\ UNCHANGED <<frames, signal>>
      <3>1. RetRec(FALSE) \in Records /\ RetRec(FALSE).kind = "ret"
        BY RecordKinds
      <3>2. Stacked(ctl', Depth, signal) /\ Within(ctl', Depth - 1)
        <4>1. /\ ctl # << >> /\ Last(ctl).kind = "run" /\ Within(ctl, Depth - 1)
              /\ Stacked(ctl, Depth, signal) /\ Depth \in Int
          BY <2>1, SkeletonFacts, ExecutingFacts
        <4> QED BY <2>3, <3>1, <4>1, StackedPushOther
      <3> QED BY <2>1, <2>3, <3>2, SkeletonFacts DEF Skeleton, Types, Nested, Tight, flags, Depth
    <2> QED BY <1>6, <2>2, <2>3 DEF Return
  <1>7. CASE Halt
    <2>1. /\ Executing /\ frames = << >> /\ ctl' = Front(ctl) /\ signal' = "ok"
          /\ UNCHANGED <<frames, defers, flags>>
      BY <1>7 DEF Halt
    <2>2. Nested(Front(ctl), Depth, "ok")
      <3>1. /\ ctl # << >> /\ Last(ctl).kind = "run" /\ Stacked(ctl, Depth, signal) /\ Depth \in Int
            /\ Last(ctl).target = NoTarget \/ Last(ctl).target <= Depth
        BY <2>1, SkeletonFacts, ExecutingFacts, LastTarget
      <3> QED BY <3>1, RunEnds
    <2> QED BY <2>1, <2>2, SkeletonFacts DEF Skeleton, Types, flags, Depth
  <1> QED BY <1>1, <1>2, <1>3, <1>4, <1>5, <1>6, <1>7 DEF Script

\* The deferred call that is made next, and the stack without it.
LEMMA NextDeferredFacts ==
    ASSUME Skeleton, NextDeferred
    PROVE  /\ Stacks(frames, defers') /\ Last(defers).kind \in Kinds
           /\ Within(ctl, Depth - 1)
  <1>1. /\ DrainingFrame /\ Pending /\ defers' = Front(defers) /\ frames # << >>
        /\ ctl # << >> /\ Top.kind \in {"ret", "unwind"}
        /\ Top.kind = "unwind" => Top.frame # 0
    BY DEF NextDeferred, DeferTopPopped, Pending, DrainingFrame, Draining
  <1>2. defers # << >>
    <2>1. DrainedFrame \in 1 .. Depth
      <3>1. CASE Top.kind = "unwind"
        BY <1>1, <3>1, ServingFacts DEF DrainedFrame
      <3>2. CASE Top.kind # "unwind"
        BY <1>1, <3>2, SkeletonFacts DEF DrainedFrame
      <3> QED BY <3>1, <3>2
    <2>2. frames[DrainedFrame] \in 0 .. MaxDefers
      BY <2>1, SkeletonFacts, StacksFacts
    <2>3. Len(defers) # 0
      BY <1>1, <2>2, SkeletonFacts DEF Pending
    <2> QED BY <2>3, SkeletonFacts, StacksFacts
  <1>3. Stacks(frames, defers') /\ Last(defers).kind \in Kinds
    BY <1>1, <1>2, SkeletonFacts, StacksChanges
  <1>4. CASE Top.kind = "unwind"
    BY <1>1, <1>3, <1>4, ServingFacts
  <1>5. CASE Top.kind = "ret"
    BY <1>1, <1>3, <1>5, SkeletonFacts DEF DrainingFrame, Draining, Tight
  <1> QED BY <1>1, <1>4, <1>5

\* Deferred calls, and what they and predicates go on to call.
LEMMA DeferredKeepsSkeleton ==
    ASSUME Skeleton, NextDeferred \/ DeferredGoesOn \/ RetChecks
    PROVE  Skeleton'
  <1>1. /\ ctl # << >> /\ Top.kind \in {"ret", "unwind"}
        /\ Top.kind = "unwind" => Top.frame # 0
    <2>1. CASE NextDeferred
      BY <2>1 DEF NextDeferred, DrainingFrame, Draining
    <2>2. CASE DeferredGoesOn
      <3>1. ctl # << >> /\ Top.kind \in {"ret", "unwind"} /\ signal # "none"
        BY <2>2 DEF DeferredGoesOn
      <3>2. Top = ctl[Len(ctl)] /\ Len(ctl) \in 1 .. Len(ctl)
        BY <3>1, SkeletonFacts, LastOfCtl
      <3> QED BY <3>1, <3>2, SkeletonFacts DEF Marks
    <2>3. CASE RetChecks
      BY <2>3 DEF RetChecks, Draining
    <2> QED BY <2>1, <2>2, <2>3
  <1>2. /\ Within(ctl, Depth - 1) \/ Gone(ctl, Len(ctl))
        /\ Top.kind = "unwind" => Within(ctl, Depth - 1)
    BY <1>1, ServingFacts
  <1>3. NextDeferred => /\ Stacks(frames, defers') /\ Last(defers).kind \in Kinds
                        /\ Within(ctl, Depth - 1)
    BY NextDeferredFacts
  <1>4. ASSUME EnterFrame(Append(ctl, RunRec(Depth))), Stacks(frames, defers'), UNCHANGED flags
        PROVE  Skeleton'
    <2>1. /\ Stacks(frames', defers') /\ Nested(ctl', Depth', signal')
          /\ signal' \in {"none", "error"}
      BY <1>1, <1>2, <1>4, NestedCallKeeps
    <2> QED BY <1>4, <2>1, SkeletonFacts DEF Skeleton, Types, flags
  <1>5. CASE DeferredGoesOn \/ RetChecks
    <2>1. EnterFrame(Append(ctl, RunRec(Depth))) /\ defers' = defers /\ UNCHANGED flags
      BY <1>5 DEF DeferredGoesOn, RetChecks
    <2> QED BY <1>4, <2>1, SkeletonFacts
  <1>6. CASE NextDeferred
    <2>1. CASE Last(defers).kind = "func"
      <3>1. EnterFrame(Append(ctl, RunRec(Depth))) /\ UNCHANGED flags
        BY <1>6, <2>1 DEF NextDeferred
      <3> QED BY <1>3, <1>4, <1>6, <3>1
    <2>2. CASE Last(defers).kind = "native"
      <3>1. signal' \in {"ok", "error"} /\ UNCHANGED <<frames, ctl, flags>>
        BY <1>6, <2>2 DEF NextDeferred
      <3>2. Stacked(ctl, Depth, signal')
        BY <1>1, SkeletonFacts, StackedSignal
      <3>3. Nested(ctl, Depth, signal')
        BY <1>3, <1>6, <3>2 DEF Nested, Tight
      <3> QED BY <1>3, <1>6, <3>1, <3>3, SkeletonFacts DEF Skeleton, Types, flags, Depth
    <2>3. CASE Last(defers).kind = "recover"
      <3>1. /\ CoreRecover /\ signal' = "done" /\ frames' = frames
            /\ isPanicking' = isPanicking /\ unwindFailed' = unwindFailed
        BY <1>6, <2>3 DEF NextDeferred
      <3>2. CtlOK(ctl') /\ Alike(ctl, ctl') /\ recovered' \in BOOLEAN
        BY <3>1, SkeletonFacts, RecoverMarks DEF TypeOK, Stacks, CtlOK
      <3>3. Stacked(ctl, Depth, "done")
        BY <1>1, SkeletonFacts, StackedSignal
      <3>4. Stacked(ctl', Depth, "done") /\ Within(ctl', Depth - 1)
        BY <1>3, <1>6, <3>2, <3>3, SkeletonFacts, StackedAlike
      <3> QED BY <1>3, <1>6, <3>1, <3>2, <3>4, SkeletonFacts
              DEF Skeleton, Types, Nested, Tight, Depth
    <2> QED BY <1>3, <1>6, <2>1, <2>2, <2>3 DEF Kinds
  <1> QED BY <1>5, <1>6

\* retSlowPath.
LEMMA ReturningKeepsSkeleton ==
    ASSUME Skeleton, Returning
    PROVE  Skeleton'
  <1> DEFINE c == Front(ctl)
  <1>1. ctl # << >> /\ Top.kind = "ret" /\ Last(ctl).kind = "ret" /\ defers' = defers
        /\ UNCHANGED flags
    BY DEF Returning, RetResumes, RetFails, RetPops, RetChecks, RetEnds, DrainingFrame, Draining,
           Top
  <1>2. /\ c # << >> /\ Last(c).kind = "run" /\ CtlOK(c) /\ Within(c, Depth)
        /\ \A r : Stacked(c, Depth, r)
        /\ Target = Last(c).target /\ Target \in 0 .. NoTarget
        /\ Target = NoTarget \/ Target <= Depth
        /\ \A x : Within(ctl, x) => Within(c, x)
    BY <1>1, CallerFacts
  <1> HIDE DEF c
  <1>3. Depth \in Int /\ Depth \in Nat /\ Depth - 1 \in Int
    BY SkeletonFacts
  <1>4. ASSUME ctl' = c, signal' = "error", frames' = frames PROVE Skeleton'
    <2>1. Nested(c, Depth, "error")
      BY <1>2 DEF Nested, Tight
    <2> QED BY <1>1, <1>4, <2>1, SkeletonFacts DEF Skeleton, Types, flags, Depth
  <1>5. CASE RetResumes
    <2>1. CASE signal = "error"
      BY <1>4, <1>5, <2>1 DEF RetResumes, c
    <2>2. CASE signal # "error"
      <3>1. signal' = "none" /\ ctl' = ctl /\ frames' = frames
        BY <1>5, <2>2 DEF RetResumes
      <3>2. Stacked(ctl, Depth, "none")
        BY <1>1, SkeletonFacts, StackedSignal
      <3>3. Nested(ctl, Depth, "none")
        BY <1>1, <3>2, SkeletonFacts DEF Nested, Tight
      <3> QED BY <1>1, <3>1, <3>3, SkeletonFacts DEF Skeleton, Types, flags, Depth
    <2> QED BY <2>1, <2>2
  <1>6. CASE RetFails
    BY <1>4, <1>6 DEF RetFails, c
  <1>7. CASE RetPops
    <2>1. /\ ~Top.gone /\ frames' = Front(frames) /\ ctl' = Append(c, RetRec(TRUE))
          /\ signal' = signal
      BY <1>1, <1>7 DEF RetPops, DrainingFrame, c
    <2>2. Stacks(frames', defers) /\ Depth' = IF frames = << >> THEN 0 ELSE Depth - 1
      <3>1. Stacks(Front(frames), defers)
            /\ Len(Front(frames)) = IF frames = << >> THEN 0 ELSE Len(frames) - 1
        BY SkeletonFacts, StacksChanges
      <3> QED BY <2>1, <3>1 DEF Depth
    <2>3. Depth' \in {Depth, Depth - 1}
      BY <2>2, SkeletonFacts
    <2>4. Within(c, Depth - 1)
      <3>1. Within(ctl, Depth - 1)
        BY <1>1, <2>1, SkeletonFacts DEF Tight
      <3> QED BY <1>2, <3>1
    <2>5. \A r : Stacked(c, Depth - 1, r)
      <3>1. Last(c).target = NoTarget \/ Last(c).target <= Depth - 1
        BY <1>2, <2>4, LastTarget
      <3> QED BY <1>2, <1>3, <3>1, BelowTheLastRun
    <2>6. /\ RetRec(TRUE) \in Records /\ RetRec(TRUE).kind = "ret" /\ RetRec(TRUE).gone
      BY RecordKinds
    <2>7. /\ Stacked(ctl', Depth', signal') /\ Last(ctl') = RetRec(TRUE)
      <3>1. Stacked(c, Depth', signal) /\ Depth' \in Int
        BY <1>2, <1>3, <2>3, <2>5
      <3> QED BY <1>2, <2>1, <2>6, <3>1, StackedPushOther
    <2>8. Nested(ctl', Depth', signal')
      BY <2>6, <2>7 DEF Nested, Tight
    <2> QED BY <1>1, <2>1, <2>2, <2>8, SkeletonFacts DEF Skeleton, Types, flags
  <1>8. CASE RetChecks
    BY <1>8, DeferredKeepsSkeleton
  <1>9. CASE RetEnds
    <2>1. frames' = frames
      BY <1>9 DEF RetEnds
    <2>2. CASE Depth = Target
      <3>1. ctl' = Front(c) /\ signal' = "ok"
        BY <1>9, <2>2 DEF RetEnds, c
      <3>2. Nested(Front(c), Depth, "ok")
        BY <1>2, <1>3, RunEnds
      <3> QED BY <1>1, <2>1, <3>1, <3>2, SkeletonFacts DEF Skeleton, Types, flags, Depth
    <2>3. CASE Depth # Target
      <3>1. ctl' = c /\ signal' = signal
        BY <1>9, <2>3 DEF RetEnds, c
      <3>2. Last(c).target = NoTarget \/ Last(c).target <= Depth - 1
        BY <1>2, <1>3, <2>3
      <3>3. Nested(c, Depth, signal)
        BY <1>2, <1>3, <3>2, RunGoesOn
      <3> QED BY <1>1, <2>1, <3>1, <3>3, SkeletonFacts DEF Skeleton, Types, flags, Depth
    <2> QED BY <2>2, <2>3
  <1> QED BY <1>5, <1>6, <1>7, <1>8, <1>9 DEF Returning

\* The record of the unwind after a step of it.
LEMMA UnwindUpdates ==
    ASSUME NEW e \in UnwindRecords, NEW f \in 0 .. MaxFrames
    PROVE  /\ [e EXCEPT !.frec = FALSE, !.taken = FALSE] \in UnwindRecords
           /\ [e EXCEPT !.frec = FALSE, !.taken = FALSE].prev = e.prev
           /\ [e EXCEPT !.frec = FALSE, !.taken = FALSE].frec = FALSE
           /\ [e EXCEPT !.frec = FALSE, !.taken = FALSE].frame = e.frame
           /\ [e EXCEPT !.frec = TRUE] \in UnwindRecords
           /\ [e EXCEPT !.frec = TRUE].prev = e.prev
           /\ [e EXCEPT !.frec = TRUE].frec = TRUE
           /\ [e EXCEPT !.frec = TRUE].frame = e.frame
           /\ [e EXCEPT !.frame = f] \in UnwindRecords
           /\ [e EXCEPT !.frame = f].prev = e.prev
           /\ [e EXCEPT !.frame = f].frec = e.frec
           /\ [e EXCEPT !.frame = f].frame = f
  BY DEF UnwindRecords

\* runPanicUnwind, and the failures of its own.
LEMMA UnwindingKeepsSkeleton ==
    ASSUME Skeleton, Unwinding
    PROVE  Skeleton'
  <1>1. /\ ctl # << >> /\ Top.kind \in {"run", "unwind"}
        /\ Top.kind = "run" => BeginUnwind
        /\ defers' = defers
    BY DEF Unwinding, BeginUnwind, UnwindNextFrame, UnwindResumes, UnwindFrame, RecoveredPushFails,
           UnwindFails, DrainingFrame, Draining
  <1>2. Depth \in Int /\ Depth \in Nat /\ Depth - 1 \in Int /\ Depth \in 0 .. MaxFrames
        /\ 0 \in 0 .. MaxFrames
    BY SkeletonFacts, UnwindAssumption
  <1>3. CASE BeginUnwind
    <2>1. /\ Top.kind = "run" /\ isPanicking' = TRUE /\ recovered' = FALSE /\ frames' = frames
      BY <1>3 DEF BeginUnwind
    <2>2. CASE UnwindGivesUp(ctl)
      <3>1. ctl' = Front(ctl) /\ signal' = "error" /\ unwindFailed' = TRUE
        BY <2>2 DEF UnwindGivesUp
      <3>2. Nested(Front(ctl), Depth, "error")
        <4>1. Last(ctl).kind = "run" /\ (Last(ctl).target = NoTarget \/ Last(ctl).target <= Depth)
          BY <1>1, <2>1, SkeletonFacts, LastTarget
        <4> QED BY <1>1, <1>2, <4>1, SkeletonFacts, RunEnds
      <3> QED BY <1>1, <2>1, <3>1, <3>2, SkeletonFacts DEF Skeleton, Types, Depth
    <2>3. CASE ctl' = Append(ctl, UnwindRec(PrevPanicking)) /\ signal' = "none" /\ UNCHANGED unwindFailed
      <3> DEFINE e == UnwindRec(isPanicking)
      <3>1. e \in Records /\ e.kind = "unwind" /\ e.frame = 0 /\ ctl' = Append(ctl, e)
        BY <2>3, SkeletonFacts, RecordKinds, UnwindFields DEF PrevPanicking
      <3> HIDE DEF e
      <3>2. /\ Stacked(ctl', Depth, "none") /\ Last(ctl') = e
        <4>1. Last(ctl).kind = "run" /\ Stacked(ctl, Depth, signal)
          BY <1>1, <2>1, SkeletonFacts
        <4> QED BY <1>1, <1>2, <3>1, <4>1, StackedPushOther
      <3>3. Nested(ctl', Depth, "none")
        BY <3>1, <3>2 DEF Nested, Tight
      <3> QED BY <1>1, <2>1, <2>3, <3>3, SkeletonFacts DEF Skeleton, Types, Depth
    <2> QED BY <1>3, <2>2, <2>3 DEF BeginUnwind
  <1>4. CASE ~BeginUnwind
    <2> DEFINE c == Front(ctl)
    <2>1. Top.kind = "unwind" /\ Top \in UnwindRecords /\ Last(ctl) = Top
      BY <1>1, <1>4, SkeletonFacts
    <2>2. /\ c # << >> /\ Last(c).kind = "run" /\ CtlOK(c) /\ Within(c, Depth)
          /\ \A r : Stacked(c, Depth, r)
          /\ Target = Last(c).target /\ Target \in 0 .. NoTarget
          /\ Target = NoTarget \/ Target <= Depth
          /\ \A x : Within(ctl, x) => Within(c, x)
      BY <1>1, <2>1, CallerFacts
    <2> HIDE DEF c
    <2>3. Top.prev \in BOOLEAN /\ Top.frec \in BOOLEAN /\ Top.frame \in 0 .. MaxFrames
          /\ Top.frame \in Int
      BY <2>1, UnwindFields
    <2>4. ASSUME NEW e \in UnwindRecords, NEW d \in Int, NEW s, Stacked(c, d, s),
                 IF e.frame = 0 THEN s = "none" ELSE e.frame <= d /\ Within(c, e.frame - 1)
          PROVE  Nested(Append(c, e), d, s)
      <3>1. e \in Records /\ e.kind = "unwind"
        BY UnwindFields
      <3>2. Stacked(Append(c, e), d, s) /\ Last(Append(c, e)) = e
        BY <2>2, <2>4, <3>1, StackedPushOther
      <3> QED BY <3>1, <3>2 DEF Nested, Tight
    <2>5. ASSUME Top.frame # 0
          PROVE  /\ Within(c, Top.frame - 1) /\ Within(c, Depth - 1) /\ Top.frame <= Depth
                 /\ Depth # 0
                 /\ Last(c).target = NoTarget \/ Last(c).target <= Depth - 1
                 /\ \A r : Stacked(c, Depth - 1, r)
      <3>1. /\ Within(ctl, Top.frame - 1) /\ Within(ctl, Depth - 1) /\ Top.frame \in 1 .. Depth
            /\ Depth # 0
        BY <1>1, <2>1, <2>5, ServingFacts
      <3>2. Within(c, Top.frame - 1) /\ Within(c, Depth - 1) /\ Top.frame <= Depth
        BY <2>2, <3>1, <1>2
      <3>3. Last(c).target = NoTarget \/ Last(c).target <= Depth - 1
        BY <2>2, <3>2, LastTarget
      <3>4. \A r : Stacked(c, Depth - 1, r)
        BY <1>2, <2>2, <3>3, BelowTheLastRun
      <3> QED BY <3>1, <3>2, <3>3, <3>4
    <2>6. CASE UnwindNextFrame
      <3>1. /\ signal = "none" /\ Depth > StopDepth
            /\ ctl' = Append(c, [Top EXCEPT !.frame = Depth])
            /\ UNCHANGED <<frames, defers, flags, signal>>
        BY <2>6 DEF UnwindNextFrame, Draining, c
      <3>2. Last(c).target = NoTarget \/ Last(c).target <= Depth - 1
        BY <1>2, <2>2, <3>1 DEF StopDepth
      <3>3. Within(c, Depth - 1)
        <4>1. Stacked(c, Depth - 1, "none")
          BY <1>2, <2>2, <3>2, BelowTheLastRun
        <4> QED BY <4>1 DEF Stacked
      <3>4. /\ [Top EXCEPT !.frame = Depth] \in UnwindRecords
            /\ [Top EXCEPT !.frame = Depth].frame = Depth
        BY <1>2, <2>1 DEF UnwindRecords
      <3>5. Nested(ctl', Depth, signal)
        <4>1. Stacked(c, Depth, signal) /\ Depth <= Depth /\ (Depth = 0 => signal = "none")
          BY <1>2, <2>2, <3>1
        <4> QED BY <1>2, <2>4, <3>1, <3>3, <3>4, <4>1
      <3> QED BY <3>1, <3>5, SkeletonFacts DEF Skeleton, Types, flags, Depth
    <2>7. CASE UnwindResumes
      <3>1. signal # "none" /\ frames' = frames
        BY <2>7 DEF UnwindResumes
      <3>2. Top.frame # 0
        <4>1. Top = ctl[Len(ctl)] /\ Len(ctl) \in 1 .. Len(ctl)
          BY <1>1, SkeletonFacts, LastOfCtl
        <4> QED BY <2>1, <3>1, <4>1, SkeletonFacts DEF Marks
      <3>3. CASE UnwindGivesUp(c) /\ UNCHANGED <<isPanicking, recovered>>
        <4>1. ctl' = Front(c) /\ signal' = "error" /\ unwindFailed' = TRUE
          BY <3>3 DEF UnwindGivesUp
        <4>2. Nested(Front(c), Depth, "error")
          BY <1>2, <2>2, RunEnds
        <4> QED BY <1>1, <3>1, <3>3, <4>1, <4>2, SkeletonFacts DEF Skeleton, Types, Depth
      <3>4. CASE /\ \E e \in UnwindRecords : ctl' = Append(c, e) /\ e.frame = Top.frame
                 /\ isPanicking' \in BOOLEAN /\ recovered' = FALSE
                 /\ signal' = "none" /\ UNCHANGED unwindFailed
        <4>1. PICK e \in UnwindRecords : ctl' = Append(c, e) /\ e.frame = Top.frame
          BY <3>4
        <4>2. Nested(ctl', Depth, "none")
          <5>1. Stacked(c, Depth, "none") /\ e.frame # 0 /\ e.frame <= Depth /\ Within(c, e.frame - 1)
            BY <2>2, <2>5, <3>2, <4>1
          <5> QED BY <1>2, <2>4, <4>1, <5>1
        <4> QED BY <1>1, <3>1, <3>4, <4>2, SkeletonFacts DEF Skeleton, Types, Depth
      <3>5. \/ UnwindGivesUp(c) /\ UNCHANGED <<isPanicking, recovered>>
            \/ /\ \E e \in UnwindRecords : ctl' = Append(c, e) /\ e.frame = Top.frame
               /\ isPanicking' \in BOOLEAN /\ recovered' = FALSE
               /\ signal' = "none" /\ UNCHANGED unwindFailed
        <4> DEFINE again == signal = "error" /\ ~recovered
                   rec   == IF again THEN [Top EXCEPT !.frec = FALSE, !.taken = FALSE] ELSE Top
                   fin   == IF recovered THEN [rec EXCEPT !.frec = TRUE] ELSE rec
        <4>1. \/ UnwindGivesUp(c) /\ UNCHANGED <<isPanicking, recovered>>
              \/ /\ ctl' = Append(c, fin)
                 /\ isPanicking' = ((isPanicking \/ again) /\ ~recovered)
                 /\ recovered' = FALSE /\ signal' = "none" /\ UNCHANGED unwindFailed
          BY <2>7 DEF UnwindResumes, c
        <4>2. rec \in UnwindRecords /\ rec.frame = Top.frame
          BY <1>2, <2>1, UnwindUpdates
        <4> HIDE DEF rec
        <4>3. fin \in UnwindRecords /\ fin.frame = Top.frame
          BY <1>2, <4>2, UnwindUpdates
        <4>4. ((isPanicking \/ again) /\ ~recovered) \in BOOLEAN
          OBVIOUS
        <4> HIDE DEF fin, again
        <4> QED BY <4>1, <4>3, <4>4
      <3> QED BY <3>3, <3>4, <3>5
    <2>8. ASSUME DrainingFrame, frames' = Front(frames)
          PROVE  /\ Top.frame # 0 /\ Depth' = Depth - 1 /\ Stacks(frames', defers) /\ signal = "none"
      <3>1. Top.frame # 0 /\ signal = "none"
        BY <2>1, <2>8 DEF DrainingFrame, Draining
      <3>2. frames # << >>
        BY <2>5, <3>1, SkeletonFacts
      <3>3. Stacks(Front(frames), defers) /\ Len(Front(frames)) = Len(frames) - 1
        BY <3>2, SkeletonFacts, StacksChanges
      <3> QED BY <2>8, <3>1, <3>3 DEF Depth
    <2>9. CASE UnwindFrame
      <3>1. DrainingFrame /\ recovered' = recovered /\ unwindFailed' = unwindFailed
        BY <2>9 DEF UnwindFrame
      <3>2. CASE Top.frec
        <4>1. PopFrame(c) /\ isPanicking' = Top.prev
          BY <2>9, <3>2 DEF UnwindFrame, c
        <4>2. Top.frame # 0 /\ Depth # 0 /\ Within(c, Depth - 1)
          BY <2>5, <2>8, <3>1, <4>1 DEF PopFrame
        <4>3. /\ Stacks(frames', defers) /\ Nested(ctl', Depth', signal')
              /\ signal' \in {"none", "ok"}
          BY <2>2, <4>1, <4>2, PopFrameKeeps
        <4> QED BY <1>1, <2>3, <3>1, <4>1, <4>3, SkeletonFacts DEF Skeleton, Types
      <3>3. CASE ~Top.frec
        <4>1. /\ frames' = Front(frames) /\ ctl' = Append(c, [Top EXCEPT !.frame = 0])
              /\ isPanicking' = isPanicking /\ signal' = signal
          BY <2>9, <3>3 DEF UnwindFrame, c
        <4>2. Top.frame # 0 /\ Depth' = Depth - 1 /\ Stacks(frames', defers) /\ signal = "none"
          BY <2>8, <3>1, <4>1
        <4>3. /\ [Top EXCEPT !.frame = 0] \in UnwindRecords
              /\ [Top EXCEPT !.frame = 0].frame = 0
          BY <1>2, <2>1 DEF UnwindRecords
        <4>4. Nested(ctl', Depth', signal')
          BY <1>2, <2>4, <2>5, <4>1, <4>2, <4>3
        <4> QED BY <1>1, <3>1, <4>1, <4>2, <4>4, SkeletonFacts DEF Skeleton, Types
      <3> QED BY <3>2, <3>3
    <2>10. CASE RecoveredPushFails
      <3>1. /\ DrainingFrame /\ frames' = Front(frames) /\ ctl' = Front(c) /\ signal' = "error"
            /\ unwindFailed' = TRUE /\ UNCHANGED <<isPanicking, recovered>>
        BY <2>10 DEF RecoveredPushFails, UnwindGivesUp, c
      <3>2. Top.frame # 0 /\ Depth' = Depth - 1 /\ Stacks(frames', defers)
        BY <2>8, <3>1
      <3>3. Nested(ctl', Depth', signal')
        BY <1>2, <2>2, <2>5, <3>1, <3>2, RunEnds
      <3> QED BY <1>1, <3>1, <3>2, <3>3, SkeletonFacts DEF Skeleton, Types
    <2>11. CASE UnwindFails
      <3>1. /\ ctl' = Front(c) /\ signal' = "error" /\ isPanicking' = Top.prev
            /\ UNCHANGED <<frames, defers, recovered, unwindFailed>>
        BY <2>11 DEF UnwindFails, c
      <3>2. Nested(ctl', Depth, "error")
        BY <1>2, <2>2, <3>1, RunEnds
      <3> QED BY <2>3, <3>1, <3>2, SkeletonFacts DEF Skeleton, Types, Depth
    <2> QED BY <1>4, <2>6, <2>7, <2>9, <2>10, <2>11 DEF Unwinding
  <1> QED BY <1>3, <1>4

\* The native goes on after its callback.
LEMMA CallBackReturnsKeepsSkeleton ==
    ASSUME Skeleton, CallBackReturns
    PROVE  Skeleton'
  <1>1. /\ ctl # << >> /\ Top.kind = "run" /\ signal = "ok" /\ signal' = "none"
        /\ UNCHANGED <<frames, defers, flags, ctl>>
    BY DEF CallBackReturns
  <1>2. Stacked(ctl, Depth, "none")
    BY <1>1, SkeletonFacts, StackedSignal
  <1>3. Nested(ctl, Depth, "none")
    BY <1>1, <1>2, SkeletonFacts DEF Nested, Tight
  <1> QED BY <1>1, <1>3, SkeletonFacts DEF Skeleton, Types, flags, Depth

\* An empty stack.
LEMMA EmptyStack ==
    ASSUME NEW s
    PROVE  /\ Nested(<< >>, 0, s) /\ Stacks(<< >>, << >>) /\ Sections(<< >>, << >>)
           /\ Targets(<< >>) = {}
  <1>1. Len(<< >>) = 0 /\ << >> \in Seq(Records) /\ DOMAIN << >> = {}
    OBVIOUS
  <1>2. CtlOK(<< >>)
    BY <1>1 DEF CtlOK
  <1>3. Nested(<< >>, 0, s)
    BY <1>1, <1>2 DEF Nested, Stacked, Tight, Ordered, OnlyFirst, Within, Marks
  <1>4. Stacks(<< >>, << >>) /\ Sections(<< >>, << >>)
    BY UnwindAssumption DEF Stacks, Sections
  <1>5. Targets(<< >>) = {}
    BY <1>1 DEF Targets
  <1> QED BY <1>3, <1>4, <1>5

\* The host runs a program, or calls a global function.
LEMMA HostKeepsSkeleton ==
    ASSUME Skeleton, Run \/ CallGlobal
    PROVE  Skeleton'
  <1>1. CASE Run
    <2>1. /\ frames' = << >> /\ defers' = << >> /\ isPanicking' = FALSE /\ recovered' = FALSE
          /\ unwindFailed' = FALSE /\ ctl' = <<RunRec(NoTarget)>> /\ signal' = "none"
      BY <1>1 DEF Run
    <2> DEFINE c == <<RunRec(NoTarget)>>
    <2>2. RunRec(NoTarget) \in Records /\ RunRec(NoTarget).kind = "run"
          /\ RunRec(NoTarget).target = NoTarget
      BY RecordKinds, UnwindAssumption DEF NoTarget
    <2>3. /\ c \in Seq(Records) /\ Len(c) = 1 /\ c[1] = RunRec(NoTarget) /\ DOMAIN c = 1 .. 1
          /\ c # << >>
      BY <2>2
    <2> HIDE DEF c
    <2>4. CtlOK(c)
      BY <2>2, <2>3 DEF CtlOK
    <2>5. \A i \in 1 .. 1 : ~Bounded(c, i) /\ c[i].kind # "unwind"
      BY <2>2, <2>3 DEF Bounded
    <2>6. Ordered(c) /\ OnlyFirst(c) /\ Within(c, 0) /\ Within(c, 0 - 1) /\ Marks(c, 0, "none")
      BY <2>3, <2>5 DEF Ordered, OnlyFirst, Within, Marks
    <2>7. Nested(c, 0, "none")
      BY <2>4, <2>6 DEF Nested, Stacked, Tight
    <2>8. Depth' = 0
      BY <2>1 DEF Depth
    <2> QED BY <2>1, <2>7, <2>8, EmptyStack DEF Skeleton, Types, c
  <1>2. CASE CallGlobal
    <2>1. ctl = << >> /\ EnterFrame(<<RunRec(Depth)>>) /\ UNCHANGED <<defers, flags>>
      BY <1>2 DEF CallGlobal
    <2>2. <<RunRec(Depth)>> = Append(ctl, RunRec(Depth))
      BY <2>1
    <2>3. /\ Stacks(frames', defers') /\ Nested(ctl', Depth', signal')
          /\ signal' \in {"none", "error"}
      BY <2>1, <2>2, SkeletonFacts, NestedCallKeeps
    <2> QED BY <2>1, <2>3, SkeletonFacts DEF Skeleton, Types, flags
  <1> QED BY <1>1, <1>2

\* Every step keeps Skeleton.
LEMMA StepKeepsSkeleton ==
    ASSUME Skeleton, [Next]_vars
    PROVE  Skeleton'
  <1>1. CASE UNCHANGED vars
    BY <1>1 DEF Skeleton, Types, vars, flags, Depth
  <1>2. CASE Machine
    BY <1>2, DeferredKeepsSkeleton, ReturningKeepsSkeleton, UnwindingKeepsSkeleton,
       CallBackReturnsKeepsSkeleton DEF Machine
  <1> QED BY <1>1, <1>2, ScriptKeepsSkeleton, HostKeepsSkeleton DEF Next

----------------------------------------------------------------------------
(* The frames and the deferred calls above a target stay above it.         *)

\* What a push, a pop and recover() do to the targets.
LEMMA TargetsFacts ==
    ASSUME NEW c, CtlOK(c)
    PROVE  /\ \A t \in Targets(c) : t \in 0 .. MaxFrames
           /\ \A d : Within(c, d) => \A t \in Targets(c) : t <= d
           /\ c # << >> => Targets(Front(c)) \subseteq Targets(c)
           /\ \A e \in Records : e.kind # "run" => Targets(Append(c, e)) \subseteq Targets(c)
           /\ \A d \in 0 .. NoTarget : Targets(Append(c, RunRec(d))) \subseteq Targets(c) \cup {d}
           /\ \A a : Alike(c, a) => Targets(a) \subseteq Targets(c)
  <1>1. \A t \in Targets(c) : t \in 0 .. MaxFrames
    BY CtlFacts DEF Targets
  <1>2. \A d : Within(c, d) => \A t \in Targets(c) : t <= d
    BY DEF Within, Targets
  <1>3. ASSUME c # << >> PROVE Targets(Front(c)) \subseteq Targets(c)
    <2>1. /\ Len(Front(c)) = Len(c) - 1 /\ Len(c) \in Nat
          /\ \A i \in 1 .. Len(Front(c)) : Front(c)[i] = c[i]
      BY <1>3, PopCtl, CtlFacts
    <2>2. \A i \in 1 .. Len(Front(c)) : i \in 1 .. Len(c) /\ (Bounded(Front(c), i) => Bounded(c, i))
      BY <2>1 DEF Bounded
    <2> QED BY <2>1, <2>2 DEF Targets
  <1>4. ASSUME NEW e \in Records
        PROVE  /\ Len(Append(c, e)) = Len(c) + 1 /\ Append(c, e)[Len(c) + 1] = e
               /\ \A i \in 1 .. Len(c) : Append(c, e)[i] = c[i]
               /\ \A i \in 1 .. Len(c) + 1 : i = Len(c) + 1 \/ i \in 1 .. Len(c)
    BY CtlFacts, Pushed
  <1>5. ASSUME NEW e \in Records, e.kind # "run"
        PROVE  Targets(Append(c, e)) \subseteq Targets(c)
    <2> DEFINE a == Append(c, e)
    <2>1. /\ Len(a) = Len(c) + 1 /\ a[Len(c) + 1] = e
          /\ \A i \in 1 .. Len(c) : a[i] = c[i]
          /\ \A i \in 1 .. Len(c) + 1 : i = Len(c) + 1 \/ i \in 1 .. Len(c)
      BY <1>4
    <2> HIDE DEF a
    <2>2. \A i \in 1 .. Len(a) : Bounded(a, i) => i \in 1 .. Len(c) /\ Bounded(c, i) /\ a[i] = c[i]
      BY <1>5, <2>1 DEF Bounded
    <2>3. Targets(a) \subseteq Targets(c)
      BY <2>2 DEF Targets
    <2> QED BY <2>3 DEF a
  <1>6. ASSUME NEW d \in 0 .. NoTarget
        PROVE  Targets(Append(c, RunRec(d))) \subseteq Targets(c) \cup {d}
    <2> DEFINE a == Append(c, RunRec(d))
    <2>1. RunRec(d) \in Records /\ RunRec(d).target = d
      BY RecordKinds
    <2>2. /\ Len(a) = Len(c) + 1 /\ a[Len(c) + 1] = RunRec(d)
          /\ \A i \in 1 .. Len(c) : a[i] = c[i]
          /\ \A i \in 1 .. Len(c) + 1 : i = Len(c) + 1 \/ i \in 1 .. Len(c)
      BY <1>4, <2>1
    <2> HIDE DEF a
    <2>3. \A i \in 1 .. Len(a) : Bounded(a, i) /\ a[i].target # d
                => i \in 1 .. Len(c) /\ Bounded(c, i) /\ a[i] = c[i]
      BY <2>1, <2>2 DEF Bounded
    <2>4. Targets(a) \subseteq Targets(c) \cup {d}
      BY <2>3 DEF Targets
    <2> QED BY <2>4 DEF a
  <1>7. ASSUME NEW a, Alike(c, a) PROVE Targets(a) \subseteq Targets(c)
    <2>1. \A i \in 1 .. Len(a) : Bounded(a, i) => i \in 1 .. Len(c) /\ Bounded(c, i) /\ a[i] = c[i]
      BY <1>7 DEF Alike, Bounded
    <2> QED BY <2>1 DEF Targets
  <1> QED BY <1>1, <1>2, <1>3, <1>5, <1>6, <1>7

\* A step adds a frame, or takes the innermost away, which is above all targets.
FramesStep ==
    \/ frames' = frames
    \/ Depth < MaxFrames /\ frames' = Append(frames, Len(defers'))
    \/ frames' = Front(frames) /\ Within(ctl, Depth - 1)

\* It adds a deferred call, or takes the last away, which some frame above all
\* targets has scheduled.
DefersStep ==
    \/ defers' = defers
    \/ /\ frames # << >> /\ Len(defers) # MaxDefers
       /\ \E k \in Kinds : defers' = Append(defers, [kind |-> k, frame |-> Len(frames)])
    \/ /\ defers' = Front(defers)
       /\ \E k \in 1 .. Depth : Len(defers) > frames[k] /\ Within(ctl, k - 1)

\* A new target is the present depth, and a frame is pushed there.
TargetsStep ==
    \/ Targets(ctl') \subseteq Targets(ctl)
    \/ /\ Depth < MaxFrames /\ frames' = Append(frames, Len(defers'))
       /\ Targets(ctl') \subseteq Targets(ctl) \cup {Depth}

\* enterFunctionFrame.
LEMMA EnterFrameShape ==
    ASSUME Skeleton, NEW c, EnterFrame(c), c = ctl \/ c = Append(ctl, RunRec(Depth))
    PROVE  FramesStep /\ TargetsStep
  <1>1. CASE Raise /\ UNCHANGED frames
    BY <1>1 DEF Raise, FramesStep, TargetsStep
  <1>2. CASE Depth < MaxFrames /\ frames' = Append(frames, Len(defers')) /\ ctl' = c
    <2>1. Depth \in 0 .. NoTarget /\ CtlOK(ctl)
      BY SkeletonFacts, UnwindAssumption DEF NoTarget
    <2>2. Targets(c) \subseteq Targets(ctl) \cup {Depth}
      BY <2>1, TargetsFacts
    <2> QED BY <1>2, <2>2 DEF FramesStep, TargetsStep
  <1> QED BY <1>1, <1>2 DEF EnterFrame

\* Pops.
LEMMA PopsShape ==
    ASSUME CtlOK(ctl), ctl # << >>
    PROVE  /\ ctl' = ctl => TargetsStep
           /\ ctl' = Front(ctl) => TargetsStep
           /\ ctl' = Front(Front(ctl)) /\ Top.kind # "run" => TargetsStep
           /\ Top.kind # "run" =>
                 \A e \in Records : e.kind # "run" /\ ctl' = Append(Front(ctl), e) => TargetsStep
           /\ \A e \in Records : e.kind # "run" /\ ctl' = Append(ctl, e) => TargetsStep
  <1>1. Targets(Front(ctl)) \subseteq Targets(ctl) /\ CtlOK(Front(ctl))
        /\ (Top.kind # "run" => Front(ctl) # << >>)
    BY TargetsFacts, PopCtl DEF Top
  <1>2. Top.kind # "run" => Targets(Front(Front(ctl))) \subseteq Targets(ctl)
    BY <1>1, TargetsFacts
  <1>3. \A e \in Records : e.kind # "run" => /\ Targets(Append(Front(ctl), e)) \subseteq Targets(ctl)
                                            /\ Targets(Append(ctl, e)) \subseteq Targets(ctl)
    BY <1>1, TargetsFacts
  <1> QED BY <1>1, <1>2, <1>3 DEF TargetsStep

\* Every step but that of a new program is of these shapes.
LEMMA StepShapes ==
    ASSUME Skeleton, [Next]_vars, ~Run
    PROVE  FramesStep /\ DefersStep /\ TargetsStep
  <1>0. /\ CtlOK(ctl)
        /\ frames' = frames => FramesStep
        /\ defers' = defers => DefersStep
        /\ ctl' = ctl => TargetsStep
    BY SkeletonFacts DEF FramesStep, DefersStep, TargetsStep
  <1>1. CASE UNCHANGED vars
    BY <1>0, <1>1 DEF vars
  <1>2. CASE Call \/ CallBack \/ DeferredGoesOn \/ RetChecks
    <2>1. defers' = defers /\ (EnterFrame(ctl) \/ EnterFrame(Append(ctl, RunRec(Depth))))
      BY <1>2 DEF Call, CallBack, DeferredGoesOn, RetChecks
    <2> QED BY <1>0, <2>1, EnterFrameShape
  <1>3. CASE CallGlobal
    <2>1. defers' = defers /\ EnterFrame(Append(ctl, RunRec(Depth)))
      <3>1. ctl = << >> /\ EnterFrame(<<RunRec(Depth)>>) /\ defers' = defers
        BY <1>3 DEF CallGlobal
      <3>2. <<RunRec(Depth)>> = Append(ctl, RunRec(Depth))
        BY <3>1
      <3> QED BY <3>1, <3>2
    <2> QED BY <1>0, <2>1, EnterFrameShape
  <1>4. ASSUME NEW k \in Kinds, Defer(k) PROVE FramesStep /\ DefersStep /\ TargetsStep
    BY <1>0, <1>4 DEF Defer, Raise, DefersStep, Depth
  <1>5. CASE Recover
    <2>1. CoreRecover /\ frames' = frames /\ defers' = defers
      BY <1>5 DEF Recover
    <2>2. Alike(ctl, ctl')
      BY <2>1, SkeletonFacts, RecoverMarks DEF TypeOK, Stacks, CtlOK
    <2>3. TargetsStep
      BY <1>0, <2>2, TargetsFacts DEF TargetsStep
    <2> QED BY <1>0, <2>1, <2>3
  <1>6. CASE Panic \/ CallBackReturns
    BY <1>0, <1>6 DEF Panic, Raise, CallBackReturns
  <1>7. CASE Return
    <2>1. Executing /\ defers' = defers
      BY <1>7 DEF Return
    <2>2. /\ ctl # << >> /\ Within(ctl, Depth - 1)
          /\ RetRec(FALSE) \in Records /\ RetRec(FALSE).kind = "ret"
      BY <2>1, ExecutingFacts, RecordKinds
    <2>3. CASE PopFrame(ctl)
      BY <1>0, <2>1, <2>2, <2>3, PopsShape DEF PopFrame, FramesStep
    <2>4. CASE ctl' = Append(ctl, RetRec(FALSE)) /\ frames' = frames
      <3>1. RetRec(FALSE).kind # "run"
        BY <2>2
      <3> QED BY <1>0, <2>1, <2>2, <2>4, <3>1, PopsShape
    <2> QED BY <1>7, <2>3, <2>4 DEF Return
  <1>8. CASE Halt
    <2>1. ctl # << >> /\ ctl' = Front(ctl) /\ frames' = frames /\ defers' = defers
      BY <1>8 DEF Halt, Executing
    <2> QED BY <1>0, <2>1, PopsShape
  <1>9. CASE NextDeferred
    <2>1. /\ DrainingFrame /\ Pending /\ defers' = Front(defers)
          /\ ctl # << >> /\ Top.kind \in {"ret", "unwind"} /\ frames # << >>
      BY <1>9 DEF NextDeferred, DrainingFrame, Draining, Pending, DeferTopPopped
    <2>2. DrainedFrame \in 1 .. Depth /\ Within(ctl, DrainedFrame - 1)
      <3>1. CASE Top.kind = "unwind"
        BY <2>1, <3>1, ServingFacts DEF DrainingFrame, DrainedFrame
      <3>2. CASE Top.kind = "ret"
        BY <2>1, <3>2, SkeletonFacts DEF DrainingFrame, DrainedFrame, Tight
      <3> QED BY <2>1, <3>1, <3>2
    <2>3. DefersStep
      BY <2>1, <2>2 DEF DefersStep, Pending
    <2>4. CASE EnterFrame(Append(ctl, RunRec(Depth)))
      BY <2>3, <2>4, EnterFrameShape
    <2>5. CASE UNCHANGED <<frames, ctl>>
      BY <1>0, <2>3, <2>5
    <2>6. CASE CoreRecover /\ frames' = frames
      <3>1. Alike(ctl, ctl')
        BY <2>6, SkeletonFacts, RecoverMarks DEF TypeOK, Stacks, CtlOK
      <3>2. TargetsStep
        BY <1>0, <3>1, TargetsFacts DEF TargetsStep
      <3> QED BY <1>0, <2>3, <2>6, <3>2
    <2>7. Last(defers).kind \in Kinds
      <3>1. frames[DrainedFrame] \in 0 .. MaxDefers
        BY <2>2, SkeletonFacts, StacksFacts
      <3>2. Len(defers) # 0
        BY <2>1, <3>1, SkeletonFacts DEF Pending
      <3>3. defers # << >> /\ Stacks(frames, defers)
        BY <3>2, SkeletonFacts, StacksFacts
      <3> QED BY <3>3, StacksChanges
    <2> QED BY <1>9, <2>4, <2>5, <2>6, <2>7 DEF NextDeferred, Kinds
  <1>10. CASE RetResumes \/ RetFails \/ RetEnds \/ UnwindFails
    <2>1. /\ ctl # << >> /\ Top.kind \in {"ret", "unwind"} /\ frames' = frames /\ defers' = defers
          /\ ctl' \in {ctl, Front(ctl), Front(Front(ctl))}
      BY <1>10 DEF RetResumes, RetFails, RetEnds, UnwindFails, Draining
    <2> QED BY <1>0, <2>1, PopsShape
  <1>11. CASE RetPops
    <2>1. /\ ctl # << >> /\ Top.kind = "ret" /\ ~Top.gone /\ defers' = defers
          /\ frames' = Front(frames) /\ ctl' = Append(Front(ctl), RetRec(TRUE))
      BY <1>11 DEF RetPops, DrainingFrame, Draining
    <2>2. Within(ctl, Depth - 1)
      BY <2>1, SkeletonFacts DEF Tight
    <2>3. RetRec(TRUE) \in Records /\ RetRec(TRUE).kind # "run"
      BY RecordKinds
    <2>4. TargetsStep
      BY <1>0, <2>1, <2>3, PopsShape
    <2> QED BY <1>0, <2>1, <2>2, <2>4 DEF FramesStep
  <1>12. CASE BeginUnwind
    <2>1. ctl # << >> /\ frames' = frames /\ defers' = defers
      BY <1>12 DEF BeginUnwind
    <2>2. CASE UnwindGivesUp(ctl)
      BY <1>0, <2>1, <2>2, PopsShape DEF UnwindGivesUp
    <2>3. CASE ctl' = Append(ctl, UnwindRec(PrevPanicking))
      <3>1. UnwindRec(PrevPanicking) \in Records /\ UnwindRec(PrevPanicking).kind # "run"
        BY SkeletonFacts, RecordKinds DEF PrevPanicking
      <3> QED BY <1>0, <2>1, <2>3, <3>1, PopsShape
    <2> QED BY <1>12, <2>2, <2>3 DEF BeginUnwind
  <1>13. ASSUME ctl # << >>, Top.kind = "unwind",
                \E e \in UnwindRecords : ctl' = Append(Front(ctl), e)
         PROVE  TargetsStep
    <2>1. PICK e \in UnwindRecords : ctl' = Append(Front(ctl), e)
      BY <1>13
    <2>2. e \in Records /\ e.kind # "run" /\ Top.kind # "run"
      BY <1>13, UnwindFields
    <2> QED BY <1>0, <1>13, <2>1, <2>2, PopsShape
  <1>14. \A f \in 0 .. MaxFrames : ctl # << >> /\ Top.kind = "unwind" =>
              [Top EXCEPT !.frame = f] \in UnwindRecords
    BY SkeletonFacts DEF UnwindRecords
  <1>15. CASE UnwindNextFrame
    <2>1. /\ ctl # << >> /\ Top.kind = "unwind" /\ frames' = frames /\ defers' = defers
          /\ ctl' = Append(Front(ctl), [Top EXCEPT !.frame = Depth])
      BY <1>15 DEF UnwindNextFrame, Draining
    <2>2. [Top EXCEPT !.frame = Depth] \in UnwindRecords
      BY <1>14, <2>1, SkeletonFacts
    <2> QED BY <1>0, <1>13, <2>1, <2>2
  <1>16. CASE UnwindResumes
    <2>1. ctl # << >> /\ Top.kind = "unwind" /\ frames' = frames /\ defers' = defers
      BY <1>16 DEF UnwindResumes
    <2> DEFINE rec == IF signal = "error" /\ ~recovered
                      THEN [Top EXCEPT !.frec = FALSE, !.taken = FALSE] ELSE Top
               fin == IF recovered THEN [rec EXCEPT !.frec = TRUE] ELSE rec
    <2>2. \/ UnwindGivesUp(Front(ctl))
          \/ ctl' = Append(Front(ctl), fin)
      BY <1>16 DEF UnwindResumes
    <2>3. rec \in UnwindRecords
      BY <2>1, SkeletonFacts DEF UnwindRecords
    <2> HIDE DEF rec
    <2>4. fin \in UnwindRecords
      BY <2>3 DEF UnwindRecords
    <2> HIDE DEF fin
    <2>5. TargetsStep
      BY <1>0, <1>13, <2>1, <2>2, <2>4, PopsShape DEF UnwindGivesUp
    <2> QED BY <1>0, <2>1, <2>5
  <1>17. CASE UnwindFrame \/ RecoveredPushFails
    <2>1. /\ ctl # << >> /\ Top.kind = "unwind" /\ Top.frame # 0
          /\ frames' = Front(frames) /\ defers' = defers
          /\ \/ ctl' \in {Front(ctl), Front(Front(ctl))}
             \/ ctl' = Append(Front(ctl), [Top EXCEPT !.frame = 0])
      BY <1>17 DEF UnwindFrame, RecoveredPushFails, UnwindGivesUp, PopFrame, DrainingFrame, Draining
    <2>2. Within(ctl, Depth - 1)
      BY <2>1, ServingFacts
    <2>3. TargetsStep
      <3>1. [Top EXCEPT !.frame = 0] \in UnwindRecords
        BY <1>14, <2>1, UnwindAssumption
      <3> QED BY <1>0, <1>13, <2>1, <3>1, PopsShape
    <2> QED BY <1>0, <2>1, <2>2, <2>3 DEF FramesStep
  <1> QED BY <1>1, <1>2, <1>3, <1>4, <1>5, <1>6, <1>7, <1>8, <1>9, <1>10, <1>11, <1>12, <1>15, <1>16,
             <1>17 DEF Next, Script, Machine, Returning, Unwinding

\* frames' and defers' position by position.
LEMMA ShapesFacts ==
    ASSUME Skeleton, FramesStep, DefersStep
    PROVE  /\ Len(frames') \in Nat /\ Len(defers') \in Nat
           /\ Len(frames') <= Depth + 1
           /\ \A j \in 1 .. Len(frames') : IF j <= Depth THEN frames'[j] = frames[j]
                                                        ELSE frames'[j] = Len(defers')
           /\ Len(frames') >= Depth \/ (Len(frames') = Depth - 1 /\ Within(ctl, Depth - 1))
           /\ \A j \in 1 .. Len(defers') : j <= Len(defers) => defers'[j] = defers[j]
           /\ \/ Len(defers') >= Len(defers)
              \/ /\ Len(defers') = Len(defers) - 1
                 /\ \E k \in 1 .. Depth : Len(defers) > frames[k] /\ Within(ctl, k - 1)
  <1>1. /\ Stacks(frames, defers) /\ Depth = Len(frames) /\ Depth \in Nat /\ Len(defers) \in Nat
        /\ frames = << >> <=> Depth = 0
        /\ defers = << >> <=> Len(defers) = 0
        /\ \A j \in 1 .. Depth : frames[j] \in 0 .. MaxDefers
    BY SkeletonFacts, StacksFacts
  <1>2. /\ Len(defers') \in Nat /\ Len(defers') <= MaxDefers
        /\ \A j \in 1 .. Len(defers') : j <= Len(defers) => defers'[j] = defers[j]
        /\ \/ Len(defers') >= Len(defers)
           \/ /\ Len(defers') = Len(defers) - 1
              /\ \E k \in 1 .. Depth : Len(defers) > frames[k] /\ Within(ctl, k - 1)
    <2>1. CASE defers' = defers
      <3>1. Len(defers) <= MaxDefers
        BY <1>1 DEF Stacks
      <3> QED BY <1>1, <2>1, <3>1
    <2>2. CASE /\ frames # << >> /\ Len(defers) # MaxDefers
               /\ \E k \in Kinds : defers' = Append(defers, [kind |-> k, frame |-> Len(frames)])
      <3>0. PICK k \in Kinds : defers' = Append(defers, [kind |-> k, frame |-> Len(frames)])
        BY <2>2
      <3>1. /\ Stacks(frames, defers') /\ Len(defers') = Len(defers) + 1
            /\ \A j \in 1 .. Len(defers) : defers'[j] = defers[j]
        BY <1>1, <2>2, <3>0, StacksChanges
      <3>2. Len(defers') <= MaxDefers
        BY <3>1 DEF Stacks
      <3> QED BY <1>1, <3>1, <3>2
    <2>3. CASE /\ defers' = Front(defers)
               /\ \E k \in 1 .. Depth : Len(defers) > frames[k] /\ Within(ctl, k - 1)
      <3>1. defers # << >>
        <4>1. PICK k \in 1 .. Depth : Len(defers) > frames[k]
          BY <2>3
        <4> QED BY <1>1, <4>1
      <3>2. /\ Stacks(frames, defers') /\ Len(defers') = Len(defers) - 1
            /\ \A j \in 1 .. Len(defers') : defers'[j] = defers[j]
        BY <1>1, <2>3, <3>1, StacksChanges
      <3>3. Len(defers') <= MaxDefers /\ Len(defers) # 0
        BY <1>1, <3>1, <3>2 DEF Stacks
      <3> QED BY <1>1, <2>3, <3>2, <3>3
    <2> QED BY <2>1, <2>2, <2>3 DEF DefersStep
  <1>3. /\ Len(frames') \in Nat
        /\ Len(frames') <= Depth + 1
        /\ \A j \in 1 .. Len(frames') : IF j <= Depth THEN frames'[j] = frames[j]
                                                     ELSE frames'[j] = Len(defers')
        /\ Len(frames') >= Depth \/ (Len(frames') = Depth - 1 /\ Within(ctl, Depth - 1))
    <2>1. CASE frames' = frames
      BY <1>1, <2>1
    <2>2. CASE Depth < MaxFrames /\ frames' = Append(frames, Len(defers'))
      <3>1. frames \in Seq(0 .. MaxDefers) /\ Len(defers') \in 0 .. MaxDefers
        BY <1>1, <1>2 DEF Stacks
      <3>2. /\ Len(frames') = Depth + 1 /\ frames'[Depth + 1] = Len(defers')
            /\ \A j \in 1 .. Depth : frames'[j] = frames[j]
        BY <1>1, <2>2, <3>1, Pushed
      <3> QED BY <1>1, <3>2
    <2>3. CASE frames' = Front(frames) /\ Within(ctl, Depth - 1)
      <3>1. /\ Len(frames') = IF frames = << >> THEN 0 ELSE Depth - 1
            /\ \A j \in 1 .. Len(frames') : frames'[j] = frames[j]
        BY <1>1, <2>3, StacksChanges
      <3> QED BY <1>1, <2>3, <3>1
    <2> QED BY <2>1, <2>2, <2>3 DEF FramesStep
  <1> QED BY <1>2, <1>3

\* The floor of a target stays where it is.
LEMMA FloorAtKeeps ==
    ASSUME Skeleton, FramesStep, DefersStep, NEW t \in Targets(ctl), FloorAt(t, frames, defers)
    PROVE  FloorAt(t, frames', defers')
  <1>1. /\ Depth = Len(frames) /\ Depth \in Nat /\ Len(defers) \in Nat /\ MaxDefers \in Nat
        /\ \A j \in 1 .. Depth : frames[j] \in 0 .. MaxDefers
        /\ t \in Nat
        /\ \A d : Within(ctl, d) => t <= d
    BY SkeletonFacts, StacksFacts, TargetsFacts, UnwindAssumption
  <1>2. /\ Len(frames') \in Nat /\ Len(defers') \in Nat
        /\ Len(frames') <= Depth + 1
        /\ \A j \in 1 .. Len(frames') : IF j <= Depth THEN frames'[j] = frames[j]
                                                     ELSE frames'[j] = Len(defers')
        /\ \/ Len(defers') >= Len(defers)
           \/ /\ Len(defers') = Len(defers) - 1
              /\ \E k \in 1 .. Depth : Len(defers) > frames[k] /\ Within(ctl, k - 1)
    BY ShapesFacts
  <1>3. ASSUME t < Depth
        PROVE  /\ frames[t + 1] <= Len(defers') /\ frames[t + 1] \in Nat
               /\ \A j \in t + 1 .. Depth : frames[t + 1] <= frames[j]
    <2>1. /\ frames[t + 1] <= Len(defers) /\ frames[t + 1] \in Nat
          /\ \A j \in t + 1 .. Depth : frames[t + 1] <= frames[j]
      BY <1>1, <1>3 DEF FloorAt
    <2>2. CASE Len(defers') >= Len(defers)
      BY <1>1, <1>2, <2>1, <2>2
    <2>3. CASE /\ Len(defers') = Len(defers) - 1
               /\ \E k \in 1 .. Depth : Len(defers) > frames[k] /\ Within(ctl, k - 1)
      <3>1. PICK k \in 1 .. Depth : Len(defers) > frames[k] /\ Within(ctl, k - 1)
        BY <2>3
      <3>2. k \in t + 1 .. Depth /\ frames[k] \in Nat
        <4>1. t <= k - 1
          BY <1>1, <3>1
        <4> QED BY <1>1, <4>1
      <3>3. frames[t + 1] <= frames[k]
        BY <2>1, <3>2
      <3> QED BY <1>1, <2>1, <2>3, <3>1, <3>2, <3>3
    <2> QED BY <1>2, <2>2, <2>3
  <1> SUFFICES ASSUME t < Len(frames')
               PROVE  /\ frames'[t + 1] <= Len(defers')
                      /\ \A j \in t + 1 .. Len(frames') : frames'[t + 1] <= frames'[j]
    BY DEF FloorAt
  <1>4. t + 1 \in 1 .. Len(frames')
    BY <1>1, <1>2
  <1>5. CASE t < Depth
    <2>1. frames'[t + 1] = frames[t + 1]
      BY <1>1, <1>2, <1>4, <1>5
    <2>2. ASSUME NEW j \in t + 1 .. Len(frames') PROVE frames[t + 1] <= frames'[j]
      <3>1. j \in 1 .. Len(frames')
        BY <1>1
      <3>2. CASE j <= Depth
        <4>1. frames'[j] = frames[j] /\ j \in t + 1 .. Depth
          BY <1>1, <1>2, <3>1, <3>2
        <4> QED BY <1>3, <1>5, <4>1
      <3>3. CASE ~(j <= Depth)
        <4>1. frames'[j] = Len(defers')
          BY <1>2, <3>1, <3>3
        <4> QED BY <1>3, <1>5, <4>1
      <3> QED BY <3>2, <3>3
    <2> QED BY <1>3, <1>5, <2>1, <2>2
  <1>6. CASE ~(t < Depth)
    <2>1. t + 1 = Len(frames') /\ ~(t + 1 <= Depth)
      BY <1>1, <1>2, <1>4, <1>6
    <2>2. frames'[t + 1] = Len(defers')
      BY <1>2, <1>4, <2>1
    <2>3. \A j \in t + 1 .. Len(frames') : j = t + 1
      BY <2>1, <1>1
    <2> QED BY <1>2, <2>2, <2>3
  <1> QED BY <1>5, <1>6

\* Floor is kept: a run starts where its frame is pushed, on the deferred calls
\* there are.
LEMMA StepKeepsFloor ==
    ASSUME Skeleton, Floor(ctl, frames, defers), [Next]_vars
    PROVE  Floor(ctl', frames', defers')
  <1>1. CASE Run
    <2>1. ctl' = <<RunRec(NoTarget)>>
      BY <1>1 DEF Run
    <2>2. Targets(ctl') = {}
      BY <2>1 DEF Targets, Bounded, RunRec
    <2> QED BY <2>2 DEF Floor
  <1>2. CASE ~Run
    <2>1. FramesStep /\ DefersStep /\ TargetsStep
      BY <1>2, StepShapes
    <2>2. \A t \in Targets(ctl) : FloorAt(t, frames', defers')
      BY <2>1, FloorAtKeeps DEF Floor
    <2>3. CASE Targets(ctl') \subseteq Targets(ctl)
      BY <2>2, <2>3 DEF Floor
    <2>4. CASE /\ Depth < MaxFrames /\ frames' = Append(frames, Len(defers'))
               /\ Targets(ctl') \subseteq Targets(ctl) \cup {Depth}
      <3>1. /\ Len(frames') \in Nat /\ Len(defers') \in Nat /\ Len(frames') <= Depth + 1
            /\ Depth \in Nat
            /\ \A j \in 1 .. Len(frames') : IF j <= Depth THEN frames'[j] = frames[j]
                                                         ELSE frames'[j] = Len(defers')
        BY <2>1, ShapesFacts, SkeletonFacts
      <3>2. Depth < Len(frames') => /\ Depth + 1 = Len(frames') /\ frames'[Depth + 1] = Len(defers')
                                   /\ \A j \in Depth + 1 .. Len(frames') : j = Depth + 1
        BY <3>1
      <3>3. FloorAt(Depth, frames', defers')
        BY <3>1, <3>2 DEF FloorAt
      <3> QED BY <2>2, <2>4, <3>3 DEF Floor
    <2> QED BY <2>1, <2>3, <2>4 DEF TargetsStep
  <1> QED BY <1>1, <1>2

\* Two sequences that agree up to m have the same prefix of length m.
LEMMA SamePrefix ==
    ASSUME NEW S, NEW s \in Seq(S), NEW r \in Seq(S), NEW m \in Nat, m <= Len(s), m <= Len(r),
           \A j \in 1 .. m : r[j] = s[j]
    PROVE  SubSeq(r, 1, m) = SubSeq(s, 1, m)
  <1>1. Len(s) \in Nat /\ Len(r) \in Nat /\ (\A j \in 1 .. Len(s) : s[j] \in S)
        /\ (\A j \in 1 .. Len(r) : r[j] \in S)
    OBVIOUS
  <1>2. (\A j \in 1 .. m : s[j] \in S) /\ (\A j \in 1 .. m : r[j] \in S) /\ 1 \in Int /\ m \in Int
    BY <1>1
  <1>3. /\ SubSeq(s, 1, m) \in Seq(S) /\ SubSeq(r, 1, m) \in Seq(S)
        /\ Len(SubSeq(s, 1, m)) = m /\ Len(SubSeq(r, 1, m)) = m
    BY <1>2, SubSeqProperties
  <1>4. \A j \in 1 .. m : SubSeq(s, 1, m)[j] = s[j] /\ SubSeq(r, 1, m)[j] = r[j]
    <2>1. \A j \in 1 .. m - 1 + 1 : SubSeq(s, 1, m)[j] = s[1 + j - 1]
      BY <1>2, SubSeqProperties
    <2>2. \A j \in 1 .. m - 1 + 1 : SubSeq(r, 1, m)[j] = r[1 + j - 1]
      BY <1>2, SubSeqProperties
    <2>3. \A j \in 1 .. m : j \in 1 .. m - 1 + 1 /\ 1 + j - 1 = j
      OBVIOUS
    <2> QED BY <2>1, <2>2, <2>3
  <1> DEFINE a == SubSeq(s, 1, m)
             b == SubSeq(r, 1, m)
  <1>5. \A j \in 1 .. m : a[j] = b[j]
    BY <1>4
  <1> HIDE DEF a, b
  <1>6. a \in Seq(S) /\ b \in Seq(S) /\ Len(a) = Len(b) /\ \A j \in 1 .. Len(a) : a[j] = b[j]
    BY <1>3, <1>5 DEF a, b
  <1> QED BY <1>6, SeqEqual DEF a, b

\* The frames at or below a target, and the deferred calls below the first frame
\* above it, stay.
LEMMA ContainedStep ==
    ASSUME Skeleton, Skeleton', FramesStep, DefersStep,
           NEW t \in Targets(ctl), t \in DOMAIN frames, FloorAt(t, frames, defers)
    PROVE  LET n == IF t < Depth THEN frames[t + 1] ELSE Len(defers) IN
           /\ SubSeq(frames', 1, t) = SubSeq(frames, 1, t)
           /\ SubSeq(defers', 1, n) = SubSeq(defers, 1, n)
  <1> DEFINE n == IF t < Depth THEN frames[t + 1] ELSE Len(defers)
             D == [kind : Kinds, frame : 1 .. MaxFrames]
             E == 0 .. MaxDefers
  <1>1. /\ frames \in Seq(E) /\ defers \in Seq(D) /\ frames' \in Seq(E) /\ defers' \in Seq(D)
    BY DEF Skeleton, Types, Stacks
  <1>2. /\ Depth = Len(frames) /\ Depth \in Nat /\ Len(defers) \in Nat
        /\ \A j \in 1 .. Depth : frames[j] \in Nat
        /\ t \in 1 .. Depth /\ t \in Nat
        /\ \A d : Within(ctl, d) => t <= d
    <2>1. DOMAIN frames = 1 .. Depth /\ Depth = Len(frames)
      BY <1>1 DEF Depth
    <2>2. \A j \in 1 .. Depth : frames[j] \in Nat
      BY <2>1, SkeletonFacts, StacksFacts, UnwindAssumption
    <2> QED BY <2>1, <2>2, SkeletonFacts, TargetsFacts
  <1>3. /\ Len(frames') \in Nat /\ Len(defers') \in Nat
        /\ \A j \in 1 .. Len(frames') : IF j <= Depth THEN frames'[j] = frames[j]
                                                     ELSE frames'[j] = Len(defers')
        /\ Len(frames') >= Depth \/ (Len(frames') = Depth - 1 /\ Within(ctl, Depth - 1))
        /\ \A j \in 1 .. Len(defers') : j <= Len(defers) => defers'[j] = defers[j]
        /\ \/ Len(defers') >= Len(defers)
           \/ /\ Len(defers') = Len(defers) - 1
              /\ \E k \in 1 .. Depth : Len(defers) > frames[k] /\ Within(ctl, k - 1)
    BY ShapesFacts
  <1>4. t < Depth => /\ frames[t + 1] <= Len(defers) /\ t + 1 \in 1 .. Depth
                     /\ \A j \in t + 1 .. Depth : frames[t + 1] <= frames[j]
    BY <1>2 DEF FloorAt
  <1>5. n \in Nat /\ n <= Len(defers)
    BY <1>2, <1>4
  <1>6. n <= Len(defers')
    <2>1. CASE Len(defers') >= Len(defers)
      <3> HIDE DEF n
      <3> QED BY <1>2, <1>3, <1>5, <2>1
    <2>2. CASE /\ Len(defers') = Len(defers) - 1
               /\ \E k \in 1 .. Depth : Len(defers) > frames[k] /\ Within(ctl, k - 1)
      <3>1. PICK k \in 1 .. Depth : Len(defers) > frames[k] /\ Within(ctl, k - 1)
        BY <2>2
      <3>2. t <= k - 1
        BY <1>2, <3>1
      <3>3. t < Depth /\ k \in t + 1 .. Depth /\ frames[k] \in Nat
        BY <1>2, <3>2
      <3>4. n <= frames[k]
        <4>1. n = frames[t + 1]
          BY <3>3
        <4>2. frames[t + 1] <= frames[k]
          BY <1>4, <3>3
        <4> QED BY <4>1, <4>2
      <3> HIDE DEF n
      <3> QED BY <1>2, <1>5, <2>2, <3>1, <3>3, <3>4
    <2> QED BY <1>3, <2>1, <2>2
  <1>7. t <= Len(frames')
    BY <1>2, <1>3
  <1>8. SubSeq(frames', 1, t) = SubSeq(frames, 1, t)
    <2>1. \A j \in 1 .. t : frames'[j] = frames[j]
      BY <1>2, <1>3, <1>7
    <2> HIDE DEF E
    <2>2. t <= Len(frames)
      BY <1>2
    <2> QED BY <1>1, <1>2, <1>7, <2>1, <2>2, SamePrefix
  <1>9. SubSeq(defers', 1, n) = SubSeq(defers, 1, n)
    <2> HIDE DEF n, D
    <2>1. \A j \in 1 .. n : defers'[j] = defers[j]
      BY <1>2, <1>3, <1>5, <1>6
    <2> QED BY <1>1, <1>5, <1>6, <2>1, SamePrefix
  <1> QED BY <1>8, <1>9

----------------------------------------------------------------------------
(* The panic flag and the sections, until an unwind has itself failed.     *)

\* The parts of Exact, by name.
LEMMA ExactParts ==
    ASSUME NEW c, NEW d, NEW s, NEW p, NEW r, Exact(c, d, s, p, r)
    PROVE  Flags(c, p) /\ Rooted(c, d) /\ Taken(c, s, r) /\ Matched(c, d)
  BY DEF Exact

\* While a run is on top, neither the depth nor what it has called matters.
LEMMA ExactOnRun ==
    ASSUME NEW c, NEW d, NEW s, NEW p, NEW r, NEW e, NEW t, Exact(c, d, s, p, r),
           CtlOK(c), c # << >>, Last(c).kind # "unwind"
    PROVE  Exact(c, e, t, p, r)
  <1>1. Rooted(c, e) /\ Taken(c, t, r)
    BY ExactParts DEF Rooted, Taken
  <1>2. Matched(c, e)
    <2>1. Len(c) \in 1 .. Len(c) /\ c[Len(c)].kind # "unwind"
      BY LastOfCtl
    <2> QED BY <2>1, ExactParts DEF Matched
  <1> QED BY <1>1, <1>2, ExactParts DEF Exact

\* A call has returned.
LEMMA ExactSignal ==
    ASSUME NEW c, NEW d, NEW s, NEW p, NEW r, NEW t, Exact(c, d, s, p, r), t # "none"
    PROVE  Exact(c, d, t, p, r)
  BY DEF Exact, Taken

\* An unwind below a push stays; one that is not popped, too.
LEMMA HasUnwindPush ==
    ASSUME NEW c, NEW e \in Records, CtlOK(c)
    PROVE  HasUnwind(c) => HasUnwind(Append(c, e))
  <1>1. /\ Len(Append(c, e)) = Len(c) + 1 /\ Len(c) \in Nat
        /\ \A i \in 1 .. Len(c) : Append(c, e)[i] = c[i]
    BY CtlFacts, Pushed
  <1> SUFFICES ASSUME HasUnwind(c) PROVE HasUnwind(Append(c, e))
    OBVIOUS
  <1>2. PICK i \in 1 .. Len(c) : c[i].kind = "unwind"
    BY DEF HasUnwind
  <1>3. i \in 1 .. Len(Append(c, e)) /\ Append(c, e)[i].kind = "unwind"
    BY <1>1, <1>2
  <1> QED BY <1>3 DEF HasUnwind

LEMMA HasUnwindPop ==
    ASSUME NEW c, CtlOK(c), c # << >>, Last(c).kind # "unwind"
    PROVE  HasUnwind(c) => HasUnwind(Front(c))
  <1> SUFFICES ASSUME HasUnwind(c) PROVE HasUnwind(Front(c))
    OBVIOUS
  <1>1. PICK i \in 1 .. Len(c) : c[i].kind = "unwind"
    BY DEF HasUnwind
  <1>2. Len(c) \in Nat /\ i # Len(c)
    BY <1>1, CtlFacts DEF Last
  <1>3. Len(Front(c)) = Len(c) - 1 /\ \A j \in 1 .. Len(Front(c)) : Front(c)[j] = c[j]
    BY PopCtl
  <1>4. i \in 1 .. Len(Front(c)) /\ Front(c)[i].kind = "unwind"
    BY <1>1, <1>2, <1>3
  <1> QED BY <1>4 DEF HasUnwind

\* A run is called at the depth of the frame that is unwound.
LEMMA ExactPushRun ==
    ASSUME NEW c, NEW d \in 0 .. MaxFrames, NEW s, NEW p \in BOOLEAN, NEW r, CtlOK(c),
           Exact(c, d, s, p, r),
           c # << >> /\ Last(c).kind = "unwind" => Last(c).frame # 0,
           NEW e, NEW t
    PROVE  Exact(Append(c, RunRec(d)), e, t, p, r)
  <1> DEFINE a == Append(c, RunRec(d))
             n == Len(c)
  <1>1. d \in 0 .. NoTarget /\ d # NoTarget /\ n \in Nat /\ (c = << >> <=> n = 0)
    BY CtlFacts, UnwindAssumption DEF NoTarget
  <1>2. RunRec(d) \in Records /\ RunRec(d).kind = "run" /\ RunRec(d).target = d
    BY <1>1, RecordKinds
  <1>3. /\ Len(a) = n + 1 /\ a[n + 1] = RunRec(d) /\ a # << >>
        /\ \A i \in 1 .. n : a[i] = c[i]
    BY <1>2, CtlFacts, Pushed
  <1>4. Flags(a, p)
    BY <1>2, ExactParts, FlagsPush
  <1>5. Taken(a, t, r)
    <2>1. Last(a).kind # "unwind"
      BY <1>2, <1>3 DEF Last
    <2>2. r => HasUnwind(a)
      BY <1>2, ExactParts, HasUnwindPush DEF Taken
    <2> QED BY <2>1, <2>2 DEF Taken
  <1> HIDE DEF a, n
  <1>6. Rooted(a, e)
    <2>1. CASE n = 0
      <3>1. d = 0
        BY <1>1, <2>1, ExactParts DEF Rooted
      <3> QED BY <1>2, <1>3, <2>1, <3>1 DEF Rooted
    <2>2. CASE n # 0
      <3>1. 1 \in 1 .. n /\ c[1].target \in {0, NoTarget}
        BY <1>1, <2>2, ExactParts DEF Rooted
      <3> QED BY <1>3, <3>1 DEF Rooted
    <2> QED BY <2>1, <2>2
  <1>7. Matched(a, e)
    <2> SUFFICES ASSUME NEW i \in 1 .. n + 1, a[i].kind = "unwind"
                 PROVE  i # n + 1 /\ Bounded(a, i + 1) /\ a[i + 1].target = a[i].frame
      BY <1>3 DEF Matched
    <2>1. i \in 1 .. n /\ a[i] = c[i] /\ i # n + 1
      BY <1>1, <1>2, <1>3
    <2>2. CASE i = n
      <3>1. c[i].frame \in {0, d}
        BY <2>1, <2>2, ExactParts DEF Matched, n
      <3>2. c[i].frame # 0
        BY <1>1, <2>1, <2>2 DEF Last, n
      <3> QED BY <1>1, <1>2, <1>3, <2>1, <2>2, <3>1, <3>2 DEF Bounded
    <2>3. CASE i # n
      <3>1. i + 1 \in 1 .. n /\ Bounded(c, i + 1) /\ c[i + 1].target = c[i].frame
        BY <1>1, <2>1, <2>3, ExactParts DEF Matched, n
      <3> QED BY <1>3, <2>1, <3>1 DEF Bounded
    <2> QED BY <2>2, <2>3
  <1> QED BY <1>4, <1>5, <1>6, <1>7 DEF Exact, a

\* A run calls retSlowPath or runPanicUnwind, which saves the panic flag.
LEMMA ExactPushOther ==
    ASSUME NEW c, NEW d, NEW s, NEW p \in BOOLEAN, NEW r, CtlOK(c), c # << >>, Last(c).kind = "run",
           Exact(c, d, s, p, r),
           NEW e \in Records, e.kind # "run", NEW b, NEW t
    PROVE  /\ e.kind = "ret" => Exact(Append(c, e), b, t, p, r)
           /\ e.kind = "unwind" /\ e.prev = p /\ e.frame \in {0, b}
                 => Exact(Append(c, e), b, t, ~e.frec, FALSE)
  <1> DEFINE a == Append(c, e)
             n == Len(c)
  <1>1. n \in Nat \ {0} /\ 1 \in 1 .. n /\ n \in 1 .. n /\ c[n].kind = "run"
    <2>1. n \in 1 .. n /\ n \in Nat /\ c[n].kind = "run"
      BY LastOfCtl
    <2> QED BY <2>1
  <1>2. /\ Len(a) = n + 1 /\ a[n + 1] = e /\ a # << >>
        /\ \A i \in 1 .. n : a[i] = c[i]
    BY CtlFacts, Pushed
  <1>3. /\ e.kind # "unwind" => Flags(a, p)
        /\ e.kind = "unwind" /\ e.prev = p => Flags(a, ~e.frec)
    BY ExactParts, FlagsPush
  <1>4. Last(a) = e
    BY <1>2 DEF Last
  <1>5. HasUnwind(c) => HasUnwind(a)
    BY HasUnwindPush
  <1>6. Taken(a, t, FALSE) /\ (e.kind = "ret" => Taken(a, t, r))
    BY <1>4, <1>5, ExactParts DEF Taken
  <1> HIDE DEF a, n
  <1>7. Rooted(a, b)
    BY <1>1, <1>2, ExactParts DEF Rooted
  <1>8. (e.kind = "unwind" => e.frame \in {0, b}) => Matched(a, b)
    <2> SUFFICES ASSUME e.kind = "unwind" => e.frame \in {0, b},
                        NEW i \in 1 .. n + 1, a[i].kind = "unwind"
                 PROVE  IF i = n + 1 THEN a[i].frame \in {0, b}
                        ELSE Bounded(a, i + 1) /\ a[i + 1].target = a[i].frame
      BY <1>2 DEF Matched
    <2>1. CASE i = n + 1
      BY <1>2, <2>1
    <2>2. CASE i # n + 1
      <3>1. i \in 1 .. n /\ a[i] = c[i] /\ i # n
        BY <1>1, <1>2, <2>2
      <3>2. i + 1 \in 1 .. n /\ Bounded(c, i + 1) /\ c[i + 1].target = c[i].frame
        BY <1>1, <3>1, ExactParts DEF Matched, n
      <3> QED BY <1>2, <2>2, <3>1, <3>2 DEF Bounded
    <2> QED BY <2>1, <2>2
  <1> QED BY <1>3, <1>6, <1>7, <1>8 DEF Exact, a

\* retSlowPath or runPanicUnwind returns to its run; the unwind restores the flag.
LEMMA ExactPopOther ==
    ASSUME NEW c, NEW d, NEW s, NEW p \in BOOLEAN, NEW r, CtlOK(c), c # << >>, Last(c).kind # "run",
           Exact(c, d, s, p, r), NEW b, NEW t
    PROVE  /\ Last(c).kind = "ret" => Exact(Front(c), b, t, p, r)
           /\ Last(c).kind = "unwind" => /\ Exact(Front(c), b, t, Last(c).prev, FALSE)
                                         /\ p <=> ~Last(c).frec
  <1> DEFINE a == Front(c)
             n == Len(c)
  <1>1. /\ CtlOK(a) /\ Len(a) = n - 1 /\ n \in Nat /\ a # << >> /\ Last(a).kind = "run"
        /\ \A i \in 1 .. Len(a) : a[i] = c[i]
        /\ Last(c).kind \in {"run", "ret", "unwind"}
    BY PopCtl, CtlFacts, LastOfCtl
  <1>2. /\ Last(c).kind # "unwind" => Flags(a, p)
        /\ Last(c).kind = "unwind" => Flags(a, Last(c).prev) /\ (p <=> ~Last(c).frec)
    BY ExactParts, FlagsPop
  <1>3. Taken(a, t, FALSE) /\ (Last(c).kind = "ret" => Taken(a, t, r))
    <2>1. Last(c).kind = "ret" /\ r => HasUnwind(a)
      BY ExactParts, HasUnwindPop DEF Taken
    <2> QED BY <1>1, <2>1 DEF Taken
  <1>4. Len(a) \in 1 .. Len(a) /\ a[Len(a)].kind = "run"
    BY <1>1, LastOfCtl
  <1> HIDE DEF a, n
  <1>5. Rooted(a, b)
    <2>1. 1 \in 1 .. Len(a) /\ c # << >>
      BY <1>4
    <2> QED BY <1>1, <2>1, ExactParts DEF Rooted
  <1>6. Matched(a, b)
    <2> SUFFICES ASSUME NEW i \in 1 .. Len(a), a[i].kind = "unwind"
                 PROVE  i # Len(a) /\ Bounded(a, i + 1) /\ a[i + 1].target = a[i].frame
      BY DEF Matched
    <2>1. i # Len(a) /\ a[i] = c[i] /\ i \in 1 .. n /\ i # n /\ i + 1 \in 1 .. Len(a)
      BY <1>1, <1>4
    <2>2. Bounded(c, i + 1) /\ c[i + 1].target = c[i].frame
      BY <2>1, ExactParts DEF Matched, n
    <2> QED BY <1>1, <2>1, <2>2 DEF Bounded
  <1> QED BY <1>2, <1>3, <1>5, <1>6 DEF Exact, a

\* A run ends with the frames it has found.
LEMMA ExactPopRun ==
    ASSUME NEW c, NEW d, NEW s, NEW p \in BOOLEAN, NEW r, CtlOK(c), c # << >>, Last(c).kind = "run",
           OnlyFirst(c), Exact(c, d, s, p, r), NEW b, NEW t, t # "none",
           \/ Last(c).target # NoTarget /\ Last(c).target = b
           \/ Last(c).target = NoTarget /\ b = 0
    PROVE  Exact(Front(c), b, t, p, r)
  <1> DEFINE a == Front(c)
             n == Len(c)
  <1>1. /\ CtlOK(a) /\ Len(a) = n - 1 /\ n \in Nat
        /\ \A i \in 1 .. Len(a) : a[i] = c[i]
        /\ a = << >> <=> Len(a) = 0
        /\ n \in 1 .. n /\ Last(c) = c[n]
    <2>1. CtlOK(a)
      BY PopCtl
    <2> QED BY <2>1, PopCtl, CtlFacts, LastOfCtl
  <1>2. Flags(a, p)
    BY ExactParts, FlagsPop
  <1>3. Taken(a, t, r)
    BY ExactParts, HasUnwindPop DEF Taken
  <1> HIDE DEF a, n
  <1>4. Rooted(a, b)
    <2>1. CASE Len(a) = 0
      <3>1. n = 1
        BY <1>1, <2>1
      <3>2. Last(c).target \in {0, NoTarget}
        BY <1>1, <3>1, ExactParts DEF Rooted
      <3> QED BY <1>1, <2>1, <3>2 DEF Rooted
    <2>2. CASE Len(a) # 0
      <3>1. 1 \in 1 .. Len(a)
        BY <1>1, <2>2
      <3> QED BY <1>1, <2>2, <3>1, ExactParts DEF Rooted
    <2> QED BY <2>1, <2>2
  <1>5. Matched(a, b)
    <2> SUFFICES ASSUME NEW i \in 1 .. Len(a), a[i].kind = "unwind"
                 PROVE  IF i = Len(a) THEN a[i].frame \in {0, b}
                        ELSE Bounded(a, i + 1) /\ a[i + 1].target = a[i].frame
      BY DEF Matched
    <2>1. a[i] = c[i] /\ i \in 1 .. n /\ i # n /\ i + 1 \in 1 .. n
      BY <1>1
    <2>2. Bounded(c, i + 1) /\ c[i + 1].target = c[i].frame
      BY <1>1, <2>1, ExactParts DEF Matched, n
    <2>3. CASE i = Len(a)
      <3>1. i + 1 = n
        BY <1>1, <2>3
      <3>2. Last(c).target # NoTarget
        BY <1>1, <2>2, <3>1 DEF Bounded
      <3> QED BY <1>1, <2>1, <2>2, <2>3, <3>1, <3>2
    <2>4. CASE i # Len(a)
      <3>1. i + 1 \in 1 .. Len(a)
        BY <1>1, <2>4
      <3> QED BY <1>1, <2>1, <2>2, <2>4, <3>1 DEF Bounded
    <2> QED BY <2>3, <2>4
  <1> QED BY <1>2, <1>3, <1>4, <1>5 DEF Exact, a

\* core_recover finds is_panicking set only inside an unwind.
LEMMA ExactRecover ==
    ASSUME Skeleton, CoreRecover, Exact(ctl, Depth, signal, isPanicking, recovered), ctl # << >>,
           NEW t, Top.kind = "unwind" => t # "none"
    PROVE  Exact(ctl', Depth, t, isPanicking, recovered')
  <1>1. CtlOK(ctl) /\ CtlOK(ctl') /\ Alike(ctl, ctl') /\ Len(ctl) \in Nat /\ Len(ctl) \in 1 .. Len(ctl)
        /\ Top = ctl[Len(ctl)]
    BY SkeletonFacts, LastOfCtl, RecoverMarks DEF TypeOK, Stacks, CtlOK
  <1>2. /\ Len(ctl') = Len(ctl)
        /\ \A i \in 1 .. Len(ctl) :
            /\ ctl'[i].kind = ctl[i].kind
            /\ ctl[i].kind # "unwind" => ctl'[i] = ctl[i]
            /\ ctl[i].kind = "unwind" => ctl'[i].frame = ctl[i].frame
        /\ ctl' # << >>
    <2>1. (ctl' = << >> <=> Len(ctl') = 0) /\ Len(ctl) # 0
      BY <1>1, CtlFacts
    <2> QED BY <1>1, <2>1 DEF Alike
  <1>3. Flags(ctl', isPanicking)
    BY <1>1, ExactParts, FlagsAlike
  <1>4. recovered' => HasUnwind(ctl')
    <2>1. recovered => HasUnwind(ctl)
      BY ExactParts DEF Taken
    <2>2. isPanicking => HasUnwind(ctl)
      <3>1. isPanicking => Looking(ctl, Len(ctl) + 1)
        BY ExactParts DEF Flags
      <3>2. \A j \in 1 .. (Len(ctl) + 1) - 1 : j \in 1 .. Len(ctl)
        BY <1>1
      <3> QED BY <3>1, <3>2 DEF Looking, HasUnwind
    <2>3. recovered' => HasUnwind(ctl)
      BY <2>1, <2>2 DEF CoreRecover
    <2> QED BY <1>2, <2>3 DEF HasUnwind
  <1>5. Taken(ctl', t, recovered')
    BY <1>1, <1>2, <1>4 DEF Taken, Last
  <1>6. Rooted(ctl', Depth)
    <2>1. 1 \in 1 .. Len(ctl) /\ ctl[1].kind = "run"
      <3>1. 1 \in 1 .. Len(ctl)
        BY <1>1
      <3> QED BY <1>1, <3>1, CtlFacts
    <2> QED BY <1>2, <2>1, ExactParts DEF Rooted
  <1>7. Matched(ctl', Depth)
    <2> SUFFICES ASSUME NEW i \in 1 .. Len(ctl), ctl'[i].kind = "unwind"
                 PROVE  IF i = Len(ctl) THEN ctl'[i].frame \in {0, Depth}
                        ELSE Bounded(ctl', i + 1) /\ ctl'[i + 1].target = ctl'[i].frame
      BY <1>2 DEF Matched
    <2>1. ctl[i].kind = "unwind" /\ ctl'[i].frame = ctl[i].frame
      BY <1>2
    <2>2. IF i = Len(ctl) THEN ctl[i].frame \in {0, Depth}
          ELSE Bounded(ctl, i + 1) /\ ctl[i + 1].target = ctl[i].frame
      BY <2>1, ExactParts DEF Matched
    <2>3. i # Len(ctl) => i + 1 \in 1 .. Len(ctl)
      BY <1>1
    <2> QED BY <1>2, <2>1, <2>2, <2>3 DEF Bounded
  <1> QED BY <1>3, <1>5, <1>6, <1>7 DEF Exact

\* What holds until an unwind has itself failed.
Whole == Sections(frames, defers) /\ Exact(ctl, Depth, signal, isPanicking, recovered)

\* enterFunctionFrame for a record that becomes c.
LEMMA EnterFrameExact ==
    ASSUME Skeleton, NEW c, EnterFrame(c), Stacks(frames, defers'), Sections(frames, defers'),
           Exact(ctl, Depth, signal, isPanicking, recovered),
           UNCHANGED <<isPanicking, recovered>>,
           Depth < MaxFrames => Exact(c, Depth + 1, "none", isPanicking, recovered)
    PROVE  Whole'
  <1>1. CASE Raise /\ UNCHANGED frames
    <2>1. signal' = "error" /\ ctl' = ctl /\ frames' = frames
      BY <1>1 DEF Raise
    <2>2. Exact(ctl, Depth, "error", isPanicking, recovered)
      BY ExactSignal
    <2> QED BY <2>1, <2>2 DEF Depth, Whole
  <1>2. CASE /\ Depth < MaxFrames /\ frames' = Append(frames, Len(defers'))
             /\ ctl' = c /\ signal' = "none"
    <2>1. Sections(frames', defers')
      BY <1>2, PushFrame DEF Depth
    <2>2. Len(frames') = Len(frames) + 1
      BY <1>2, StacksChanges DEF Depth
    <2> QED BY <1>2, <2>1, <2>2 DEF Depth, Whole
  <1> QED BY <1>1, <1>2 DEF EnterFrame

\* The same for a call of run() at the present depth.
LEMMA NestedCallExact ==
    ASSUME Skeleton, EnterFrame(Append(ctl, RunRec(Depth))), Stacks(frames, defers'),
           Sections(frames, defers'),
           Exact(ctl, Depth, signal, isPanicking, recovered),
           UNCHANGED <<isPanicking, recovered>>,
           ctl # << >> /\ Top.kind = "unwind" => Top.frame # 0
    PROVE  Whole'
  <1>1. /\ CtlOK(ctl) /\ Depth \in 0 .. MaxFrames /\ isPanicking \in BOOLEAN
        /\ ctl # << >> => Top = Last(ctl)
    BY SkeletonFacts
  <1>2. Exact(Append(ctl, RunRec(Depth)), Depth + 1, "none", isPanicking, recovered)
    BY <1>1, ExactPushRun
  <1> QED BY <1>2, EnterFrameExact

\* The innermost frame, whose deferred calls have all been made, goes.
LEMMA FrameGoes ==
    ASSUME Skeleton, Depth # 0, Sections(frames, defers), frames' = Front(frames),
           defers' = defers, ~(Len(defers) > frames[Depth])
    PROVE  Sections(frames', defers') /\ Depth' = Depth - 1
  <1>1. Stacks(frames, defers) /\ frames # << >> /\ Depth = Len(frames)
    BY SkeletonFacts
  <1>2. Sections(Front(frames), defers) /\ Len(Front(frames)) = Len(frames) - 1
    BY <1>1, DropFrame, StacksChanges
  <1> QED BY <1>1, <1>2 DEF Depth

\* Then its run ends, or goes on.
LEMMA PopFrameExact ==
    ASSUME Skeleton, NEW c, PopFrame(c), Depth # 0, Sections(frames, defers), defers' = defers,
           ~(Len(defers) > frames[Depth]),
           CtlOK(c), c # << >>, Last(c).kind = "run", OnlyFirst(c),
           NEW d, NEW s, Exact(c, d, s, isPanicking', recovered'), isPanicking' \in BOOLEAN
    PROVE  Whole'
  <1>1. Sections(frames', defers') /\ Depth' = Depth - 1
    BY FrameGoes DEF PopFrame
  <1>2. Depth \in 0 .. MaxFrames /\ MaxFrames \in Nat
    BY SkeletonFacts, UnwindAssumption
  <1>3. CASE Depth - 1 = Last(c).target
    <2>1. ctl' = Front(c) /\ signal' = "ok"
      BY <1>3 DEF PopFrame
    <2>2. Last(c).target # NoTarget
      BY <1>2, <1>3 DEF NoTarget
    <2>3. Exact(Front(c), Depth - 1, "ok", isPanicking', recovered')
      BY <1>3, <2>2, ExactPopRun
    <2> QED BY <1>1, <2>1, <2>3 DEF Whole
  <1>4. CASE Depth - 1 # Last(c).target
    <2>1. ctl' = c /\ signal' = "none"
      BY <1>4 DEF PopFrame
    <2>2. Exact(c, Depth - 1, "none", isPanicking', recovered')
      BY ExactOnRun
    <2> QED BY <1>1, <2>1, <2>2 DEF Whole
  <1> QED BY <1>3, <1>4

----------------------------------------------------------------------------
(* Every action keeps it.                                                  *)

\* Call, Defer, Recover, Panic, CallBack, Return and Halt.
LEMMA ScriptExact ==
    ASSUME Skeleton, Whole, Script
    PROVE  Whole'
  <1>1. /\ Sections(frames, defers) /\ Stacks(frames, defers)
        /\ Exact(ctl, Depth, signal, isPanicking, recovered)
        /\ CtlOK(ctl) /\ Depth = Len(frames) /\ Depth \in 0 .. MaxFrames
        /\ isPanicking \in BOOLEAN /\ (frames = << >> <=> Depth = 0)
        /\ Stacked(ctl, Depth, signal)
    BY SkeletonFacts DEF Whole
  <1>2. Executing
    BY DEF Script, Call, Defer, Recover, Panic, CallBack, Return, Halt
  <1>3. ctl # << >> /\ Top.kind = "run" /\ Top = Last(ctl) /\ signal = "none" /\ OnlyFirst(ctl)
    BY <1>1, <1>2, ExecutingFacts, SkeletonFacts DEF Stacked
  <1>4. \A e, t : Exact(ctl, e, t, isPanicking, recovered)
    BY <1>1, <1>3, ExactOnRun
  <1>5. CASE Call
    <2>1. EnterFrame(ctl) /\ UNCHANGED <<defers, isPanicking, recovered>>
      BY <1>5 DEF Call, flags
    <2> QED BY <1>1, <1>4, <2>1, EnterFrameExact
  <1>6. ASSUME NEW k \in Kinds, Defer(k) PROVE Whole'
    <2>1. frames # << >> /\ UNCHANGED <<frames, isPanicking, recovered>> /\ ctl' = ctl
      BY <1>6 DEF Defer, flags, Raise
    <2>2. Sections(frames, defers')
      <3>1. CASE defers' = defers
        BY <1>1, <3>1
      <3>2. CASE Len(defers) # MaxDefers /\ defers' = Append(defers, [kind |-> k, frame |-> Len(frames)])
        BY <1>1, <2>1, <3>2, PushDefer
      <3> QED BY <1>6, <3>1, <3>2 DEF Defer, Depth
    <2> QED BY <1>4, <2>1, <2>2 DEF Whole, Depth
  <1>7. CASE Recover
    <2>1. CoreRecover /\ UNCHANGED <<frames, defers, isPanicking, signal>>
      BY <1>7 DEF Recover
    <2>2. Exact(ctl', Depth, signal, isPanicking, recovered')
      BY <1>1, <1>3, <2>1, ExactRecover
    <2> QED BY <1>1, <2>1, <2>2 DEF Whole, Depth
  <1>8. CASE Panic
    <2>1. ctl' = ctl /\ UNCHANGED <<frames, defers, isPanicking, recovered>>
      BY <1>8 DEF Panic, Raise, flags
    <2> QED BY <1>1, <1>4, <2>1 DEF Whole, Depth
  <1>9. CASE CallBack
    <2>1. EnterFrame(Append(ctl, RunRec(Depth))) /\ UNCHANGED <<defers, isPanicking, recovered>>
      BY <1>9 DEF CallBack, flags
    <2> QED BY <1>1, <1>3, <2>1, NestedCallExact
  <1>10. CASE Return
    <2>1. frames # << >> /\ UNCHANGED <<defers, isPanicking, recovered>> /\ Depth # 0
      BY <1>1, <1>10 DEF Return, flags
    <2>2. CASE ~Pending /\ PopFrame(ctl)
      <3>1. DrainedFrame = Depth
        BY <1>3 DEF DrainedFrame
      <3>2. ~(Len(defers) > frames[Depth])
        BY <2>1, <2>2, <3>1 DEF Pending
      <3>3. Exact(ctl, Depth, signal, isPanicking', recovered') /\ isPanicking' \in BOOLEAN
        BY <1>1, <2>1
      <3> QED BY <1>1, <1>3, <2>1, <2>2, <3>2, <3>3, PopFrameExact
    <2>3. CASE ctl' = Append(ctl, RetRec(FALSE)) /\ UNCHANGED <<frames, signal>>
      <3>1. RetRec(FALSE) \in Records /\ RetRec(FALSE).kind = "ret"
        BY RecordKinds
      <3>2. Exact(Append(ctl, RetRec(FALSE)), Depth, signal, isPanicking, recovered)
        BY <1>1, <1>3, <3>1, ExactPushOther
      <3> QED BY <1>1, <2>1, <2>3, <3>2 DEF Whole, Depth
    <2> QED BY <1>10, <2>2, <2>3 DEF Return
  <1>11. CASE Halt
    <2>1. /\ frames = << >> /\ ctl' = Front(ctl) /\ signal' = "ok" /\ Depth = 0
          /\ UNCHANGED <<frames, defers, isPanicking, recovered>>
      BY <1>1, <1>11 DEF Halt, flags
    <2>2. Top.target = NoTarget
      <3>1. Top.target = NoTarget \/ Top.target <= Depth - 1
        BY <1>2, ExecutingFacts
      <3>2. Top.target \in 0 .. NoTarget
        BY <1>3, SkeletonFacts
      <3> QED BY <2>1, <3>1, <3>2
    <2>3. Exact(Front(ctl), Depth, "ok", isPanicking, recovered)
      BY <1>1, <1>3, <2>1, <2>2, ExactPopRun
    <2> QED BY <1>1, <2>1, <2>3 DEF Whole, Depth
  <1> QED BY <1>5, <1>6, <1>7, <1>8, <1>9, <1>10, <1>11 DEF Script

\* While deferred calls are being made, the frame at work is the innermost one.
LEMMA DrainedIsInnermost ==
    ASSUME Skeleton, Whole, DrainingFrame
    PROVE  /\ ctl # << >> /\ Top.kind \in {"ret", "unwind"} /\ signal = "none"
           /\ Top = Last(ctl) /\ (Top.kind = "unwind" => Top.frame # 0)
           /\ DrainedFrame = Depth
           /\ Top.kind = "unwind" => ~recovered
  <1>1. ctl # << >> /\ Top.kind \in {"ret", "unwind"} /\ signal = "none"
    BY DEF DrainingFrame, Draining
  <1>2. Top = ctl[Len(ctl)] /\ Len(ctl) \in 1 .. Len(ctl) /\ Top = Last(ctl)
    BY <1>1, SkeletonFacts, LastOfCtl
  <1>3. Top.kind = "unwind" => Top.frame # 0
    BY DEF DrainingFrame
  <1>4. Matched(ctl, Depth) /\ Taken(ctl, signal, recovered)
    BY ExactParts DEF Whole
  <1>5. Top.kind = "unwind" => Top.frame = Depth
    BY <1>2, <1>3, <1>4 DEF Matched
  <1> QED BY <1>1, <1>2, <1>3, <1>4, <1>5 DEF DrainedFrame, Taken

\* NextDeferred, DeferredGoesOn and RetChecks.
LEMMA DeferredExact ==
    ASSUME Skeleton, Whole, NextDeferred \/ DeferredGoesOn \/ RetChecks
    PROVE  Whole'
  <1>1. /\ Sections(frames, defers) /\ Stacks(frames, defers)
        /\ Exact(ctl, Depth, signal, isPanicking, recovered)
        /\ Depth = Len(frames)
    BY SkeletonFacts DEF Whole
  <1>2. CASE DeferredGoesOn
    <2>1. /\ EnterFrame(Append(ctl, RunRec(Depth))) /\ UNCHANGED <<defers, isPanicking, recovered>>
          /\ ctl # << >> /\ signal = "ok"
      BY <1>2 DEF DeferredGoesOn, flags
    <2>2. Top.kind = "unwind" => Top.frame # 0
      <3>1. Top = ctl[Len(ctl)] /\ Len(ctl) \in 1 .. Len(ctl)
        BY <2>1, SkeletonFacts, LastOfCtl
      <3> QED BY <2>1, <3>1, SkeletonFacts DEF Marks
    <2> QED BY <1>1, <2>1, <2>2, NestedCallExact
  <1>3. CASE RetChecks
    <2>1. /\ EnterFrame(Append(ctl, RunRec(Depth))) /\ UNCHANGED <<defers, isPanicking, recovered>>
          /\ ctl # << >> /\ Top.kind = "ret"
      BY <1>3 DEF RetChecks, Draining, flags
    <2> QED BY <1>1, <2>1, NestedCallExact
  <1>4. CASE NextDeferred
    <2>1. /\ ctl # << >> /\ Top.kind \in {"ret", "unwind"} /\ signal = "none"
          /\ Top = Last(ctl) /\ (Top.kind = "unwind" => Top.frame # 0)
          /\ DrainedFrame = Depth
      BY <1>4, DrainedIsInnermost DEF NextDeferred
    <2>2. frames # << >> /\ Len(defers) > frames[Len(frames)] /\ defers' = Front(defers)
      BY <1>1, <1>4, <2>1 DEF NextDeferred, Pending, DeferTopPopped
    <2>3. Sections(frames, defers')
      BY <1>1, <2>2, DropDefer
    <2>4. Stacks(frames, defers')
      BY <1>4, NextDeferredFacts
    <2>5. CASE EnterFrame(Append(ctl, RunRec(Depth))) /\ UNCHANGED flags
      <3>1. UNCHANGED <<isPanicking, recovered>>
        BY <2>5 DEF flags
      <3> QED BY <1>1, <2>1, <2>3, <2>4, <2>5, <3>1, NestedCallExact
    <2>6. CASE signal' \in {"ok", "error"} /\ UNCHANGED <<frames, ctl, flags>>
      <3>1. UNCHANGED <<isPanicking, recovered, frames, ctl>> /\ signal' # "none"
        BY <2>6 DEF flags
      <3>2. Exact(ctl, Depth, signal', isPanicking, recovered)
        BY <1>1, <3>1, ExactSignal
      <3> QED BY <2>3, <3>1, <3>2 DEF Whole, Depth
    <2>7. CASE CoreRecover /\ signal' = "done" /\ UNCHANGED <<frames, isPanicking, unwindFailed>>
      <3>1. Exact(ctl', Depth, "done", isPanicking, recovered')
        BY <1>1, <2>1, <2>7, ExactRecover
      <3> QED BY <2>3, <2>7, <3>1 DEF Whole, Depth
    <2>8. \/ EnterFrame(Append(ctl, RunRec(Depth))) /\ UNCHANGED flags
          \/ signal' \in {"ok", "error"} /\ UNCHANGED <<frames, ctl, flags>>
          \/ CoreRecover /\ signal' = "done" /\ UNCHANGED <<frames, isPanicking, unwindFailed>>
      <3>1. Last(defers).kind \in Kinds
        BY <1>4, NextDeferredFacts
      <3> QED BY <1>4, <3>1 DEF NextDeferred, Kinds
    <2> QED BY <2>5, <2>6, <2>7, <2>8
  <1> QED BY <1>2, <1>3, <1>4

\* RetResumes, RetFails, RetPops and RetEnds.
LEMMA ReturningExact ==
    ASSUME Skeleton, Whole, Returning
    PROVE  Whole'
  <1> DEFINE c == Front(ctl)
  <1>1. /\ Sections(frames, defers) /\ Stacks(frames, defers)
        /\ Exact(ctl, Depth, signal, isPanicking, recovered)
        /\ CtlOK(ctl) /\ isPanicking \in BOOLEAN /\ (frames = << >> <=> Depth = 0)
        /\ Depth = Len(frames)
    BY SkeletonFacts DEF Whole
  <1>2. UNCHANGED <<defers, isPanicking, recovered>> /\ ctl # << >> /\ Top.kind = "ret"
    BY DEF Returning, RetResumes, RetFails, RetPops, RetChecks, RetEnds, DrainingFrame, Draining,
           flags
  <1>3. Top = Last(ctl)
    BY <1>2, SkeletonFacts
  <1>4. /\ c # << >> /\ Last(c).kind = "run" /\ CtlOK(c)
        /\ Stacked(c, Depth, "none") /\ Target = Last(c).target
    BY <1>2, CallerFacts
  <1>5. OnlyFirst(c)
    BY <1>4 DEF Stacked
  <1>6. \A e, t : Exact(c, e, t, isPanicking, recovered)
    BY <1>1, <1>2, <1>3, ExactPopOther
  <1>7. \A e, t : Exact(ctl, e, t, isPanicking, recovered)
    BY <1>1, <1>2, <1>3, ExactOnRun
  <1> HIDE DEF c
  <1>8. CASE RetResumes
    <2>1. frames' = frames /\ (ctl' = c \/ ctl' = ctl)
      BY <1>8 DEF RetResumes, c
    <2> QED BY <1>1, <1>2, <1>6, <1>7, <2>1 DEF Whole, Depth
  <1>9. CASE RetFails
    <2>1. frames' = frames /\ ctl' = c
      BY <1>9 DEF RetFails, c
    <2> QED BY <1>1, <1>2, <1>6, <2>1 DEF Whole, Depth
  <1>10. CASE RetPops
    <2>1. DrainingFrame /\ ~Pending /\ frames' = Front(frames) /\ signal' = signal
          /\ ctl' = Append(c, RetRec(TRUE))
      BY <1>10 DEF RetPops, c
    <2>2. Sections(frames', defers')
      <3>1. CASE frames = << >>
        <4>1. frames' = frames
          <5>1. Len(frames') = 0 /\ Stacks(frames', defers)
            BY <1>1, <2>1, <3>1, StacksChanges
          <5> QED BY <3>1, <5>1, StacksFacts
        <4> QED BY <1>1, <1>2, <4>1
      <3>2. CASE frames # << >>
        <4>1. DrainedFrame = Depth
          BY <2>1, DrainedIsInnermost
        <4>2. ~(Len(defers) > frames[Depth])
          BY <2>1, <3>2, <4>1 DEF Pending
        <4> QED BY <1>1, <1>2, <2>1, <3>2, <4>2, FrameGoes
      <3> QED BY <3>1, <3>2
    <2>3. RetRec(TRUE) \in Records /\ RetRec(TRUE).kind = "ret"
      BY RecordKinds
    <2>4. Exact(c, Depth, signal, isPanicking, recovered)
      BY <1>6
    <2>5. \A e, t : Exact(Append(c, RetRec(TRUE)), e, t, isPanicking, recovered)
      BY <1>1, <1>4, <2>3, <2>4, ExactPushOther
    <2> QED BY <1>2, <2>1, <2>2, <2>5 DEF Whole
  <1>11. CASE RetEnds
    <2>1. frames' = frames
      BY <1>11 DEF RetEnds
    <2>2. CASE Depth = Target
      <3>1. ctl' = Front(c) /\ signal' = "ok"
        BY <1>11, <2>2 DEF RetEnds, c
      <3>2. Last(c).target = Depth /\ Depth # NoTarget
        BY <1>4, <2>2, SkeletonFacts, UnwindAssumption DEF NoTarget
      <3>3. Exact(c, Depth, "none", isPanicking, recovered)
        BY <1>6
      <3>4. Exact(Front(c), Depth, "ok", isPanicking, recovered)
        BY <1>1, <1>4, <1>5, <3>2, <3>3, ExactPopRun
      <3> QED BY <1>1, <1>2, <2>1, <3>1, <3>4 DEF Whole, Depth
    <2>3. CASE Depth # Target
      <3>1. ctl' = c
        BY <1>11, <2>3 DEF RetEnds, c
      <3> QED BY <1>1, <1>2, <1>6, <2>1, <3>1 DEF Whole, Depth
    <2> QED BY <2>2, <2>3
  <1> QED BY <1>8, <1>9, <1>10, <1>11, DeferredExact DEF Returning

\* BeginUnwind, UnwindNextFrame, UnwindResumes, UnwindFrame and UnwindFails, as
\* long as they do not fail themselves.
LEMMA UnwindingExact ==
    ASSUME Skeleton, Whole, Unwinding, ~unwindFailed'
    PROVE  Whole'
  <1> DEFINE c == Front(ctl)
  <1>1. /\ Sections(frames, defers) /\ Stacks(frames, defers)
        /\ Exact(ctl, Depth, signal, isPanicking, recovered)
        /\ CtlOK(ctl) /\ isPanicking \in BOOLEAN /\ recovered \in BOOLEAN
        /\ (frames = << >> <=> Depth = 0)
        /\ Depth = Len(frames) /\ Depth \in 0 .. MaxFrames /\ MaxFrames \in Nat
    BY SkeletonFacts, UnwindAssumption DEF Whole
  <1>2. UNCHANGED defers /\ ctl # << >> /\ Top = Last(ctl)
    <2>1. UNCHANGED defers /\ ctl # << >>
      BY DEF Unwinding, BeginUnwind, UnwindNextFrame, UnwindResumes, UnwindFrame,
             RecoveredPushFails, UnwindFails, DrainingFrame, Draining
    <2> QED BY <2>1, SkeletonFacts
  <1>3. CASE BeginUnwind
    <2>1. /\ Top.kind = "run" /\ isPanicking' = TRUE /\ recovered' = FALSE /\ frames' = frames
          /\ ctl' = Append(ctl, UnwindRec(isPanicking)) /\ signal' = "none"
      BY <1>3 DEF BeginUnwind, UnwindGivesUp, PrevPanicking
    <2> DEFINE e == UnwindRec(isPanicking)
    <2>2. e \in Records /\ e.kind = "unwind" /\ e.prev = isPanicking /\ ~e.frec /\ e.frame = 0
      BY <1>1, RecordKinds
    <2> HIDE DEF e
    <2>3. Exact(Append(ctl, e), Depth, "none", ~e.frec, FALSE)
      BY <1>1, <1>2, <2>1, <2>2, ExactPushOther
    <2>4. (~e.frec) = TRUE
      BY <2>2
    <2> QED BY <1>1, <1>2, <2>1, <2>3, <2>4 DEF Whole, Depth, e
  <1>4. CASE ~BeginUnwind
    <2>1. Top.kind = "unwind" /\ Top \in UnwindRecords
      <3>1. Top.kind = "unwind"
        BY <1>4 DEF Unwinding, UnwindNextFrame, UnwindResumes, UnwindFrame, RecoveredPushFails,
                    UnwindFails, DrainingFrame, Draining
      <3> QED BY <1>2, <3>1, SkeletonFacts
    <2>2. /\ c # << >> /\ Last(c).kind = "run" /\ CtlOK(c) /\ OnlyFirst(c)
          /\ Target = Last(c).target /\ Target \in 0 .. NoTarget
          /\ Target = NoTarget \/ Target <= Depth
      <3>1. Stacked(c, Depth, "none")
        BY <1>2, <2>1, CallerFacts
      <3> QED BY <1>2, <2>1, <3>1, CallerFacts DEF Stacked
    <2>3. \A b, t : Exact(c, b, t, Top.prev, FALSE)
      BY <1>1, <1>2, <2>1, ExactPopOther
    <2>4. isPanicking = ~Top.frec
      <3>1. isPanicking <=> ~Top.frec
        BY <1>1, <1>2, <2>1, ExactPopOther
      <3>2. Top.frec \in BOOLEAN
        BY <2>1, UnwindFields
      <3> QED BY <1>1, <3>1, <3>2
    <2> HIDE DEF c
    <2>5. Top.prev \in BOOLEAN /\ Top.frec \in BOOLEAN /\ Top.frame \in 0 .. MaxFrames
      BY <2>1, UnwindFields
    <2>6. signal = "none" => ~recovered
      BY <1>1, <1>2, <2>1, ExactParts DEF Taken
    <2>7. Top.frame \in {0, Depth}
      <3>1. Top = ctl[Len(ctl)] /\ Len(ctl) \in 1 .. Len(ctl)
        BY <1>1, <1>2, LastOfCtl
      <3> QED BY <1>1, <2>1, <3>1, ExactParts DEF Matched
    <2>8. ASSUME NEW e \in UnwindRecords, e.prev = Top.prev, NEW b, e.frame \in {0, b},
                 NEW p \in BOOLEAN, p <=> ~e.frec, NEW r \in BOOLEAN, ~r
          PROVE  Exact(Append(c, e), b, "none", p, r)
      <3>1. e \in Records /\ e.kind = "unwind"
        BY UnwindFields
      <3>2. Exact(c, b, "none", Top.prev, FALSE)
        BY <2>3
      <3>3. Exact(Append(c, e), b, "none", ~e.frec, FALSE)
        BY <2>2, <2>5, <2>8, <3>1, <3>2, ExactPushOther
      <3>4. p = (~e.frec) /\ r = FALSE
        BY <2>8
      <3> QED BY <3>3, <3>4
    <2>9. CASE UnwindNextFrame
      <3> DEFINE e == [Top EXCEPT !.frame = Depth]
      <3>1. /\ signal = "none" /\ ctl' = Append(c, e)
            /\ UNCHANGED <<frames, isPanicking, recovered, signal>>
        BY <2>9 DEF UnwindNextFrame, Draining, flags, c
      <3>2. e \in UnwindRecords /\ e.prev = Top.prev /\ e.frame = Depth /\ e.frec = Top.frec
        BY <1>1, <2>1 DEF UnwindRecords
      <3> HIDE DEF e
      <3>3. isPanicking' \in BOOLEAN /\ (isPanicking' <=> ~e.frec) /\ recovered' = FALSE
        BY <1>1, <2>4, <2>6, <3>1, <3>2
      <3>4. recovered' \in BOOLEAN /\ ~recovered'
        BY <3>3
      <3>5. Exact(Append(c, e), Depth, "none", isPanicking', recovered')
        BY <2>8, <3>2, <3>3, <3>4
      <3> QED BY <1>1, <1>2, <3>1, <3>5 DEF Whole, Depth
    <2>10. CASE UnwindResumes
      <3> DEFINE again == signal = "error" /\ ~recovered
                 rec   == IF again THEN [Top EXCEPT !.frec = FALSE, !.taken = FALSE] ELSE Top
                 e     == IF recovered THEN [rec EXCEPT !.frec = TRUE] ELSE rec
      <3>1. /\ ctl' = Append(c, e) /\ frames' = frames
            /\ isPanicking' = ((isPanicking \/ again) /\ ~recovered)
            /\ recovered' = FALSE /\ signal' = "none"
        BY <2>10 DEF UnwindResumes, UnwindGivesUp, c
      <3>2. /\ rec \in UnwindRecords /\ rec.prev = Top.prev /\ rec.frame = Top.frame
            /\ rec.frec = (Top.frec /\ ~again)
        <4>1. CASE again
          BY <2>1, <2>5, <4>1 DEF UnwindRecords
        <4>2. CASE ~again
          BY <2>1, <2>5, <4>2
        <4> QED BY <4>1, <4>2
      <3>3. again \in BOOLEAN
        OBVIOUS
      <3> HIDE DEF rec
      <3>4. /\ e \in UnwindRecords /\ e.prev = Top.prev /\ e.frame = Top.frame
            /\ e.frec = (rec.frec \/ recovered)
        <4>1. CASE recovered
          BY <3>2, <4>1 DEF UnwindRecords
        <4>2. CASE ~recovered
          <5>1. rec.frec \in BOOLEAN
            BY <3>2, UnwindFields
          <5> QED BY <1>1, <3>2, <4>2, <5>1
        <4> QED BY <4>1, <4>2
      <3> HIDE DEF e, again
      <3>5. isPanicking' \in BOOLEAN /\ (isPanicking' <=> ~e.frec)
        BY <1>1, <2>4, <2>5, <3>1, <3>2, <3>3, <3>4
      <3>6. recovered' \in BOOLEAN /\ ~recovered'
        BY <3>1
      <3>7. Exact(Append(c, e), Depth, "none", isPanicking', recovered')
        BY <2>7, <2>8, <3>4, <3>5, <3>6
      <3> QED BY <1>1, <1>2, <3>1, <3>7 DEF Whole, Depth
    <2>11. CASE UnwindFrame
      <3>1. DrainingFrame /\ ~Pending /\ recovered' = recovered
        BY <2>11 DEF UnwindFrame
      <3>2. /\ signal = "none" /\ Top.frame # 0 /\ DrainedFrame = Depth /\ ~recovered
            /\ Depth # 0
        <4>1. signal = "none" /\ Top.frame # 0 /\ DrainedFrame = Depth /\ ~recovered
          BY <2>1, <3>1, DrainedIsInnermost
        <4> QED BY <2>7, <4>1
      <3>3. ~(Len(defers) > frames[Depth])
        BY <1>1, <3>1, <3>2 DEF Pending
      <3>4. recovered' = FALSE
        BY <1>1, <3>1, <3>2
      <3>5. CASE Top.frec
        <4>1. PopFrame(c) /\ isPanicking' = Top.prev
          BY <2>11, <3>5 DEF UnwindFrame, c
        <4>2. Exact(c, Depth, "none", isPanicking', recovered') /\ isPanicking' \in BOOLEAN
          BY <2>3, <2>5, <3>4, <4>1
        <4> QED BY <1>1, <1>2, <2>2, <3>2, <3>3, <4>1, <4>2, PopFrameExact
      <3>6. CASE ~Top.frec
        <4> DEFINE e == [Top EXCEPT !.frame = 0]
        <4>1. /\ frames' = Front(frames) /\ ctl' = Append(c, e)
              /\ isPanicking' = isPanicking /\ signal' = signal
          BY <2>11, <3>6 DEF UnwindFrame, c
        <4>2. e \in UnwindRecords /\ e.prev = Top.prev /\ e.frame = 0 /\ e.frec = Top.frec
          BY <1>1, <2>1 DEF UnwindRecords
        <4> HIDE DEF e
        <4>3. isPanicking' \in BOOLEAN /\ (isPanicking' <=> ~e.frec)
          BY <2>4, <4>1, <4>2
        <4>4. Sections(frames', defers')
          BY <1>1, <1>2, <3>2, <3>3, <4>1, FrameGoes
        <4>5. recovered' \in BOOLEAN /\ ~recovered'
          BY <3>4
        <4>6. Exact(Append(c, e), Depth', "none", isPanicking', recovered')
          BY <2>8, <4>2, <4>3, <4>5
        <4> QED BY <3>2, <4>1, <4>4, <4>6 DEF Whole
      <3> QED BY <2>5, <3>5, <3>6
    <2>12. CASE UnwindFails
      <3>1. /\ signal = "none" /\ Depth <= StopDepth /\ ctl' = Front(c) /\ signal' = "error"
            /\ isPanicking' = Top.prev /\ UNCHANGED <<frames, recovered>>
        BY <2>12 DEF UnwindFails, Draining, c
      <3>2. recovered' = FALSE
        BY <1>1, <2>6, <3>1
      <3>3. \/ Last(c).target # NoTarget /\ Last(c).target = Depth
            \/ Last(c).target = NoTarget /\ Depth = 0
        BY <1>1, <2>2, <3>1 DEF StopDepth
      <3>4. Exact(c, Depth, "none", Top.prev, FALSE)
        BY <2>3
      <3>5. Exact(Front(c), Depth, "error", Top.prev, FALSE)
        BY <2>2, <2>5, <3>3, <3>4, ExactPopRun
      <3> QED BY <1>1, <1>2, <3>1, <3>2, <3>5 DEF Whole, Depth
    <2>13. ~RecoveredPushFails
      BY DEF RecoveredPushFails, UnwindGivesUp
    <2> QED BY <1>4, <2>9, <2>10, <2>11, <2>12, <2>13 DEF Unwinding
  <1> QED BY <1>3, <1>4

\* CallBackReturns.
LEMMA CallBackReturnsExact ==
    ASSUME Skeleton, Whole, CallBackReturns
    PROVE  Whole'
  <1>1. /\ ctl # << >> /\ Top.kind = "run"
        /\ UNCHANGED <<frames, defers, isPanicking, recovered, ctl>>
    BY DEF CallBackReturns, flags
  <1>2. CtlOK(ctl) /\ Top = Last(ctl)
    BY <1>1, SkeletonFacts
  <1>3. \A e, t : Exact(ctl, e, t, isPanicking, recovered)
    BY <1>1, <1>2, ExactOnRun DEF Whole
  <1> QED BY <1>1, <1>3 DEF Whole, Depth

\* A new program begins with nothing, whatever was left behind.
LEMMA FreshIsWhole ==
    /\ Sections(<< >>, << >>)
    /\ Exact(<< >>, 0, "none", FALSE, FALSE)
    /\ Exact(<<RunRec(NoTarget)>>, 0, "none", FALSE, FALSE)
  <1>1. Exact(<< >>, 0, "none", FALSE, FALSE)
    BY DEF Exact, Flags, Looking, Rooted, Taken, Matched
  <1>2. Exact(<<RunRec(NoTarget)>>, 0, "none", FALSE, FALSE)
    <2> DEFINE c == <<RunRec(NoTarget)>>
    <2>1. Len(c) = 1 /\ c[1].kind = "run" /\ c[1].target = NoTarget /\ c # << >>
      BY DEF RunRec
    <2> HIDE DEF c
    <2>2. Flags(c, FALSE) /\ Rooted(c, 0) /\ Taken(c, "none", FALSE) /\ Matched(c, 0)
      BY <2>1 DEF Flags, Looking, Rooted, Taken, Matched
    <2> QED BY <2>2 DEF Exact, c
  <1> QED BY <1>1, <1>2, EmptyStack

\* Run.
LEMMA RunIsWhole ==
    ASSUME Run
    PROVE  Whole'
  <1>1. /\ frames' = << >> /\ defers' = << >> /\ isPanicking' = FALSE /\ recovered' = FALSE
        /\ ctl' = <<RunRec(NoTarget)>> /\ signal' = "none" /\ Depth' = 0
    BY DEF Run, Depth
  <1> QED BY <1>1, FreshIsWhole DEF Whole

\* CallGlobal: nothing has been left behind.
LEMMA CallGlobalExact ==
    ASSUME Skeleton, Whole, CallGlobal
    PROVE  Whole'
  <1>1. /\ ctl = << >> /\ EnterFrame(<<RunRec(Depth)>>)
        /\ UNCHANGED <<defers, isPanicking, recovered>>
    BY DEF CallGlobal, flags
  <1>2. <<RunRec(Depth)>> = Append(ctl, RunRec(Depth))
    BY <1>1
  <1>3. Stacks(frames, defers')
    BY <1>1, SkeletonFacts
  <1> QED BY <1>1, <1>2, <1>3, NestedCallExact DEF Whole

\* Every step that is not itself a failure of an unwind.
LEMMA StepKeepsExact ==
    ASSUME Skeleton, ~unwindFailed => Whole, [Next]_vars, ~unwindFailed'
    PROVE  Whole'
  <1>1. CASE UNCHANGED vars
    BY <1>1 DEF vars, flags, Whole, Depth
  <1>2. CASE Run
    BY <1>2, RunIsWhole
  <1>3. CASE ~UNCHANGED vars /\ ~Run
    <2>1. Script \/ Machine \/ CallGlobal
      BY <1>3 DEF Next
    <2>2. ~unwindFailed
      <3>1. CASE Script
        BY <3>1 DEF Script, Call, Defer, Recover, Panic, CallBack, Return, Halt, flags
      <3>2. CASE NextDeferred
        <4>1. Last(defers).kind \in {"func", "native", "recover"}
          BY <3>2, NextDeferredFacts DEF Kinds
        <4> QED BY <3>2, <4>1 DEF NextDeferred, flags
      <3>3. CASE DeferredGoesOn \/ CallBackReturns \/ CallGlobal
        BY <3>3 DEF DeferredGoesOn, CallBackReturns, CallGlobal, flags
      <3>4. CASE Returning
        BY <3>4 DEF Returning, RetResumes, RetFails, RetPops, RetChecks, RetEnds, flags
      <3>5. CASE Unwinding
        BY <3>5 DEF Unwinding, BeginUnwind, UnwindNextFrame, UnwindResumes, UnwindFrame,
                    RecoveredPushFails, UnwindFails, UnwindGivesUp, flags
      <3> QED BY <2>1, <3>1, <3>2, <3>3, <3>4, <3>5 DEF Machine
    <2> QED BY <2>1, <2>2, ScriptExact, DeferredExact, ReturningExact, UnwindingExact,
               CallBackReturnsExact, CallGlobalExact DEF Machine
  <1> QED BY <1>1, <1>2, <1>3

----------------------------------------------------------------------------
(* The theorems.                                                           *)

\* The invariant holds initially.
LEMMA InitIsInvariant == Init => UInv
  <1> SUFFICES ASSUME Init PROVE UInv
    OBVIOUS
  <1>1. /\ frames = << >> /\ defers = << >> /\ isPanicking = FALSE /\ recovered = FALSE
        /\ unwindFailed = FALSE /\ ctl = << >> /\ signal = "none" /\ Depth = 0
    BY DEF Init, Depth
  <1>2. Skeleton
    BY <1>1, EmptyStack DEF Skeleton, Types
  <1>3. Floor(ctl, frames, defers)
    BY <1>1, EmptyStack DEF Floor
  <1> QED BY <1>1, <1>2, <1>3, FreshIsWhole DEF UInv

\* Every step keeps the invariant.
LEMMA StepKeepsInvariant == UInv /\ [Next]_vars => UInv'
  <1> SUFFICES ASSUME UInv, [Next]_vars PROVE UInv'
    OBVIOUS
  <1>1. Skeleton /\ Floor(ctl, frames, defers) /\ (~unwindFailed => Whole)
    BY DEF UInv, Whole
  <1>2. Skeleton'
    BY <1>1, StepKeepsSkeleton
  <1>3. Floor(ctl', frames', defers')
    BY <1>1, StepKeepsFloor
  <1>4. ~unwindFailed' => Whole'
    BY <1>1, StepKeepsExact
  <1> QED BY <1>2, <1>3, <1>4 DEF UInv, Whole

\* UInv is an invariant of the machine of calls, panics and recover(), for any
\* number of frames, deferred calls and nested runs.
THEOREM InvariantHolds == Spec => []UInv
  BY InitIsInvariant, StepKeepsInvariant, PTL DEF Spec

\* The invariant has TypeOK as one of its parts, spread over its conjuncts.
LEMMA InvariantImpliesTypes == UInv => TypeOK
  <1> SUFFICES ASSUME UInv PROVE TypeOK
    OBVIOUS
  <1>1. CtlOK(ctl)
    BY SkeletonFacts DEF UInv
  <1> QED BY <1>1 DEF UInv, Skeleton, Types, Stacks, CtlOK, TypeOK

\* TypeOK holds: among others, retSlowPath and runPanicUnwind are always called
\* by a run, so call_depth_target is always that of an activation of run().
THEOREM TypeCorrect == Spec => []TypeOK
  BY InvariantHolds, InvariantImpliesTypes, PTL

\* Looking says what InProgressBelow says.
LEMMA InProgressIsLooking ==
    ASSUME CtlOK(ctl), NEW i \in 1 .. Len(ctl) + 1
    PROVE  InProgressBelow(i) <=> Looking(ctl, i)
  <1> DEFINE below == {j \in Unwinds : j < i}
  <1>1. Len(ctl) \in Nat /\ DOMAIN ctl = 1 .. Len(ctl)
    BY CtlFacts
  <1>2. below = {j \in 1 .. i - 1 : ctl[j].kind = "unwind"}
    BY <1>1 DEF Unwinds
  <1>3. CASE below = {}
    BY <1>2, <1>3 DEF InProgressBelow, Looking
  <1>4. CASE below # {}
    <2> DEFINE m == CHOOSE j \in below : \A k \in below : k <= j
    <2>1. below \in SUBSET (1 .. Len(ctl))
      BY <1>1 DEF Unwinds
    <2>2. m \in below /\ \A k \in below : k <= m
      <3> HIDE DEF below
      <3> QED BY <1>1, <1>4, <2>1, Largest
    <2>3. InProgressBelow(i) <=> ~ctl[m].frec
      BY <1>4 DEF InProgressBelow
    <2> HIDE DEF m
    <2>4. m \in 1 .. i - 1 /\ ctl[m].kind = "unwind"
      BY <1>2, <2>2
    <2>5. \A k \in m + 1 .. i - 1 : ctl[k].kind # "unwind"
      BY <1>2, <2>2, <2>4
    <2>6. Looking(ctl, i) => ~ctl[m].frec
      <3> SUFFICES ASSUME Looking(ctl, i) PROVE ~ctl[m].frec
        OBVIOUS
      <3>1. PICK j \in 1 .. i - 1 : /\ ctl[j].kind = "unwind" /\ ~ctl[j].frec
                                    /\ \A k \in j + 1 .. i - 1 : ctl[k].kind # "unwind"
        BY DEF Looking
      <3>2. j \in below
        BY <1>2, <3>1
      <3>3. j = m
        BY <2>2, <2>4, <3>1, <3>2
      <3> QED BY <3>1, <3>3
    <2>7. ~ctl[m].frec => Looking(ctl, i)
      BY <2>4, <2>5 DEF Looking
    <2> QED BY <2>3, <2>6, <2>7
  <1> QED BY <1>3, <1>4

\* Flags is PanicFlagIsExact without CHOOSE.
LEMMA InvariantImpliesPanicFlag == UInv => PanicFlagIsExact
  <1> SUFFICES ASSUME UInv, ~unwindFailed
               PROVE  /\ isPanicking = InProgressBelow(Len(ctl) + 1)
                      /\ \A i \in Unwinds : ctl[i].prev = InProgressBelow(i)
    BY DEF PanicFlagIsExact
  <1>1. CtlOK(ctl) /\ Flags(ctl, isPanicking) /\ isPanicking \in BOOLEAN
    BY SkeletonFacts, ExactParts DEF UInv
  <1>2. Len(ctl) \in Nat /\ DOMAIN ctl = 1 .. Len(ctl)
    BY <1>1, CtlFacts
  <1>3. \A i \in 1 .. Len(ctl) + 1 : InProgressBelow(i) \in BOOLEAN
    BY DEF InProgressBelow
  <1>4. isPanicking = InProgressBelow(Len(ctl) + 1)
    BY <1>1, <1>2, <1>3, InProgressIsLooking DEF Flags
  <1>5. ASSUME NEW i \in Unwinds PROVE ctl[i].prev = InProgressBelow(i)
    <2>1. i \in 1 .. Len(ctl) /\ ctl[i].kind = "unwind" /\ i \in 1 .. Len(ctl) + 1
      BY <1>2 DEF Unwinds
    <2>2. ctl[i].prev \in BOOLEAN
      BY <1>1, <2>1, CtlFacts, UnwindFields
    <2>3. ctl[i].prev <=> Looking(ctl, i)
      BY <1>1, <2>1 DEF Flags
    <2> QED BY <1>1, <1>3, <2>1, <2>2, <2>3, InProgressIsLooking
  <1> QED BY <1>4, <1>5

\* Until an unwind has itself failed, is_panicking and every prev_panicking saved
\* on the native stack are exact, however deep panics, recoveries and callbacks
\* nest: recover() (core.zig) never answers for a panic that is over, nor null for
\* the one in progress.
THEOREM PanicFlagExact == Spec => []PanicFlagIsExact
  BY InvariantHolds, InvariantImpliesPanicFlag, PTL

\* Sections speaks of all later frames, so of the next one.
LEMMA InvariantImpliesSections == UInv => DefersBelongToFrames
  <1> SUFFICES ASSUME UInv, ~unwindFailed
               PROVE  /\ \A i \in DOMAIN frames :
                            frames[i] <= (IF i = Depth THEN Len(defers) ELSE frames[i + 1])
                      /\ \A n \in DOMAIN defers :
                            LET f == defers[n].frame IN
                            /\ f \in DOMAIN frames
                            /\ n > frames[f]
                            /\ f < Depth => n <= frames[f + 1]
    BY DEF DefersBelongToFrames
  <1>1. Sections(frames, defers) /\ Stacks(frames, defers) /\ Depth = Len(frames)
    BY SkeletonFacts DEF UInv
  <1>2. /\ DOMAIN frames = 1 .. Len(frames) /\ DOMAIN defers = 1 .. Len(defers)
        /\ Len(frames) \in Nat /\ Len(defers) \in Nat
        /\ \A i \in 1 .. Len(frames) : frames[i] \in 0 .. MaxDefers
    <2>1. DOMAIN frames = 1 .. Len(frames) /\ DOMAIN defers = 1 .. Len(defers)
      BY <1>1 DEF Stacks
    <2> QED BY <1>1, <2>1, StacksFacts
  <1>3. ASSUME NEW i \in DOMAIN frames
        PROVE  frames[i] <= (IF i = Depth THEN Len(defers) ELSE frames[i + 1])
    <2>1. CASE i = Depth
      BY <1>1, <1>2, <2>1 DEF Sections
    <2>2. CASE i # Depth
      <3>1. i \in 1 .. Len(frames) /\ i + 1 \in 1 .. Len(frames) /\ i <= i + 1
        BY <1>1, <1>2, <2>2
      <3> QED BY <1>1, <2>2, <3>1 DEF Sections
    <2> QED BY <2>1, <2>2
  <1>4. ASSUME NEW n \in DOMAIN defers
        PROVE  LET f == defers[n].frame IN
               /\ f \in DOMAIN frames
               /\ n > frames[f]
               /\ f < Depth => n <= frames[f + 1]
    <2>1. /\ defers[n].frame \in 1 .. Len(frames)
          /\ frames[defers[n].frame] < n
          /\ \A j \in 1 .. Len(frames) : defers[n].frame < j => n <= frames[j]
      BY <1>1, <1>2 DEF Sections
    <2>2. frames[defers[n].frame] \in Int /\ n \in Int
      BY <1>2, <2>1
    <2>3. defers[n].frame < Depth => n <= frames[defers[n].frame + 1]
      BY <1>1, <1>2, <2>1
    <2> QED BY <1>2, <2>1, <2>2, <2>3
  <1> QED BY <1>3, <1>4

\* Until an unwind has itself failed, a deferred call is made while the frame that
\* scheduled it is the innermost, and no frame goes before its deferred calls
\* (retSlowPath, runPanicUnwind).
THEOREM DefersAreSections == Spec => []DefersBelongToFrames
  BY InvariantHolds, InvariantImpliesSections, PTL

\* Nested and Exact give RunsOwnTheirFrames.
LEMMA InvariantImpliesOwnFrames == UInv => RunsOwnTheirFrames
  <1> SUFFICES ASSUME UInv PROVE RunsOwnTheirFrames
    OBVIOUS
  <1>1. /\ Len(ctl) \in Nat /\ DOMAIN ctl = 1 .. Len(ctl) /\ (ctl = << >> <=> Len(ctl) = 0)
        /\ \A i \in 1 .. Len(ctl) : ctl[i].kind = "run" => ctl[i].target \in 0 .. NoTarget
        /\ Skeleton /\ Depth \in Int /\ MaxFrames \in Nat
        /\ Within(ctl, Depth) /\ Tight(ctl, Depth, signal) /\ Ordered(ctl)
    <2>1. Skeleton
      BY DEF UInv
    <2>2. CtlOK(ctl) /\ Stacked(ctl, Depth, signal)
      BY <2>1, SkeletonFacts
    <2> QED BY <2>1, <2>2, SkeletonFacts, CtlFacts DEF Stacked
  <1>2. ASSUME NEW i \in DOMAIN ctl, HasTarget(i)
        PROVE  /\ ctl[i].target <= Depth
               /\ signal = "none" /\ i = Len(ctl) => ctl[i].target < Depth
               /\ \A j \in 1 .. i - 1 : HasTarget(j) =>
                     IF ctl[i - 1] = RetRec(TRUE)
                     THEN ctl[j].target <= ctl[i].target
                     ELSE ctl[j].target < ctl[i].target
    <2>1. Bounded(ctl, i) /\ i \in 1 .. Len(ctl) /\ ctl[i].kind = "run"
      BY <1>1, <1>2 DEF Bounded, HasTarget
    <2>2. ctl[i].target <= Depth
      BY <1>1, <2>1 DEF Within
    <2>3. ASSUME NEW j \in 1 .. i - 1, HasTarget(j)
          PROVE  IF ctl[i - 1] = RetRec(TRUE)
                 THEN ctl[j].target <= ctl[i].target
                 ELSE ctl[j].target < ctl[i].target
      <3>1. j \in 1 .. Len(ctl) /\ j < i /\ Bounded(ctl, j) /\ i - 1 \in 1 .. Len(ctl)
        BY <1>1, <2>1, <2>3 DEF Bounded, HasTarget
      <3>2. IF Gone(ctl, i - 1) THEN ctl[j].target <= ctl[i].target
                                ELSE ctl[j].target < ctl[i].target
        BY <1>1, <2>1, <3>1 DEF Ordered
      <3>3. Gone(ctl, i - 1) <=> ctl[i - 1] = RetRec(TRUE)
        <4>1. CtlOK(ctl)
          BY <1>1, SkeletonFacts
        <4>2. ctl[i - 1] \in Records
          BY <3>1, <4>1, CtlFacts
        <4>3. Gone(ctl, i - 1) => ctl[i - 1] = RetRec(TRUE)
          <5> SUFFICES ASSUME Gone(ctl, i - 1) PROVE ctl[i - 1] = RetRec(TRUE)
            OBVIOUS
          <5>1. /\ ctl[i - 1].kind = "ret" /\ ctl[i - 1].gone \in BOOLEAN /\ ctl[i - 1].gone
                /\ ctl[i - 1] = RetRec(ctl[i - 1].gone)
            BY <4>2, RecordKinds DEF Gone
          <5>2. ctl[i - 1].gone = TRUE
            BY <5>1
          <5> QED BY <5>1, <5>2
        <4>4. ctl[i - 1] = RetRec(TRUE) => Gone(ctl, i - 1)
          BY RecordKinds DEF Gone
        <4> QED BY <4>3, <4>4
      <3> QED BY <3>2, <3>3
    <2>4. ASSUME signal = "none", i = Len(ctl) PROVE ctl[i].target < Depth
      <3>1. Within(ctl, Depth - 1)
        BY <1>1, <2>1, <2>4 DEF Tight, Last
      <3>2. ctl[i].target <= Depth - 1
        BY <2>1, <3>1 DEF Within
      <3>3. ctl[i].target \in Int
        BY <1>1, <2>1 DEF NoTarget
      <3> QED BY <1>1, <3>2, <3>3
    <2> QED BY <2>2, <2>3, <2>4
  <1>3. ASSUME ctl = << >>, ~unwindFailed PROVE frames = << >> /\ defers = << >> /\ ~recovered
    <2>1. /\ Sections(frames, defers) /\ Stacks(frames, defers)
          /\ Rooted(ctl, Depth) /\ Taken(ctl, signal, recovered) /\ (frames = << >> <=> Depth = 0)
      BY <1>3, SkeletonFacts, ExactParts DEF UInv
    <2>2. frames = << >> /\ defers = << >>
      BY <1>3, <2>1, NoFrameNoDefer DEF Rooted
    <2>3. ~HasUnwind(ctl)
      BY <1>1, <1>3 DEF HasUnwind
    <2> QED BY <2>1, <2>2, <2>3 DEF Taken
  <1> QED BY <1>2, <1>3 DEF RunsOwnTheirFrames

\* A run executes only frames above its call_depth_target, whatever fails: neither
\* runPanicUnwind nor a return takes the frame of an outer run(). Runs nest, and
\* strictly but for the predicates of a return whose frame has gone. Until an
\* unwind has itself failed, nothing is left on the stacks when the host has
\* control again.
THEOREM RunsOwnFrames == Spec => []RunsOwnTheirFrames
  BY InvariantHolds, InvariantImpliesOwnFrames, PTL

\* No step of a nested run, return or unwind changes a frame at or below its
\* call_depth_target or a deferred call scheduled there, whatever fails.
THEOREM NestedRunsAreContained == Spec => NestedRunIsContained
  <1> DEFINE A == \A i \in DOMAIN ctl \cap DOMAIN ctl' :
                     /\ ctl[i].kind = "run" /\ ctl'[i] = ctl[i] /\ ctl[i].target \in DOMAIN frames
                     => LET t == ctl[i].target
                            n == IF t < Depth THEN frames[t + 1] ELSE Len(defers) IN
                        /\ SubSeq(frames', 1, t) = SubSeq(frames, 1, t)
                        /\ SubSeq(defers', 1, n) = SubSeq(defers, 1, n)
  <1>1. ASSUME UInv, UInv', [Next]_vars PROVE A
    <2> SUFFICES ASSUME NEW i \in DOMAIN ctl, ctl[i].kind = "run", ctl[i].target \in DOMAIN frames
                 PROVE  LET t == ctl[i].target
                            n == IF t < Depth THEN frames[t + 1] ELSE Len(defers) IN
                        /\ SubSeq(frames', 1, t) = SubSeq(frames, 1, t)
                        /\ SubSeq(defers', 1, n) = SubSeq(defers, 1, n)
      OBVIOUS
    <2>1. Skeleton /\ Skeleton' /\ Floor(ctl, frames, defers)
      BY <1>1 DEF UInv
    <2>2. /\ Stacks(frames, defers) /\ Len(frames) \in 0 .. MaxFrames /\ MaxFrames \in Nat
          /\ CtlOK(ctl) /\ DOMAIN ctl = 1 .. Len(ctl)
      BY <2>1, SkeletonFacts, StacksFacts, CtlFacts, UnwindAssumption
    <2>3. ctl[i].target # NoTarget
      <3>1. DOMAIN frames = 1 .. Len(frames)
        BY <2>2 DEF Stacks
      <3> QED BY <2>2, <3>1 DEF NoTarget
    <2>4. ctl[i].target \in Targets(ctl)
      BY <2>2, <2>3 DEF Targets, Bounded
    <2>5. ~Run
      <3>1. ctl # << >>
        BY <2>2, CtlFacts
      <3> QED BY <3>1 DEF Run
    <2>6. FramesStep /\ DefersStep
      BY <1>1, <2>1, <2>5, StepShapes
    <2>7. FloorAt(ctl[i].target, frames, defers)
      BY <2>1, <2>4 DEF Floor
    <2> QED BY <2>1, <2>4, <2>6, <2>7, ContainedStep
  <1>2. UInv /\ UInv' /\ [Next]_vars => [A]_vars
    BY <1>1
  <1>3. NestedRunIsContained <=> [][A]_vars
    BY DEF NestedRunIsContained
  <1> HIDE DEF A
  <1> QED BY <1>2, <1>3, InvariantHolds, PTL DEF Spec
=============================================================================
