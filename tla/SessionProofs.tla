--------------------------- MODULE SessionProofs ----------------------------
(***************************************************************************)
(* Theorems about a session, for any statements, any pieces of input and   *)
(* any number of signals.                                                  *)
(*                                                                         *)
(* The inductive invariant of the loop, LoopInv, keeps for every text the  *)
(* span of signals between which it was typed: at a terminal what is       *)
(* pending is younger than every signal, and what main() holds is younger  *)
(* than the last signal it noticed.  CutInv says which part of the joined  *)
(* lines the buffer holds and that the part before it was executed.        *)
(***************************************************************************)
EXTENDS Session, AppendingProofs, FiniteSetTheorems

Word == Blank \cup UNION {Range(piece) : piece \in Pieces}
Since(from, to) == [w : Word, e : from .. to]
Floor == IF interactive THEN noticed ELSE 0
PendingFloor == IF interactive THEN signals ELSE 0

LoopTyped ==
    /\ interactive \in BOOLEAN /\ g_sigint_received \in BOOLEAN
    /\ pc \in {"test", "clear", "read", "interrupted", "line", "split", "flush",
              "ended", "fatal", "dead"}
    /\ signals \in 0 .. MaxSignals /\ noticed \in 0 .. signals

Stamps ==
    /\ pending \in Seq(Since(PendingFloor, signals))
    /\ line \in Seq(Since(Floor, signals)) /\ statement_buffer \in Seq(Since(Floor, signals))
    /\ executed \in Seq(Seq(Since(Floor, signals)))
    /\ accepted \in Seq(Seq(Since(0, signals)))

(* Where a signal stands that was not noticed yet, and what the places of  *)
(* the loop say about its locals.                                          *)
Places ==
    /\ pc \in {"test", "clear", "interrupted", "split"} => line = << >>
    /\ pc = "interrupted" => g_sigint_received
    /\ ~g_sigint_received /\ pc # "clear" => noticed = signals
    /\ pc = "split" => accepted # << >>
    /\ pc \in {"test", "read", "line"} => FindSemicolon(statement_buffer) = 0

(* Only the last line can be younger than a signal not noticed, and no     *)
(* further line is read after one.                                         *)
Early(i) == accepted[i] \in Seq(Since(0, noticed))
LastIsLate ==
    /\ \A i \in 1 .. Len(accepted) - 1 : Early(i)
    /\ pc \in {"read", "line"} => \A i \in 1 .. Len(accepted) : Early(i)

LoopInv == LoopTyped /\ Stamps /\ Places /\ LastIsLate

-----------------------------------------------------------------------------
LEMMA SeqMonotone ==
    ASSUME NEW S, NEW T, S \subseteq T, NEW s \in Seq(S)
    PROVE  s \in Seq(T)
OBVIOUS

LEMMA SeqSeqMonotone ==
    ASSUME NEW S, NEW T, S \subseteq T, NEW s \in Seq(Seq(S))
    PROVE  s \in Seq(Seq(T))
<1>1. Seq(S) \subseteq Seq(T)
  BY SeqMonotone
<1> QED
  BY <1>1, SeqMonotone

LEMMA SinceMonotone ==
    ASSUME NEW a \in Nat, NEW b \in Nat, NEW c \in Nat, NEW d \in Nat, c <= a, b <= d
    PROVE  Since(a, b) \subseteq Since(c, d)
BY DEF Since

LEMMA TailTyped ==
    ASSUME NEW S, NEW s \in Seq(S), s # << >>
    PROVE  Tail(s) \in Seq(S)
OBVIOUS

(* The newline joined to a buffer is as old as the buffer's end. *)
LEMMA JoinedTyped ==
    ASSUME NEW a, NEW b, NEW s \in Seq(Since(a, b)), NEW t \in Seq(Since(a, b))
    PROVE  Joined(s, t) \in Seq(Since(a, b))
<1>1. CASE s = << >>
  BY <1>1, Zenon DEF Joined
<1>2. CASE s # << >>
  <2>1. s[Len(s)] \in Since(a, b)
    BY <1>2
  <2>2. NewLine(s) \in Since(a, b)
    BY <2>1 DEF NewLine, Last, Since, Word, Blank
  <2>3. Append(s, NewLine(s)) \o t \in Seq(Since(a, b))
    BY <2>2
  <2> QED
    BY <1>2, <2>3, Zenon DEF Joined
<1> QED
  BY <1>1, <1>2

(* The span of the pending text, and the one of main()'s. *)
LEMMA Floors ==
    ASSUME LoopTyped
    PROVE  /\ signals \in Nat /\ noticed \in Nat /\ noticed <= signals
           /\ Floor \in Nat /\ Floor <= noticed
           /\ PendingFloor \in Nat /\ Floor <= PendingFloor /\ PendingFloor <= signals
BY SessionAssumption DEF LoopTyped, Floor, PendingFloor

LEMMA MinFacts ==
    ASSUME NEW I, I \subseteq Nat, I # {}
    PROVE  Min(I) \in I /\ \A x \in I : Min(I) <= x
<1>1. PICK x \in I : \A y \in I : <<y, x>> \notin OpToRel(<, Nat)
  BY NatLessThanWellFounded, WFMin, Zenon
<1>2. \A y \in I : ~(y < x)
  BY <1>1, Zenon DEF OpToRel
<1>3. \A y \in I : x <= y
  BY <1>2
<1> QED
  BY <1>3, Zenon DEF Min

(* FindSemicolon finds nothing or a place in the text. *)
LEMMA SemicolonFacts ==
    ASSUME NEW S, NEW s \in Seq(S)
    PROVE  FindSemicolon(s) \in 0 .. Len(s)
<1> DEFINE I == Semicolons(s)
<1>1. FindSemicolon(s) = IF I = {} THEN 0 ELSE Min(I)
  BY Zenon DEF FindSemicolon
<1>2. I \subseteq 1 .. Len(s)
  <2>1. I \subseteq DOMAIN s
    BY Zenon DEF Semicolons
  <2> HIDE DEF I
  <2> QED
    BY <2>1
<1> HIDE DEF I
<1>3. I \subseteq Nat /\ Len(s) \in Nat
  BY <1>2
<1>4. I # {} => Min(I) \in I
  BY <1>3, MinFacts, Zenon
<1>5. CASE I = {}
  BY <1>1, <1>3, <1>5
<1>6. CASE I # {}
  <2>1. FindSemicolon(s) \in 1 .. Len(s)
    BY <1>1, <1>2, <1>4, <1>6, Zenon
  <2> QED
    BY <2>1, <1>3
<1> QED
  BY <1>5, <1>6

LEMMA NoSemicolon == FindSemicolon(<< >>) = 0
<1>1. << >> \in Seq({}) /\ Len(<< >>) = 0
  OBVIOUS
<1>2. FindSemicolon(<< >>) \in 0 .. 0
  BY <1>1, SemicolonFacts, Zenon
<1> QED
  BY <1>2

-----------------------------------------------------------------------------
LEMMA TypeInv ==
    ASSUME LoopInv, Type
    PROVE  LoopInv'
<1>p. LoopTyped /\ Stamps /\ Places /\ LastIsLate
  BY DEF LoopInv
<1> USE <1>p
<1>q. signals \in Nat /\ PendingFloor \in Nat /\ PendingFloor <= signals
  BY Floors
<1>1. PICK piece \in Pieces : pending' = pending \o Tokens(piece)
  BY DEF Type
<1>2. Tokens(piece) \in Seq(Since(PendingFloor, signals))
  <2>1. piece \in Seq(STRING)
    BY SessionAssumption
  <2>2. \A i \in 1 .. Len(piece) : piece[i] \in Word
    <3>1. \A i \in 1 .. Len(piece) : piece[i] \in Range(piece)
      BY <2>1 DEF Range
    <3> QED
      BY <3>1 DEF Word
  <2>3. \A i \in 1 .. Len(piece) : [w |-> piece[i], e |-> signals] \in Since(PendingFloor, signals)
    BY <1>q, <2>2 DEF Since
  <2> QED
    BY <2>1, <2>3 DEF Tokens
<1>3. pending' \in Seq(Since(PendingFloor, signals))
  BY <1>1, <1>2 DEF Stamps
<1> QED
  BY <1>3, Zenon DEF LoopInv, LoopTyped, Stamps, Places, LastIsLate, Type, Floor, PendingFloor,
     history, Early

LEMMA HandleSigintInv ==
    ASSUME LoopInv, HandleSigint
    PROVE  LoopInv'
<1>p. LoopTyped /\ Stamps /\ Places /\ LastIsLate
  BY DEF LoopInv
<1> USE <1>p
<1>q. signals \in Nat /\ Floor \in Nat /\ Floor <= signals
  BY Floors
<1>r. signals' = signals + 1 /\ Floor' = Floor /\ signals < MaxSignals
  BY DEF HandleSigint, Floor, history
<1>1. LoopTyped'
  BY <1>q, <1>r, SessionAssumption DEF LoopTyped, HandleSigint, history
<1>2. Stamps'
  <2>1. Since(Floor, signals) \subseteq Since(Floor, signals') /\ Since(0, signals) \subseteq Since(0, signals')
    BY <1>q, <1>r, SinceMonotone
  <2>2. statement_buffer' \in Seq(Since(Floor, signals')) /\ line \in Seq(Since(Floor, signals'))
    BY <2>1, SeqMonotone DEF Stamps, HandleSigint
  <2>3. line' \in Seq(Since(Floor, signals'))
    <3>1. << >> \in Seq(Since(Floor, signals'))
      OBVIOUS
    <3>2. line' = << >> \/ line' = line
      BY Zenon DEF HandleSigint
    <3> QED
      BY <2>2, <3>1, <3>2, Zenon
  <2>4. executed' \in Seq(Seq(Since(Floor, signals')))
    BY <2>1, SeqSeqMonotone DEF Stamps, HandleSigint, history
  <2>5. accepted' \in Seq(Seq(Since(0, signals')))
    BY <2>1, SeqSeqMonotone DEF Stamps, HandleSigint, history
  <2>6. pending' \in Seq(Since(PendingFloor', signals'))
    <3>1. CASE interactive
      BY <3>1 DEF HandleSigint
    <3>2. CASE ~interactive
      <4>1. pending' \in Seq(Since(0, signals))
        BY <3>2 DEF HandleSigint, Stamps, PendingFloor
      <4>2. PendingFloor' = 0
        BY <3>2 DEF HandleSigint, PendingFloor
      <4> QED
        BY <2>1, <4>1, <4>2, SeqMonotone
    <3> QED
      BY <3>1, <3>2
  <2> QED
    BY <1>r, <2>2, <2>3, <2>4, <2>5, <2>6 DEF Stamps
<1>3. Places'
  BY DEF Places, HandleSigint, Blocked, history
<1>4. LastIsLate'
  BY DEF LastIsLate, HandleSigint, Blocked, history, Early
<1> QED
  BY <1>1, <1>2, <1>3, <1>4 DEF LoopInv

LEMMA ClearBufferInv ==
    ASSUME LoopInv, ClearBuffer
    PROVE  LoopInv'
<1>p. LoopTyped /\ Stamps /\ Places /\ LastIsLate
  BY DEF LoopInv
<1> USE <1>p
<1>1. LoopTyped'
  BY SessionAssumption DEF LoopTyped, ClearBuffer, environment
<1>2. line' = << >> /\ statement_buffer' = << >> /\ executed' = << >> /\ accepted' = << >>
  BY DEF Places, ClearBuffer
<1>3. pending' \in Seq(Since(PendingFloor', signals'))
  BY DEF Stamps, PendingFloor, ClearBuffer, environment
<1>4. Stamps'
  BY <1>2, <1>3 DEF Stamps
<1>5. Places'
  BY <1>2, NoSemicolon DEF Places, ClearBuffer, environment
<1>6. LastIsLate'
  BY <1>2 DEF LastIsLate
<1> QED
  BY <1>1, <1>4, <1>5, <1>6 DEF LoopInv

(* The steps that leave every text as it is. *)
LEMMA StillInv ==
    ASSUME LoopInv, EndInput \/ ResetFlag \/ StartRead \/ EndSplit \/ Flush \/ UNCHANGED vars
    PROVE  LoopInv'
<1>p. LoopTyped /\ Stamps /\ Places /\ LastIsLate
  BY DEF LoopInv
<1> USE <1>p
<1>1. /\ UNCHANGED <<interactive, pending, signals, line, statement_buffer, history>>
      /\ g_sigint_received' \in BOOLEAN
      /\ pc' \in {pc, "clear", "read", "test", "ended", "fatal"}
  BY Zenon DEF EndInput, ResetFlag, StartRead, EndSplit, Flush, vars, environment, LoopTyped
<1>2. LoopTyped'
  BY <1>1 DEF LoopTyped, history
<1>3. Stamps'
  BY <1>1, Zenon DEF Stamps, Floor, PendingFloor, history
<1>4. Places'
  BY DEF Places, EndInput, ResetFlag, StartRead, EndSplit, Flush, vars, environment, history
<1>5. LastIsLate'
  <2>1. CASE StartRead
    <3>1. noticed = signals
      BY <2>1 DEF StartRead, Places
    <3>2. \A i \in 1 .. Len(accepted) : Early(i)
      BY <3>1 DEF Stamps, Early
    <3> QED
      BY <1>1, <3>2 DEF LastIsLate, Early, history
  <2>2. CASE ~StartRead
    <3>1. pc' \in {"read", "line"} => pc' = pc
      BY <2>2 DEF EndInput, ResetFlag, EndSplit, Flush, vars
    <3> QED
      BY <1>1, <3>1 DEF LastIsLate, Early, history
  <2> QED
    BY <2>1, <2>2
<1> QED
  BY <1>2, <1>3, <1>4, <1>5 DEF LoopInv

(* The steps that change nothing but the line being read. *)
LEMMA ReadInv ==
    ASSUME LoopInv, ReadLine \/ ReadEof \/ QuitOrSkip
    PROVE  LoopInv'
<1>p. LoopTyped /\ Stamps /\ Places /\ LastIsLate
  BY DEF LoopInv
<1> USE <1>p
<1>q. /\ signals \in Nat /\ Floor \in Nat /\ PendingFloor \in Nat
      /\ Floor <= PendingFloor /\ PendingFloor <= signals
  BY Floors
<1>1. /\ UNCHANGED <<interactive, signals, g_sigint_received, statement_buffer, history>>
      /\ pc \in {"read", "line"} /\ pc' \in {pc, "line", "flush", "test"}
      /\ pc' = "test" => line' = << >>
  BY DEF ReadLine, ReadEof, QuitOrSkip, environment
<1>2. LoopTyped'
  BY <1>1 DEF LoopTyped, history
<1>3. Stamps'
  <2>1. Since(PendingFloor, signals) \subseteq Since(Floor, signals)
    BY <1>q, SinceMonotone
  <2>2. pending' \in Seq(Since(PendingFloor, signals))
    BY Zenon, TailTyped DEF ReadLine, ReadEof, QuitOrSkip, environment, Stamps
  <2>3. line' \in Seq(Since(Floor, signals))
    <3>1. CASE ReadLine
      <4>1. Head(pending) \in Since(Floor, signals)
        BY <2>1, <3>1 DEF ReadLine, Stamps
      <4>2. Append(line, Head(pending)) \in Seq(Since(Floor, signals))
        BY <4>1 DEF Stamps
      <4> QED
        BY <3>1, <4>2, Zenon DEF ReadLine, Stamps
    <3>2. CASE ~ReadLine
      <4>1. line' = << >> \/ line' = line
        BY <3>2, Zenon DEF ReadEof, QuitOrSkip
      <4>2. << >> \in Seq(Since(Floor, signals))
        OBVIOUS
      <4> QED
        BY <4>1, <4>2, Zenon DEF Stamps
    <3> QED
      BY <3>1, <3>2
  <2> QED
    BY <1>1, <2>2, <2>3, Zenon DEF Stamps, Floor, PendingFloor, history
<1>4. Places'
  BY <1>1 DEF Places, history
<1>5. LastIsLate'
  BY <1>1 DEF LastIsLate, Early, history
<1> QED
  BY <1>2, <1>3, <1>4, <1>5 DEF LoopInv

LEMMA AppendLineInv ==
    ASSUME LoopInv, AppendLine
    PROVE  LoopInv'
<1>p. LoopTyped /\ Stamps /\ Places /\ LastIsLate
  BY DEF LoopInv
<1> USE <1>p
<1>q. signals \in Nat /\ Floor \in Nat /\ Floor <= signals
  BY Floors
<1>1. /\ UNCHANGED <<interactive, pending, signals, g_sigint_received, executed, noticed>>
      /\ pc = "line" /\ pc' = "split" /\ line' = << >> /\ accepted' = Append(accepted, line)
      /\ statement_buffer' = Joined(statement_buffer, line)
  BY DEF AppendLine, environment
<1>2. LoopTyped'
  BY <1>1 DEF LoopTyped
<1>3. line \in Seq(Since(0, signals))
  BY <1>q, SinceMonotone, SeqMonotone DEF Stamps
<1>4. Stamps'
  <2>1. Joined(statement_buffer, line) \in Seq(Since(Floor, signals))
    BY JoinedTyped DEF Stamps
  <2>2. Append(accepted, line) \in Seq(Seq(Since(0, signals)))
    BY <1>3 DEF Stamps
  <2>3. line' \in Seq(Since(Floor, signals))
    BY <1>1
  <2> QED
    BY <1>1, <2>1, <2>2, <2>3, Zenon DEF Stamps, Floor, PendingFloor
<1>5. accepted \in Seq(Seq(Since(0, signals)))
  BY DEF Stamps
<1>6. Places'
  <2>1. accepted' # << >>
    BY <1>1, <1>5
  <2> QED
    BY <1>1, <2>1 DEF Places
<1>7. LastIsLate'
  <2>1. \A i \in 1 .. Len(accepted) : Early(i)
    BY <1>1 DEF LastIsLate
  <2>2. Len(accepted') - 1 = Len(accepted) /\ \A i \in 1 .. Len(accepted) : accepted'[i] = accepted[i]
    BY <1>1, <1>5
  <2> QED
    BY <1>1, <2>1, <2>2 DEF LastIsLate, Early
<1> QED
  BY <1>2, <1>4, <1>6, <1>7 DEF LoopInv

LEMMA SplitStatementInv ==
    ASSUME LoopInv, SplitStatement
    PROVE  LoopInv'
<1>p. LoopTyped /\ Stamps /\ Places /\ LastIsLate
  BY DEF LoopInv
<1> USE <1>p
<1> DEFINE pos == FindSemicolon(statement_buffer)
           statement == SubSeq(statement_buffer, 1, pos - 1)
           rest == SubSeq(statement_buffer, pos + 1, Len(statement_buffer))
<1>1. /\ UNCHANGED <<interactive, pending, signals, g_sigint_received, line, accepted, noticed>>
      /\ pc = "split" /\ pc' \in {"split", "dead"} /\ pos # 0
      /\ statement_buffer' = rest
      /\ executed' = executed \/ executed' = Append(executed, statement)
  BY Zenon DEF SplitStatement, Erase, environment
<1>2. statement_buffer \in Seq(Since(Floor, signals)) /\ executed \in Seq(Seq(Since(Floor, signals)))
  BY DEF Stamps
<1>3. pos \in 1 .. Len(statement_buffer)
  <2>1. pos \in 0 .. Len(statement_buffer)
    BY <1>2, SemicolonFacts, Zenon
  <2> QED
    BY <1>1, <1>2, <2>1
<1> HIDE DEF pos
<1>4. statement \in Seq(Since(Floor, signals)) /\ rest \in Seq(Since(Floor, signals))
  BY <1>2, <1>3
<1> HIDE DEF statement, rest
<1>5. executed' \in Seq(Seq(Since(Floor, signals)))
  <2>1. Append(executed, statement) \in Seq(Seq(Since(Floor, signals)))
    BY <1>2, <1>4
  <2> QED
    BY <1>1, <1>2, <2>1, Zenon
<1>6. LoopTyped'
  BY <1>1 DEF LoopTyped
<1>7. Stamps'
  BY <1>1, <1>4, <1>5, Zenon DEF Stamps, Floor, PendingFloor
<1>8. Places'
  BY <1>1 DEF Places
<1>9. LastIsLate'
  BY <1>1 DEF LastIsLate, Early
<1> QED
  BY <1>6, <1>7, <1>8, <1>9 DEF LoopInv

LEMMA LoopInit == Init => LoopInv
<1> SUFFICES ASSUME Init PROVE LoopInv
  OBVIOUS
<1>1. LoopTyped
  <2>1. MaxSignals \in Nat
    BY SessionAssumption
  <2>2. signals = 0 /\ noticed = 0 /\ interactive \in BOOLEAN /\ g_sigint_received = FALSE /\ pc = "test"
    BY Zenon DEF Init
  <2>3. 0 \in 0 .. MaxSignals /\ 0 \in 0 .. 0
    BY <2>1
  <2> QED
    BY <2>2, <2>3, Zenon DEF LoopTyped
<1>2. Stamps
  BY DEF Init, Stamps
<1>3. LastIsLate
  BY DEF Init, LastIsLate
<1>4. Places
  BY NoSemicolon, Zenon DEF Init, Places
<1> QED
  BY <1>1, <1>2, <1>3, <1>4 DEF LoopInv

LEMMA LoopNext ==
    ASSUME LoopInv, [Next]_vars
    PROVE  LoopInv'
BY TypeInv, HandleSigintInv, ClearBufferInv, StillInv, ReadInv, AppendLineInv, SplitStatementInv,
   Zenon DEF Next, Loop

(* The loop of main() keeps its invariant, whatever is typed and whenever  *)
(* signals come.                                                           *)
THEOREM LoopInvariant == Spec => []LoopInv
BY LoopInit, LoopNext, PTL DEF Spec

-----------------------------------------------------------------------------
LEMMA RangeTyped ==
    ASSUME NEW S, NEW s \in Seq(S)
    PROVE  Range(s) \subseteq S
BY DEF Range

(* At a terminal Ctrl-C drops the text before it: nothing older than the   *)
(* last signal main() noticed is being read, is in statement_buffer or is  *)
(* executed; and no signal is forgotten.                                   *)
THEOREM InterruptsDropText == Spec => []InterruptDropsText
<1>1. LoopInv => InterruptDropsText
  <2> SUFFICES ASSUME LoopInv
               PROVE  InterruptDropsText
    OBVIOUS
  <2>p. LoopTyped /\ Stamps /\ Places
    BY DEF LoopInv
  <2>q. noticed \in Nat /\ signals \in Nat
    BY <2>p, Floors
  <2>1. ASSUME interactive, NEW text \in {line, statement_buffer} \cup Range(executed),
               NEW t \in Range(text)
        PROVE  t.e >= noticed
    <3>1. Floor = noticed
      BY <2>1 DEF Floor
    <3>2. Range(executed) \subseteq Seq(Since(Floor, signals))
      BY <2>p, RangeTyped DEF Stamps
    <3>3. text \in Seq(Since(Floor, signals))
      BY <2>p, <2>1, <3>2 DEF Stamps
    <3>4. t \in Since(noticed, signals)
      BY <2>1, <3>1, <3>3, RangeTyped
    <3> QED
      BY <2>q, <3>4 DEF Since
  <2> QED
    BY <2>p, <2>1 DEF InterruptDropsText, Places
<1> QED
  BY <1>1, LoopInvariant, PTL

(* A signal that comes after the flag test is noticed one line later: at   *)
(* most one line typed after it is joined to the text before it.           *)
THEOREM InterruptsAreLateByOneLine == Spec => []LateByOneLine
<1>1. LoopInv => LateByOneLine
  <2> SUFFICES ASSUME LoopInv
               PROVE  LateByOneLine
    OBVIOUS
  <2>p. LoopTyped /\ Stamps /\ LastIsLate
    BY DEF LoopInv
  <2>q. noticed \in Nat /\ accepted \in Seq(Seq(Since(0, signals)))
    BY <2>p, Floors DEF Stamps
  <2> DEFINE late == {i \in DOMAIN accepted : \E t \in Range(accepted[i]) : t.e > noticed}
             n == Len(accepted)
  <2>1. late \subseteq {n}
    <3> SUFFICES ASSUME NEW i \in DOMAIN accepted, i # n, NEW t \in Range(accepted[i]), t.e > noticed
                 PROVE  FALSE
      OBVIOUS
    <3>1. i \in 1 .. n - 1
      BY <2>q
    <3>2. accepted[i] \in Seq(Since(0, noticed))
      BY <2>p, <3>1 DEF LastIsLate, Early
    <3>3. t \in Since(0, noticed)
      BY <3>2, RangeTyped
    <3> QED
      BY <2>q, <3>3 DEF Since
  <2> HIDE DEF late, n
  <2>2. IsFiniteSet({n}) /\ Cardinality({n}) = 1
    BY FS_Singleton
  <2>3. Cardinality(late) <= 1
    BY <2>1, <2>2, FS_Subset
  <2> QED
    BY <2>3 DEF LateByOneLine, late
<1> QED
  BY <1>1, LoopInvariant, PTL

(* main()'s locals have their types at every step of the loop. *)
THEOREM SessionTypes == Spec => []TypeOK
<1>1. LoopInv => TypeOK
  <2> SUFFICES ASSUME LoopInv
               PROVE  TypeOK
    OBVIOUS
  <2>p. LoopTyped /\ Stamps /\ Places
    BY DEF LoopInv
  <2>q. /\ noticed \in Nat /\ signals \in Nat /\ signals <= MaxSignals /\ MaxSignals \in Nat
        /\ Floor \in Nat /\ PendingFloor \in Nat
    BY <2>p, Floors, SessionAssumption DEF LoopTyped
  <2>1. Token = Since(0, MaxSignals)
    BY Zenon DEF Token, Since, Word
  <2>2. /\ Since(0, signals) \subseteq Token /\ Since(Floor, signals) \subseteq Token
        /\ Since(PendingFloor, signals) \subseteq Token
    BY <2>q, <2>1, SinceMonotone
  <2>3. ASSUME NEW text \in {pending, line, statement_buffer} \cup Range(accepted) \cup Range(executed)
        PROVE  Range(text) \subseteq Token
    <3>1. /\ Range(executed) \subseteq Seq(Since(Floor, signals))
          /\ Range(accepted) \subseteq Seq(Since(0, signals))
      BY <2>p, RangeTyped DEF Stamps
    <3>2. \/ text \in Seq(Since(PendingFloor, signals)) \/ text \in Seq(Since(Floor, signals))
          \/ text \in Seq(Since(0, signals))
      BY <2>p, <3>1 DEF Stamps
    <3> QED
      BY <2>2, <3>2, RangeTyped
  <2>4. pc \in {"test", "clear", "read", "interrupted", "line", "split", "flush"} \cup Over
    BY <2>p DEF LoopTyped, Over
  <2> QED
    BY <2>p, <2>3, <2>4, Zenon DEF TypeOK, LoopTyped, Places
<1> QED
  BY <1>1, LoopInvariant, PTL

-----------------------------------------------------------------------------
(* The catalog the session opened, o, and what ExecuteStatement leaves, c. *)
Catalog == [Table -> TableObject \cup {NoTable}]
Before(o, t) == IF o[t] = NoTable THEN << >> ELSE o[t].rows
Keeps(o, c) ==
    \A t \in Table : o[t] # NoTable =>
      /\ c[t] # NoTable
      /\ c[t].columns = o[t].columns
      /\ IsPrefix(o[t].rows, c[t].rows)
AllNamed(o, c) ==
    \A t \in Table : c[t] # NoTable =>
      \A i \in DOMAIN c[t].rows :
        i > Len(Before(o, t)) => AsNamed(t, c[t].columns, c[t].rows[i])
Sound(o, c) == o \in Catalog /\ c \in Catalog /\ Keeps(o, c) /\ AllNamed(o, c)

LEMMA TableFacts ==
    ASSUME NEW c \in Catalog, NEW t \in Table, c[t] # NoTable
    PROVE  /\ c[t] \in TableObject
           /\ c[t].columns \in Seq(STRING \X TypeId) /\ c[t].rows \in Seq(Seq(Literal))
BY DEF Catalog, TableObject

LEMMA PrefixOfItself ==
    ASSUME NEW S, NEW s \in Seq(S)
    PROVE  IsPrefix(s, s)
BY DEF IsPrefix

LEMMA PrefixOfLonger ==
    ASSUME NEW S, NEW s \in Seq(S), NEW t \in Seq(S), NEW u \in Seq(S), IsPrefix(s, t)
    PROVE  IsPrefix(s, t \o u)
<1>1. Len(s) \in Nat /\ Len(t) \in Nat /\ Len(s) <= Len(t) /\ s = SubSeq(t, 1, Len(s))
  BY DEF IsPrefix
<1>2. Len(t \o u) = Len(t) + Len(u) /\ Len(u) \in Nat
  OBVIOUS
<1>3. SubSeq(t \o u, 1, Len(s)) = SubSeq(t, 1, Len(s))
  BY <1>1, <1>2
<1> QED
  BY <1>1, <1>2, <1>3 DEF IsPrefix

(* BindCreateTable: the new table has no row. *)
LEMMA CreateIsSound ==
    ASSUME NEW o, NEW c, Sound(o, c), NEW stmt, stmt.table \in Table,
           stmt.columns \in Seq(STRING \X STRING), NEW done \in BindCreateTable(stmt, c)
    PROVE  Sound(o, done.tables)
<1>1. CASE (\E x \in Range(stmt.columns) : ~IsSupportedType(x[2])) \/ c[stmt.table] # NoTable
  <2>1. done = Failed(c)
    BY <1>1, Zenon DEF BindCreateTable
  <2> QED
    BY <2>1 DEF Failed
<1>2. CASE ~(\E x \in Range(stmt.columns) : ~IsSupportedType(x[2])) /\ c[stmt.table] = NoTable
  <2> DEFINE t == stmt.table
             columns == [i \in DOMAIN stmt.columns |->
                           <<stmt.columns[i][1], MapRawTypeName[stmt.columns[i][2]]>>]
             object == [columns |-> columns, rows |-> << >>]
             created == [c EXCEPT ![t] = object]
  <2>1. done \in {Replied(created), Failed(created)}
    BY <1>2, Zenon DEF BindCreateTable
  <2>2. columns \in Seq(STRING \X TypeId)
    <3>1. \A i \in 1 .. Len(stmt.columns) : stmt.columns[i] \in STRING \X STRING
      OBVIOUS
    <3>2. \A i \in 1 .. Len(stmt.columns) : IsSupportedType(stmt.columns[i][2])
      BY <1>2 DEF Range
    <3>3. \A x : IsSupportedType(x) => MapRawTypeName[x] \in TypeId
      BY DEF IsSupportedType, MapRawTypeName, TypeId
    <3>4. \A i \in 1 .. Len(stmt.columns) : MapRawTypeName[stmt.columns[i][2]] \in TypeId
      BY <3>2, <3>3, Zenon
    <3> HIDE DEF t
    <3> QED
      BY <3>1, <3>4
  <2> HIDE DEF columns
  <2>3. object \in TableObject /\ object.rows = << >>
    BY <2>2 DEF TableObject
  <2> HIDE DEF object
  <2>4. c \in Catalog /\ t \in Table /\ c[t] = NoTable /\ o[t] = NoTable
    BY <1>2 DEF Sound, Keeps
  <2> HIDE DEF t
  <2>5. created \in Catalog /\ created[t] = object /\ \A u \in Table \ {t} : created[u] = c[u]
    BY <2>3, <2>4 DEF Catalog
  <2> HIDE DEF created
  <2>6. Keeps(o, created)
    <3> SUFFICES ASSUME NEW u \in Table, o[u] # NoTable
                 PROVE  /\ created[u] # NoTable /\ created[u].columns = o[u].columns
                        /\ IsPrefix(o[u].rows, created[u].rows)
      BY Zenon DEF Keeps
    <3>1. created[u] = c[u]
      BY <2>4, <2>5
    <3> QED
      BY <3>1, Zenon DEF Sound, Keeps
  <2>7. AllNamed(o, created)
    <3> SUFFICES ASSUME NEW u \in Table, created[u] # NoTable,
                        NEW i \in DOMAIN created[u].rows, i > Len(Before(o, u))
                 PROVE  AsNamed(u, created[u].columns, created[u].rows[i])
      BY Zenon DEF AllNamed
    <3>1. u # t
      BY <2>3, <2>5
    <3>2. created[u] = c[u]
      BY <2>5, <3>1
    <3> QED
      BY <3>2, Zenon DEF Sound, AllNamed
  <2>8. Sound(o, created)
    BY <2>5, <2>6, <2>7 DEF Sound
  <2> QED
    BY <2>1, <2>8 DEF Replied, Failed
<1> QED
  BY <1>1, <1>2

(* BindInsert's target_ordinals are ordinals of the table. *)
LEMMA TargetFacts ==
    ASSUME NEW stmt, stmt.columns \in Seq(STRING), NEW columns \in Seq(STRING \X TypeId),
           NamesKnown(stmt, columns)
    PROVE  /\ TargetOrdinals(stmt, columns) \in Seq(1 .. Len(columns))
           /\ \A i \in DOMAIN TargetOrdinals(stmt, columns) :
                TargetOrdinals(stmt, columns)[i] =
                  IF stmt.columns = << >> THEN i ELSE FindColumn(columns, stmt.columns[i])
<1>1. CASE stmt.columns = << >>
  <2>1. TargetOrdinals(stmt, columns) = [i \in 1 .. Len(columns) |-> i]
    BY <1>1 DEF TargetOrdinals
  <2> QED
    BY <1>1, <2>1
<1>2. CASE stmt.columns # << >>
  <2>1. TargetOrdinals(stmt, columns) = [i \in 1 .. Len(stmt.columns) |-> FindColumn(columns, stmt.columns[i])]
    BY <1>2 DEF TargetOrdinals
  <2>2. ASSUME NEW i \in 1 .. Len(stmt.columns)
        PROVE  FindColumn(columns, stmt.columns[i]) \in 1 .. Len(columns)
    <3> DEFINE I == Ordinals(columns, stmt.columns[i])
    <3>1. stmt.columns[i] \in Range(stmt.columns)
      BY DEF Range
    <3>2. I # {}
      BY <3>1, Zenon DEF NamesKnown
    <3>3. I \subseteq 1 .. Len(columns)
      BY DEF Ordinals
    <3>4. FindColumn(columns, stmt.columns[i]) = Min(I)
      BY Zenon DEF FindColumn, Min
    <3> HIDE DEF I
    <3>5. I \subseteq Nat
      BY <3>3
    <3>6. Min(I) \in I
      BY <3>2, <3>5, MinFacts, Zenon
    <3> QED
      BY <3>3, <3>4, <3>6, Zenon
  <2> QED
    BY <1>2, <2>1, <2>2
<1> QED
  BY <1>1, <1>2

LEMMA MaxOfOne ==
    ASSUME NEW i \in Nat
    PROVE  Max({i}) = i
BY DEF Max

(* Every literal is in the column it was given for. *)
InPlace(b, n, given, targets) ==
    /\ b \in [1 .. n -> Literal]
    /\ \A k \in 1 .. n : \E i \in 1 .. n : targets[i] = k
    /\ \A i \in 1 .. n : b[targets[i]] = given[i]

(* A row without a hole: every column has a target, so no two literals     *)
(* have the same one, and each is in the column it was given for.          *)
LEMMA BoundRowFacts ==
    ASSUME NEW n \in Nat, NEW columns, DOMAIN columns = 1 .. n,
           NEW given \in Seq(Literal), Len(given) = n,
           NEW targets \in Seq(1 .. n), Len(targets) = n,
           Hole \notin Range(BoundRow(given, targets, columns))
    PROVE  InPlace(BoundRow(given, targets, columns), n, given, targets)
<1> DEFINE b == BoundRow(given, targets, columns)
           At(k) == {i \in DOMAIN targets : targets[i] = k}
<1>1. b = [k \in 1 .. n |-> IF k \in Range(targets) THEN given[Max(At(k))] ELSE Hole]
  BY Zenon DEF BoundRow
<1>2. DOMAIN targets = 1 .. n /\ targets \in [1 .. n -> 1 .. n]
  OBVIOUS
<1>3. \A k \in 1 .. n : k \in Range(targets)
  <2> SUFFICES ASSUME NEW k \in 1 .. n, k \notin Range(targets)
               PROVE  Hole \in Range(b)
    OBVIOUS
  <2>1. b[k] = Hole /\ k \in DOMAIN b
    BY <1>1, Zenon
  <2> QED
    BY <2>1, Zenon DEF Range
<1>4. \A k \in 1 .. n : \E i \in 1 .. n : targets[i] = k
  BY <1>2, <1>3 DEF Range
<1>5. \A i, j \in 1 .. n : targets[i] = targets[j] => i = j
  <2>1. targets \in Surjection(1 .. n, 1 .. n)
    BY <1>2, <1>4, Zenon DEF Surjection
  <2>2. IsFiniteSet(1 .. n)
    BY FS_Interval
  <2>3. targets \in Injection(1 .. n, 1 .. n)
    BY <2>1, <2>2, FS_Surjection, Zenon
  <2> QED
    BY <2>3, Zenon DEF Injection, IsInjective
<1>6. \A i \in 1 .. n : At(targets[i]) = {i}
  BY <1>2, <1>5
<1>7. \A i \in 1 .. n : Max(At(targets[i])) = i
  BY <1>6, MaxOfOne
<1> HIDE DEF At
<1>8. ASSUME NEW i \in 1 .. n
      PROVE  b[targets[i]] = given[i]
  <2>1. targets[i] \in 1 .. n
    BY <1>2
  <2> QED
    BY <1>1, <1>3, <1>7, <2>1, Zenon
<1>9. \A i \in 1 .. n : given[i] \in Literal
  OBVIOUS
<1>10. \A k \in 1 .. n : b[k] \in Literal
  <2> HIDE DEF b
  <2> QED
    BY <1>4, <1>8, <1>9, Zenon
<1>11. b \in [1 .. n -> Literal]
  <2>1. b = [k \in 1 .. n |-> b[k]]
    BY <1>1, Zenon
  <2> HIDE DEF b
  <2> QED
    BY <1>10, <2>1
<1> QED
  BY <1>4, <1>8, <1>11, Zenon DEF InPlace

LEMMA FunctionIsSeq ==
    ASSUME NEW S, NEW n \in Nat, NEW f, f = [i \in 1 .. n |-> f[i]], \A i \in 1 .. n : f[i] \in S
    PROVE  f \in Seq(S) /\ DOMAIN f = 1 .. n
OBVIOUS

(* BoundRows: the rows are the rows of the statement, by name. *)
LEMMA BoundRowsFacts ==
    ASSUME NEW stmt \in Range(Parsed), stmt.kind = "insert",
           NEW columns \in Seq(STRING \X TypeId), NamesKnown(stmt, columns),
           \A row \in Range(stmt.rows) : RowFits(row, TargetOrdinals(stmt, columns), columns),
           \A row \in Range(BoundRows(stmt, columns)) : Hole \notin Range(row)
    PROVE  /\ BoundRows(stmt, columns) \in Seq(Seq(Literal))
           /\ \A row \in Range(BoundRows(stmt, columns)) : AsNamed(stmt.table, columns, row)
<1> DEFINE t == stmt.table
           targets == TargetOrdinals(stmt, columns)
           n == Len(columns)
           bound == [i \in DOMAIN stmt.rows |-> BoundRow(stmt.rows[i], targets, columns)]
<1>1. t \in Table /\ stmt.columns \in Seq(STRING) /\ stmt.rows \in Seq(Seq(Literal))
  BY ParsedAssumption
<1>0. BoundRows(stmt, columns) = bound
  BY Zenon DEF BoundRows
<1>2. /\ targets \in Seq(1 .. n) /\ n \in Nat /\ DOMAIN columns = 1 .. n
      /\ \A i \in DOMAIN targets :
           targets[i] = IF stmt.columns = << >> THEN i ELSE FindColumn(columns, stmt.columns[i])
  <2>1. n \in Nat /\ DOMAIN columns = 1 .. n
    OBVIOUS
  <2> QED
    BY <1>1, <2>1, TargetFacts, Zenon
<1>3. \A k \in 1 .. n : columns[k][2] \in TypeId
  OBVIOUS
<1> HIDE DEF targets
<1>4. ASSUME NEW given \in Range(stmt.rows)
      PROVE  /\ given \in Seq(Literal) /\ Len(given) = n /\ Len(targets) = n
             /\ \A i \in 1 .. n : given[i][1] = columns[targets[i]][2] /\ targets[i] \in 1 .. n
             /\ \A i \in DOMAIN given : given[i][1] \in TypeId
  <2>1. given \in Seq(Literal)
    BY <1>1, RangeTyped
  <2>2. RowFits(given, targets, columns)
    BY DEF targets
  <2>3. /\ Len(given) = n /\ Len(targets) = n
        /\ \A i \in DOMAIN given : given[i][1] = columns[targets[i]][2]
    BY <2>2 DEF RowFits
  <2> HIDE DEF n
  <2>4. DOMAIN given = 1 .. n /\ \A i \in 1 .. n : targets[i] \in 1 .. n
    BY <1>2, <2>1, <2>3
  <2> QED
    BY <1>3, <2>1, <2>3, <2>4, Zenon
<1>5. ASSUME NEW j \in DOMAIN stmt.rows
      PROVE  bound[j] \in Seq(Literal) /\ AsNamed(t, columns, bound[j])
  <2> DEFINE given == stmt.rows[j]
             b == BoundRow(given, targets, columns)
  <2>1. given \in Range(stmt.rows) /\ bound[j] = b /\ b \in Range(bound)
    BY Zenon DEF Range
  <2>2. Hole \notin Range(b)
    BY <1>0, <2>1, Zenon
  <2> HIDE DEF given, bound, n
  <2>3. /\ given \in Seq(Literal) /\ Len(given) = n /\ Len(targets) = n
        /\ \A i \in 1 .. n : given[i][1] = columns[targets[i]][2]
        /\ DOMAIN given = 1 .. n
    BY <1>4, <2>1
  <2>4. /\ b \in [1 .. n -> Literal] /\ \A k \in 1 .. n : \E i \in 1 .. n : targets[i] = k
        /\ \A i \in 1 .. n : b[targets[i]] = given[i]
    <3>1. /\ n \in Nat /\ DOMAIN columns = 1 .. n /\ given \in Seq(Literal) /\ Len(given) = n
          /\ targets \in Seq(1 .. n) /\ Len(targets) = n
      BY <1>2, <2>3, Zenon
    <3>2. InPlace(b, n, given, targets)
      BY <2>2, <3>1, BoundRowFacts
    <3> QED
      BY <3>2, Zenon DEF InPlace
  <2> HIDE DEF b
  <2>5. b \in Seq(Literal) /\ DOMAIN b = 1 .. n
    <3>1. n \in Nat /\ b = [i \in 1 .. n |-> b[i]] /\ \A i \in 1 .. n : b[i] \in Literal
      BY <1>2, <2>4, Zenon
    <3> QED
      BY <3>1, FunctionIsSeq, Zenon
  <2>6. ASSUME NEW k \in DOMAIN b
        PROVE  b[k][1] = columns[k][2]
    <3>1. PICK i \in 1 .. n : targets[i] = k
      BY <2>4, <2>5, Zenon
    <3>2. b[k] = given[i] /\ given[i][1] = columns[k][2]
      BY <2>3, <2>4, <3>1, Zenon
    <3> QED
      BY <3>2, Zenon
  <2>7. DOMAIN targets = 1 .. n
    BY <1>2, <2>3
  <2>8. \A i \in DOMAIN given :
          b[IF stmt.columns = << >> THEN i ELSE FindColumn(columns, stmt.columns[i])] = given[i]
    BY <1>2, <2>3, <2>4, <2>7, Zenon
  <2>9. \A g \in Range(stmt.rows) : \A i \in DOMAIN g : g[i][1] \in TypeId
    BY <1>4, Zenon
  <2>10. AsNamed(t, columns, b)
    BY <1>2, <2>1, <2>5, <2>6, <2>8, <2>9, Zenon DEF AsNamed
  <2> QED
    BY <2>1, <2>5, <2>10, Zenon
<1>6. bound \in Seq(Seq(Literal))
  <2>1. DOMAIN bound = 1 .. Len(stmt.rows) /\ bound = [j \in 1 .. Len(stmt.rows) |-> bound[j]]
    BY <1>1
  <2>2. Len(stmt.rows) \in Nat /\ DOMAIN stmt.rows = 1 .. Len(stmt.rows)
    BY <1>1
  <2> HIDE DEF bound
  <2>3. \A j \in 1 .. Len(stmt.rows) : bound[j] \in Seq(Literal)
    BY <1>5, <2>2, Zenon
  <2> QED
    BY <2>1, <2>2, <2>3, FunctionIsSeq, Zenon
<1>7. \A row \in Range(bound) : AsNamed(t, columns, row)
  BY <1>5, Zenon DEF Range
<1> QED
  BY <1>0, <1>6, <1>7, Zenon

(* InsertExecutor: rows are added at the end, a first part of them. *)
LEMMA InsertedIsSound ==
    ASSUME NEW o, NEW c, Sound(o, c), NEW t \in Table, c[t] # NoTable,
           NEW rows \in Seq(Seq(Literal)),
           \A row \in Range(rows) : AsNamed(t, c[t].columns, row),
           NEW done \in Inserted(t, rows, c)
    PROVE  Sound(o, done.tables)
<1> DEFINE columns == c[t].columns
<1>1. o \in Catalog /\ c \in Catalog /\ Keeps(o, c) /\ AllNamed(o, c)
  BY DEF Sound
<1>2. c[t] \in TableObject /\ columns \in Seq(STRING \X TypeId) /\ c[t].rows \in Seq(Seq(Literal))
  BY <1>1, TableFacts
<1>3. PICK m \in 0 .. Len(rows) :
        done = IF m = Len(rows) THEN Replied([c EXCEPT ![t].rows = @ \o rows])
               ELSE Failed([c EXCEPT ![t].rows = @ \o SubSeq(rows, 1, m)])
  BY Zenon DEF Inserted, Flushed
<1> DEFINE part == IF m = Len(rows) THEN rows ELSE SubSeq(rows, 1, m)
           added == [c EXCEPT ![t].rows = @ \o part]
<1>4. done.tables = added
  BY <1>3 DEF Replied, Failed
<1>5. part \in Seq(Seq(Literal)) /\ \A i \in DOMAIN part : i \in DOMAIN rows /\ part[i] = rows[i]
  <2>1. CASE m = Len(rows)
    BY <2>1
  <2>2. CASE m # Len(rows)
    BY <2>2
  <2> QED
    BY <2>1, <2>2
<1>6. \A i \in DOMAIN part : AsNamed(t, columns, part[i])
  BY <1>5, Zenon DEF Range
<1> HIDE DEF part, columns
<1>7. /\ c[t].rows \o part \in Seq(Seq(Literal))
      /\ \A i \in DOMAIN (c[t].rows \o part) :
           \/ i \in DOMAIN c[t].rows /\ (c[t].rows \o part)[i] = c[t].rows[i]
           \/ i - Len(c[t].rows) \in DOMAIN part
              /\ (c[t].rows \o part)[i] = part[i - Len(c[t].rows)]
  BY <1>2, <1>5
<1>8. /\ added \in Catalog /\ added[t] # NoTable
      /\ added[t].columns = columns /\ added[t].rows = c[t].rows \o part
      /\ \A u \in Table \ {t} : added[u] = c[u]
  <2>1. added = [c EXCEPT ![t] = [c[t] EXCEPT !.rows = @ \o part]]
    BY <1>1, <1>2 DEF Catalog, TableObject
  <2> DEFINE object == [c[t] EXCEPT !.rows = @ \o part]
  <2>2. object \in TableObject /\ object.columns = columns /\ object.rows = c[t].rows \o part
    BY <1>2, <1>7, Zenon DEF TableObject, columns
  <2> HIDE DEF object, added
  <2>3. added \in Catalog /\ added[t] = object /\ \A u \in Table \ {t} : added[u] = c[u]
    BY <1>1, <2>1, <2>2 DEF Catalog, object
  <2>4. object # NoTable
    BY <2>2, ParsedAssumption, Zenon
  <2> QED
    BY <2>2, <2>3, <2>4, Zenon
<1> HIDE DEF added
<1>9. AllNamed(o, added)
  <2> SUFFICES ASSUME NEW u \in Table, added[u] # NoTable,
                      NEW i \in DOMAIN added[u].rows, i > Len(Before(o, u))
               PROVE  AsNamed(u, added[u].columns, added[u].rows[i])
    BY Zenon DEF AllNamed
  <2>1. CASE u = t
    <3>1. \A j \in DOMAIN c[t].rows : j > Len(Before(o, t)) => AsNamed(t, columns, c[t].rows[j])
      BY <1>1, Zenon DEF AllNamed, columns
    <3> QED
      BY <1>6, <1>7, <1>8, <2>1, <3>1, Zenon
  <2>2. CASE u # t
    <3>1. added[u] = c[u]
      BY <1>8, <2>2
    <3> QED
      BY <1>1, <3>1, Zenon DEF AllNamed
  <2> QED
    BY <2>1, <2>2
<1>10. Keeps(o, added)
  <2> SUFFICES ASSUME NEW u \in Table, o[u] # NoTable
               PROVE  /\ added[u] # NoTable /\ added[u].columns = o[u].columns
                      /\ IsPrefix(o[u].rows, added[u].rows)
    BY Zenon DEF Keeps
  <2>1. c[u] # NoTable /\ c[u].columns = o[u].columns /\ IsPrefix(o[u].rows, c[u].rows)
    BY <1>1, Zenon DEF Keeps
  <2>2. CASE u = t
    <3>1. o[u].rows \in Seq(Seq(Literal))
      BY <1>1, TableFacts
    <3>2. IsPrefix(o[u].rows, c[t].rows \o part)
      BY <1>2, <1>5, <2>1, <2>2, <3>1, PrefixOfLonger
    <3> QED
      BY <1>8, <2>1, <2>2, <3>2, Zenon DEF columns
  <2>3. CASE u # t
    BY <1>8, <2>1, <2>3
  <2> QED
    BY <2>2, <2>3
<1> QED
  BY <1>1, <1>4, <1>8, <1>9, <1>10 DEF Sound

LEMMA InsertIsSound ==
    ASSUME NEW o, NEW c, Sound(o, c), NEW stmt \in Range(Parsed), stmt.kind = "insert",
           NEW done \in BindInsert(stmt, c)
    PROVE  Sound(o, done.tables)
<1> DEFINE t == stmt.table
           columns == c[t].columns
           targets == TargetOrdinals(stmt, columns)
           Fits == \A row \in Range(stmt.rows) : RowFits(row, targets, columns)
           bound == BoundRows(stmt, columns)
<1>1. CASE \/ c[t] = NoTable \/ ~NamesKnown(stmt, columns) \/ ~Fits
  <2>1. done = Failed(c)
    BY <1>1, Zenon DEF BindInsert
  <2> QED
    BY <2>1 DEF Failed
<1>2. CASE c[t] # NoTable /\ NamesKnown(stmt, columns) /\ Fits
  <2>1. done \in RunInsert(stmt, c)
    BY <1>2, Zenon DEF BindInsert
  <2>2. done \in IF \E row \in Range(bound) : Hole \in Range(row) THEN {Died(c)}
                ELSE Inserted(t, bound, c)
    BY <2>1, Zenon DEF RunInsert
  <2>3. CASE \E row \in Range(bound) : Hole \in Range(row)
    <3>1. done = Died(c)
      BY <2>2, <2>3, Zenon
    <3> QED
      BY <3>1 DEF Died
  <2>4. CASE ~\E row \in Range(bound) : Hole \in Range(row)
    <3>1. done \in Inserted(t, bound, c)
      BY <2>2, <2>4, Zenon
    <3>2. t \in Table
      BY ParsedAssumption
    <3>3. columns \in Seq(STRING \X TypeId)
      BY <1>2, <3>2, TableFacts DEF Sound
    <3>4. bound \in Seq(Seq(Literal)) /\ \A row \in Range(bound) : AsNamed(t, columns, row)
      BY <1>2, <2>4, <3>3, BoundRowsFacts, Zenon
    <3> HIDE DEF bound
    <3> QED
      BY <1>2, <3>1, <3>2, <3>4, InsertedIsSound, Zenon
  <2> QED
    BY <2>3, <2>4, Zenon
<1> QED
  BY <1>1, <1>2, Zenon

(* Whatever a statement's text is, and whatever its outcome. *)
LEMMA ExecuteIsSound ==
    ASSUME NEW o, NEW c, Sound(o, c), NEW text, NEW done \in ExecuteStatement(text, c)
    PROVE  Sound(o, done.tables)
<1> DEFINE stmt == Parsed[text]
<1>1. CASE text \notin DOMAIN Parsed
  <2>1. done = Failed(c)
    BY <1>1, Zenon DEF ExecuteStatement
  <2> QED
    BY <2>1 DEF Failed
<1>2. CASE text \in DOMAIN Parsed
  <2>1. stmt \in Range(Parsed)
    BY <1>2, Zenon DEF Range
  <2>2. /\ stmt.kind \in {"meta", "negation", "create", "insert"}
        /\ stmt.kind = "create" => stmt.table \in Table /\ stmt.columns \in Seq(STRING \X STRING)
    BY <2>1, ParsedAssumption, Zenon
  <2>3. ExecuteStatement(text, c) =
          CASE stmt.kind = "meta"     -> {Replied(c)}
            [] stmt.kind = "negation" -> {Died(c)}
            [] stmt.kind = "create"   -> BindCreateTable(stmt, c)
            [] stmt.kind = "insert"   -> BindInsert(stmt, c)
    BY <1>2, Zenon DEF ExecuteStatement
  <2> HIDE DEF stmt
  <2>4. CASE stmt.kind \in {"meta", "negation"}
    <3>1. done \in {Replied(c), Died(c)}
      BY <2>3, <2>4
    <3> QED
      BY <3>1 DEF Replied, Died
  <2>5. CASE stmt.kind = "create"
    <3>1. ExecuteStatement(text, c) = BindCreateTable(stmt, c)
      BY <2>3, <2>5
    <3> QED
      BY <2>2, <2>5, <3>1, CreateIsSound, Zenon
  <2>6. CASE stmt.kind = "insert"
    <3>1. ExecuteStatement(text, c) = BindInsert(stmt, c)
      BY <2>3, <2>6
    <3> QED
      BY <2>1, <2>6, <3>1, InsertIsSound, Zenon
  <2> QED
    BY <2>2, <2>4, <2>5, <2>6
<1> QED
  BY <1>1, <1>2

(* The invariant of the catalog. *)
CatalogInv == Sound(opened, tables)

LEMMA CatalogInit == Init => CatalogInv
<1> SUFFICES ASSUME Init PROVE CatalogInv
  OBVIOUS
<1>1. opened \in Catalog /\ tables = opened
  BY SessionAssumption DEF Init, Catalog
<1>2. Keeps(opened, opened)
  <2> SUFFICES ASSUME NEW t \in Table, opened[t] # NoTable
               PROVE  IsPrefix(opened[t].rows, opened[t].rows)
    BY DEF Keeps
  <2> QED
    BY <1>1, TableFacts, PrefixOfItself
<1>3. AllNamed(opened, opened)
  <2> SUFFICES ASSUME NEW t \in Table, opened[t] # NoTable, NEW i \in DOMAIN opened[t].rows
               PROVE  ~(i > Len(opened[t].rows))
    BY Zenon DEF AllNamed, Before
  <2>1. opened[t].rows \in Seq(Seq(Literal))
    BY <1>1, TableFacts
  <2> QED
    BY <2>1
<1> QED
  BY <1>1, <1>2, <1>3, Zenon DEF CatalogInv, Sound

LEMMA CatalogNext ==
    ASSUME CatalogInv, [Next]_vars
    PROVE  CatalogInv'
<1>1. CASE SplitStatement
  <2>1. /\ opened' = opened
        /\ \/ tables' = tables
           \/ \E text : \E done \in ExecuteStatement(text, tables) : tables' = done.tables
    BY <1>1, Zenon DEF SplitStatement
  <2>2. Sound(opened, tables')
    BY <2>1, ExecuteIsSound, Zenon DEF CatalogInv
  <2> QED
    BY <2>1, <2>2, Zenon DEF CatalogInv
<1>2. CASE ~SplitStatement
  <2>1. UNCHANGED catalog
    BY <1>2 DEF Next, Loop, vars, Type, EndInput, HandleSigint, ResetFlag, ClearBuffer,
       StartRead, ReadLine, ReadEof, QuitOrSkip, AppendLine, EndSplit, Flush
  <2> QED
    BY <2>1, Zenon DEF CatalogInv, catalog
<1> QED
  BY <1>1, <1>2

(* The tables of the file keep their rows, and every row after them is one *)
(* of an INSERT, each literal in the column its name says, whatever was    *)
(* executed before and whichever writes to the file failed.                *)
THEOREM RowsStayAsNamed == Spec => []RowsAsNamed
<1>1. CatalogInv => RowsAsNamed
  BY Zenon DEF CatalogInv, Sound, Keeps, AllNamed, Before, RowsBefore, RowsAsNamed
<1> QED
  BY <1>1, CatalogInit, CatalogNext, PTL DEF Spec

-----------------------------------------------------------------------------
(* What is executed: the statements of the accepted lines.                 *)
AnyToken == [w : Word, e : Nat]
TextParts(t) == [i \in DOMAIN t |-> IF t[i].w \in Blank THEN << >> ELSE <<t[i].w>>]
StatementParts(t) ==
    [m \in DOMAIN t |-> IF t[m].w = ";" /\ Part(t, m) # << >> THEN <<Part(t, m)>> ELSE << >>]

LEMMA AppendedTyped ==
    ASSUME NEW C, NEW parts \in Seq(Seq(C))
    PROVE  Appended(parts) \in Seq(C)
<1>1. << >> \in Seq(C)
  OBVIOUS
<1> QED
  BY <1>1, AppendedNext, Zenon

LEMMA WordFacts ==
    ASSUME NEW t \in Seq(AnyToken), NEW i \in 1 .. Len(t)
    PROVE  t[i] \in AnyToken /\ t[i].w \in Word /\ i \in DOMAIN t
<1>1. t[i] \in AnyToken /\ i \in DOMAIN t
  OBVIOUS
<1> QED
  BY <1>1 DEF AnyToken

LEMMA TextFacts ==
    ASSUME NEW t \in Seq(AnyToken)
    PROVE  /\ TextParts(t) \in Seq(Seq(Word)) /\ Len(TextParts(t)) = Len(t)
           /\ Text(t) = Appended(TextParts(t)) /\ Text(t) \in Seq(Word)
<1> DEFINE part(i) == IF t[i].w \in Blank THEN << >> ELSE <<t[i].w>>
<1>1. ASSUME NEW i \in 1 .. Len(t) PROVE part(i) \in Seq(Word)
  <2>1. t[i].w \in Word
    BY WordFacts, Zenon
  <2> QED
    BY <2>1
<1>2. DOMAIN t = 1 .. Len(t) /\ Len(t) \in Nat
  OBVIOUS
<1>3. TextParts(t) = [i \in 1 .. Len(t) |-> part(i)]
  BY <1>2, Zenon DEF TextParts
<1> HIDE DEF part
<1>4. [i \in 1 .. Len(t) |-> part(i)] \in Seq(Seq(Word)) /\ Len([i \in 1 .. Len(t) |-> part(i)]) = Len(t)
  BY <1>1, <1>2
<1>5. TextParts(t) \in Seq(Seq(Word)) /\ Len(TextParts(t)) = Len(t)
  BY <1>3, <1>4, Zenon
<1>6. Text(t) = Appended(TextParts(t))
  BY Zenon DEF Text, TextParts
<1>7. Appended(TextParts(t)) \in Seq(Word)
  BY <1>5, AppendedTyped, Zenon
<1> QED
  BY <1>5, <1>6, <1>7, Zenon

(* Leading blanks do not count, nor when the words were typed. *)
LEMMA TextShift ==
    ASSUME NEW t \in Seq(AnyToken), NEW u \in Seq(AnyToken), NEW d \in Nat, Len(t) = d + Len(u),
           \A i \in 1 .. d : t[i].w \in Blank, \A i \in 1 .. Len(u) : t[d + i].w = u[i].w
    PROVE  Text(t) = Text(u)
<1>1. Len(t) \in Nat /\ Len(u) \in Nat /\ DOMAIN t = 1 .. Len(t) /\ DOMAIN u = 1 .. Len(u)
  OBVIOUS
<1>2. ASSUME NEW i \in 1 .. d PROVE TextParts(t)[i] = << >>
  <2>1. i \in DOMAIN t
    BY <1>1
  <2> QED
    BY <2>1, Zenon DEF TextParts
<1>3. ASSUME NEW i \in 1 .. Len(u) PROVE TextParts(t)[d + i] = TextParts(u)[i]
  <2>1. d + i \in DOMAIN t /\ i \in DOMAIN u
    BY <1>1
  <2> QED
    BY <2>1, Zenon DEF TextParts
<1>4. PICK a, b : a = TextParts(t) /\ b = TextParts(u)
  OBVIOUS
<1>5. a \in Seq(Seq(Word)) /\ b \in Seq(Seq(Word)) /\ Len(a) = Len(t) /\ Len(b) = Len(u)
  BY <1>4, TextFacts, Zenon
<1>6. Len(a) = d + Len(b) /\ (\A i \in 1 .. d : a[i] = << >>) /\ \A i \in 1 .. Len(b) : a[d + i] = b[i]
  BY <1>2, <1>3, <1>4, <1>5, Zenon
<1>7. Appended(a) = Appended(b)
  BY <1>5, <1>6, AppendedShift, Zenon
<1> QED
  BY <1>4, <1>7, TextFacts, Zenon

(* The ';' before a place. *)
Start(t, m) == Max({0} \cup {k \in Semicolons(t) : k < m})

LEMMA MaxIs ==
    ASSUME NEW I, I \subseteq Nat, NEW x \in I, \A y \in I : y <= x
    PROVE  Max(I) = x
<1>1. \A y \in I : x >= y
  OBVIOUS
<1>2. ASSUME NEW z \in I, \A y \in I : z >= y PROVE z = x
  BY <1>2
<1>3. (CHOOSE z \in I : \A y \in I : z >= y) = x
  BY <1>1, <1>2, Zenon
<1> QED
  BY <1>3, Zenon DEF Max

LEMMA MaxExists ==
    ASSUME NEW n \in Nat, NEW I, I \subseteq 0 .. n, I # {}
    PROVE  \E x \in I : \A y \in I : y <= x
<1> DEFINE U == {n - x : x \in I}
<1>1. U \in SUBSET Nat /\ U # {}
  <2>1. ASSUME NEW x \in I PROVE n - x \in Nat
    OBVIOUS
  <2> QED
    BY <2>1, Zenon
<1>2. PICK m \in U : \A y \in U : m <= y
  BY <1>1, LeastExists, Zenon
<1>3. PICK x \in I : m = n - x
  BY <1>2
<1>4. ASSUME NEW y \in I PROVE y <= x
  <2>1. m <= n - y
    BY <1>2
  <2> QED
    BY <1>3, <2>1
<1> QED
  BY <1>4

LEMMA StartFacts ==
    ASSUME NEW t \in Seq(AnyToken), NEW m \in 1 .. Len(t) + 1
    PROVE  Start(t, m) \in 0 .. m - 1
<1> DEFINE I == {0} \cup {k \in Semicolons(t) : k < m}
<1>1. Semicolons(t) \subseteq 1 .. Len(t) /\ Len(t) \in Nat
  <2>1. DOMAIN t = 1 .. Len(t) /\ Len(t) \in Nat
    OBVIOUS
  <2> QED
    BY <2>1, Zenon DEF Semicolons
<1>2. m - 1 \in Nat /\ I \subseteq 0 .. m - 1 /\ I # {} /\ I \subseteq Nat
  BY <1>1
<1> HIDE DEF I
<1>3. PICK x \in I : \A y \in I : y <= x
  BY <1>2, MaxExists, Zenon
<1>4. Max(I) = x
  BY <1>2, <1>3, MaxIs, Zenon
<1>5. Start(t, m) = Max(I)
  BY Zenon DEF Start, I
<1> QED
  BY <1>2, <1>4, <1>5

LEMMA StatementFacts ==
    ASSUME NEW t \in Seq(AnyToken)
    PROVE  /\ StatementParts(t) \in Seq(Seq(Seq(Word))) /\ Len(StatementParts(t)) = Len(t)
           /\ Statements(t) = Appended(StatementParts(t))
<1> DEFINE part(m) == IF t[m].w = ";" /\ Part(t, m) # << >> THEN <<Part(t, m)>> ELSE << >>
<1>1. ASSUME NEW m \in 1 .. Len(t) PROVE part(m) \in Seq(Seq(Word))
  <2>1. Part(t, m) \in Seq(Word)
    <3>1. m \in 1 .. Len(t) + 1
      OBVIOUS
    <3>2. Start(t, m) \in 0 .. m - 1
      BY <3>1, StartFacts, Zenon
    <3>3. PICK k \in 0 .. m - 1 : k = Start(t, m)
      BY <3>2
    <3>4. SubSeq(t, k + 1, m - 1) \in Seq(AnyToken)
      BY <3>3
    <3>5. Part(t, m) = Text(SubSeq(t, k + 1, m - 1))
      BY <3>3, Zenon DEF Part, Start
    <3> QED
      BY <3>4, <3>5, TextFacts, Zenon
  <2>2. PICK p \in Seq(Word) : p = Part(t, m)
    BY <2>1
  <2>3. <<p>> \in Seq(Seq(Word)) /\ << >> \in Seq(Seq(Word))
    OBVIOUS
  <2> QED
    BY <2>2, <2>3, Zenon
<1>2. DOMAIN t = 1 .. Len(t) /\ Len(t) \in Nat
  OBVIOUS
<1>3. StatementParts(t) = [m \in 1 .. Len(t) |-> part(m)]
  BY <1>2, Zenon DEF StatementParts
<1> HIDE DEF part
<1>4. PICK S : S = Seq(Seq(Word))
  OBVIOUS
<1>5. [m \in 1 .. Len(t) |-> part(m)] \in Seq(S) /\ Len([m \in 1 .. Len(t) |-> part(m)]) = Len(t)
  BY <1>1, <1>2, <1>4
<1>6. Statements(t) = Appended(StatementParts(t))
  BY Zenon DEF Statements, StatementParts
<1> QED
  BY <1>3, <1>4, <1>5, <1>6, Zenon

-----------------------------------------------------------------------------
(* The ';' of a text, and the statement before it.                         *)
Mark(t, i) == t[i].w = ";"
NoMark(t, m, n) == \A i \in m .. n : ~Mark(t, i)
AllBlank(t, m, n) == \A i \in m .. n : t[i].w \in Blank

LEMMA FirstSemicolon ==
    ASSUME NEW t \in Seq(AnyToken), NEW p, p = FindSemicolon(t)
    PROVE  /\ p = 0 => NoMark(t, 1, Len(t))
           /\ p # 0 => p \in 1 .. Len(t) /\ Mark(t, p) /\ NoMark(t, 1, p - 1)
<1>1. DOMAIN t = 1 .. Len(t) /\ Len(t) \in Nat
  OBVIOUS
<1>2. PICK I : I = Semicolons(t)
  OBVIOUS
<1>3. \A i : i \in I <=> i \in 1 .. Len(t) /\ Mark(t, i)
  BY <1>1, <1>2, Zenon DEF Semicolons, Mark
<1>4. p = IF I = {} THEN 0 ELSE Min(I)
  BY <1>2, Zenon DEF FindSemicolon
<1>5. I \subseteq Nat
  BY <1>1, <1>3
<1>6. CASE I = {}
  <2>1. p = 0
    BY <1>4, <1>6
  <2>2. NoMark(t, 1, Len(t))
    BY <1>3, <1>6, Zenon DEF NoMark
  <2> QED
    BY <2>1, <2>2
<1>7. CASE I # {}
  <2>1. Min(I) \in I /\ \A x \in I : Min(I) <= x
    BY <1>5, <1>7, MinFacts, Zenon
  <2>2. p \in I /\ \A x \in I : p <= x
    BY <1>4, <1>7, <2>1
  <2>3. p \in 1 .. Len(t) /\ Mark(t, p)
    BY <1>3, <2>2
  <2>4. ASSUME NEW i \in 1 .. p - 1 PROVE ~Mark(t, i)
    <3>1. i \in 1 .. Len(t) /\ ~(p <= i)
      BY <1>1, <2>3
    <3> QED
      BY <1>3, <2>2, <3>1, Zenon
  <2>5. NoMark(t, 1, p - 1)
    BY <2>4, Zenon DEF NoMark
  <2>6. p # 0
    BY <2>3
  <2> QED
    BY <2>3, <2>5, <2>6
<1> QED
  BY <1>6, <1>7

LEMMA StartIs ==
    ASSUME NEW t \in Seq(AnyToken), NEW m \in 1 .. Len(t), NEW s \in 0 .. m - 1,
           s = 0 \/ Mark(t, s), NoMark(t, s + 1, m - 1)
    PROVE  Start(t, m) = s
<1>1. DOMAIN t = 1 .. Len(t) /\ Len(t) \in Nat
  OBVIOUS
<1>2. PICK I : I = {0} \cup {k \in Semicolons(t) : k < m}
  BY Zenon
<1>3. \A i : i \in I <=> i = 0 \/ (i \in 1 .. Len(t) /\ Mark(t, i) /\ i < m)
  BY <1>1, <1>2, Zenon DEF Semicolons, Mark
<1>4. I \subseteq Nat
  BY <1>1, <1>3
<1>5. s \in I
  BY <1>1, <1>3
<1>6. ASSUME NEW y \in I PROVE y <= s
  <2>1. y = 0 \/ (y \in 1 .. Len(t) /\ Mark(t, y) /\ y < m)
    BY <1>3
  <2>2. ~(y \in s + 1 .. m - 1) \/ y = 0
    BY <2>1, Zenon DEF NoMark
  <2> QED
    BY <1>1, <2>1, <2>2
<1>7. Max(I) = s
  BY <1>4, <1>5, <1>6, MaxIs, Zenon
<1> QED
  BY <1>2, <1>7, Zenon DEF Start

(* Up to its own ';' a statement does not depend on what follows. *)
LEMMA PartStays ==
    ASSUME NEW t \in Seq(AnyToken), NEW x \in Seq(AnyToken), NEW m \in 1 .. Len(t)
    PROVE  Part(t \o x, m) = Part(t, m)
<1>1. PICK u : u = t \o x
  BY Zenon
<1>2. /\ u \in Seq(AnyToken) /\ Len(u) = Len(t) + Len(x) /\ Len(t) \in Nat /\ Len(x) \in Nat
      /\ \A i \in 1 .. Len(t) : u[i] = t[i]
  BY <1>1
<1>3. {k \in Semicolons(u) : k < m} = {k \in Semicolons(t) : k < m}
  <2>1. DOMAIN t = 1 .. Len(t) /\ DOMAIN u = 1 .. Len(u)
    BY <1>2
  <2>2. ASSUME NEW k PROVE k \in Semicolons(u) /\ k < m <=> k \in Semicolons(t) /\ k < m
    <3>1. (k \in 1 .. Len(u) /\ k < m) <=> (k \in 1 .. Len(t) /\ k < m)
      BY <1>2
    <3>2. k \in Semicolons(u) <=> k \in 1 .. Len(u) /\ Mark(u, k)
      BY <2>1, Zenon DEF Semicolons, Mark
    <3>3. k \in Semicolons(t) <=> k \in 1 .. Len(t) /\ Mark(t, k)
      BY <2>1, Zenon DEF Semicolons, Mark
    <3>4. k \in 1 .. Len(t) => (Mark(u, k) <=> Mark(t, k))
      BY <1>2, Zenon DEF Mark
    <3> QED
      BY <3>1, <3>2, <3>3, <3>4, Zenon
  <2> QED
    BY <2>2, Zenon
<1>4. Start(u, m) = Start(t, m)
  BY <1>3, Zenon DEF Start
<1>5. m \in 1 .. Len(t) + 1
  BY <1>2
<1>6. PICK k \in 0 .. m - 1 : k = Start(t, m)
  BY <1>5, StartFacts, Zenon
<1>7. SubSeq(u, k + 1, m - 1) = SubSeq(t, k + 1, m - 1)
  <2>1. ASSUME NEW i \in k + 1 .. m - 1 PROVE u[i] = t[i]
    BY <1>2
  <2> QED
    BY <1>2, <2>1
<1> QED
  BY <1>1, <1>4, <1>6, <1>7, Zenon DEF Part, Start

LEMMA PartsAgree ==
    ASSUME NEW t \in Seq(AnyToken), NEW x \in Seq(AnyToken)
    PROVE  Agree(StatementParts(t), StatementParts(t \o x), Len(t))
<1>1. PICK u : u = t \o x
  BY Zenon
<1>2. /\ DOMAIN t = 1 .. Len(t) /\ \A i \in 1 .. Len(t) : u[i] = t[i] /\ i \in DOMAIN u
  BY <1>1
<1>3. ASSUME NEW m \in 1 .. Len(t) PROVE StatementParts(t)[m] = StatementParts(u)[m]
  <2>1. Part(u, m) = Part(t, m)
    BY <1>1, PartStays, Zenon
  <2>2. u[m] = t[m] /\ m \in DOMAIN t /\ m \in DOMAIN u
    BY <1>2, Zenon
  <2> QED
    BY <2>1, <2>2, Zenon DEF StatementParts
<1> QED
  BY <1>1, <1>3, Zenon DEF Agree

(* The statement main() cuts at the ';' at p, after leading blanks that    *)
(* have left the buffer.                                                   *)
LEMMA PartIs ==
    ASSUME NEW t \in Seq(AnyToken), NEW p \in 1 .. Len(t), NEW q \in 0 .. p - 1, NEW s \in 0 .. q,
           s = 0 \/ Mark(t, s), AllBlank(t, s + 1, q), NoMark(t, q + 1, p - 1),
           NEW u \in Seq(AnyToken), Len(u) = p - 1 - q,
           \A i \in 1 .. Len(u) : u[i].w = t[q + i].w
    PROVE  Part(t, p) = Text(u)
<1>1. s \in 0 .. p - 1 /\ Len(t) \in Nat
  OBVIOUS
<1>2. NoMark(t, s + 1, p - 1)
  <2>1. ASSUME NEW i \in s + 1 .. p - 1 PROVE ~Mark(t, i)
    <3>1. i \in s + 1 .. q \/ i \in q + 1 .. p - 1
      OBVIOUS
    <3>2. ";" \notin Blank
      BY DEF Blank
    <3> QED
      BY <3>1, <3>2, Zenon DEF AllBlank, NoMark, Mark
  <2> QED
    BY <2>1, Zenon DEF NoMark
<1>3. Start(t, p) = s
  BY <1>1, <1>2, StartIs, Zenon
<1>4. PICK v : v = SubSeq(t, s + 1, p - 1)
  BY Zenon
<1>5. v \in Seq(AnyToken) /\ Len(v) = p - 1 - s /\ \A i \in 1 .. p - 1 - s : v[i] = t[s + i]
  BY <1>1, <1>4
<1>6. PICK d \in Nat : d = q - s
  OBVIOUS
<1>7. Len(v) = d + Len(u)
  BY <1>5, <1>6
<1>8. ASSUME NEW i \in 1 .. d PROVE v[i].w \in Blank
  <2>1. i \in 1 .. p - 1 - s /\ s + i \in s + 1 .. q
    BY <1>6
  <2> QED
    BY <1>5, <2>1, Zenon DEF AllBlank
<1>9. ASSUME NEW i \in 1 .. Len(u) PROVE v[d + i].w = u[i].w
  <2>1. d + i \in 1 .. p - 1 - s /\ s + (d + i) = q + i
    BY <1>6
  <2>2. v[d + i] = t[q + i]
    BY <1>5, <2>1, Zenon
  <2> QED
    BY <2>2, Zenon
<1>10. Text(v) = Text(u)
  BY <1>5, <1>7, <1>8, <1>9, TextShift, Zenon
<1> QED
  BY <1>3, <1>4, <1>10, Zenon DEF Part, Start

-----------------------------------------------------------------------------
(* The buffer is what the accepted lines hold after the place q, the last  *)
(* ';' cut at or the last newline that no buffer was joined by; the blanks *)
(* since the ';' at s have left it; and done are the statements up to q.   *)
Reached(W, b, q, s) ==
    /\ q \in 0 .. Len(W) /\ s \in 0 .. q /\ (s = 0 \/ Mark(W, s)) /\ AllBlank(W, s + 1, q)
    /\ Len(W) = q + Len(b) /\ \A i \in 1 .. Len(b) : b[i].w = W[q + i].w
CutUpTo(W, q, done) ==
    \E f \in [0 .. Len(W) -> Seq(Seq(Word))] :
      IsBuilt(StatementParts(W), Len(W), f) /\ done = f[q]
Cut(W, b, done) == \E q, s : Reached(W, b, q, s) /\ CutUpTo(W, q, done)

LEMMA StatementsBuilt ==
    ASSUME NEW W \in Seq(AnyToken)
    PROVE  \E f \in [0 .. Len(W) -> Seq(Seq(Word))] :
             IsBuilt(StatementParts(W), Len(W), f) /\ Statements(W) = f[Len(W)]
<1>1. PICK parts \in Seq(Seq(Seq(Word))) : parts = StatementParts(W) /\ Len(parts) = Len(W)
  BY StatementFacts, Zenon
<1>2. \E f \in [0 .. Len(parts) -> Seq(Seq(Word))] :
         IsBuilt(parts, Len(parts), f) /\ Appended(parts) = f[Len(parts)]
  BY <1>1, AppendedBuilt, Zenon
<1>3. Statements(W) = Appended(parts)
  BY <1>1, StatementFacts, Zenon
<1> QED
  BY <1>1, <1>2, <1>3, Zenon

(* The statements up to q stay when text is added. *)
LEMMA CutUpToStays ==
    ASSUME NEW W \in Seq(AnyToken), NEW x \in Seq(AnyToken), NEW q \in 0 .. Len(W), NEW done,
           CutUpTo(W, q, done)
    PROVE  CutUpTo(W \o x, q, done)
<1>1. PICK U : U = W \o x
  BY Zenon
<1>2. U \in Seq(AnyToken) /\ Len(U) \in Nat /\ Len(W) \in Nat /\ Len(W) <= Len(U)
  BY <1>1
<1>3. PICK f : IsBuilt(StatementParts(W), Len(W), f) /\ done = f[q]
  BY Zenon DEF CutUpTo
<1>4. PICK g \in [0 .. Len(U) -> Seq(Seq(Word))] : IsBuilt(StatementParts(U), Len(U), g)
  BY <1>2, StatementsBuilt, Zenon
<1>5. IsBuilt(StatementParts(U), Len(W), g)
  <2>1. 1 .. Len(W) \subseteq 1 .. Len(U)
    BY <1>2
  <2> QED
    BY <1>4, <2>1, Zenon DEF IsBuilt
<1>6. Agree(StatementParts(W), StatementParts(U), Len(W))
  BY <1>1, PartsAgree, Zenon
<1>7. SameUpTo(f, g, Len(W))
  BY <1>2, <1>3, <1>5, <1>6, BuiltAgree, Zenon
<1>8. done = g[q]
  BY <1>3, <1>7, Zenon DEF SameUpTo
<1> QED
  BY <1>1, <1>4, <1>8, Zenon DEF CutUpTo

(* A part with nothing in it. *)
LEMMA EmptyPart ==
    ASSUME NEW W \in Seq(AnyToken), NEW m \in 1 .. Len(W), ~Mark(W, m)
    PROVE  StatementParts(W)[m] = << >>
<1>1. m \in DOMAIN W
  OBVIOUS
<1> QED
  BY <1>1, Zenon DEF StatementParts, Mark

LEMMA CutUpToFurther ==
    ASSUME NEW W \in Seq(AnyToken), NEW q \in 0 .. Len(W), NEW n \in q .. Len(W), NEW done,
           NoMark(W, q + 1, n), CutUpTo(W, q, done)
    PROVE  CutUpTo(W, n, done)
<1>1. PICK f \in [0 .. Len(W) -> Seq(Seq(Word))] : IsBuilt(StatementParts(W), Len(W), f) /\ done = f[q]
  BY Zenon DEF CutUpTo
<1>2. Len(W) \in Nat
  OBVIOUS
<1>3. Empty(StatementParts(W), q, n)
  <2>1. ASSUME NEW i \in q + 1 .. n PROVE StatementParts(W)[i] = << >>
    <3>1. i \in 1 .. Len(W)
      BY <1>2
    <3>2. ~Mark(W, i)
      BY Zenon DEF NoMark
    <3> QED
      BY <3>1, <3>2, EmptyPart, Zenon
  <2> QED
    BY <2>1, Zenon DEF Empty
<1>4. Stays(f, q, n)
  BY <1>1, <1>2, <1>3, BuiltStays, Zenon
<1> QED
  BY <1>1, <1>4, Zenon DEF CutUpTo, Stays

-----------------------------------------------------------------------------
(* The lines joined.                                                       *)
NL == <<[w |-> "nl", e |-> 0]>>
WholeParts(ls) == [i \in DOMAIN ls |-> IF i = 1 THEN ls[i] ELSE NL \o ls[i]]

LEMMA NewLineTyped == NL \in Seq(AnyToken) /\ Len(NL) = 1 /\ NL[1].w = "nl"
<1>1. "nl" \in Word
  BY DEF Word, Blank
<1> QED
  BY <1>1 DEF NL, AnyToken

LEMMA WholeFacts ==
    ASSUME NEW ls \in Seq(Seq(AnyToken))
    PROVE  /\ WholeParts(ls) \in Seq(Seq(AnyToken)) /\ Len(WholeParts(ls)) = Len(ls)
           /\ Whole(ls) = Appended(WholeParts(ls)) /\ Whole(ls) \in Seq(AnyToken)
<1> DEFINE part(i) == IF i = 1 THEN ls[i] ELSE NL \o ls[i]
<1>1. PICK S : S = Seq(AnyToken)
  BY Zenon
<1>2. ASSUME NEW i \in 1 .. Len(ls) PROVE part(i) \in S
  <2>1. ls[i] \in Seq(AnyToken)
    OBVIOUS
  <2>2. NL \in Seq(AnyToken)
    BY NewLineTyped
  <2>3. PICK a \in Seq(AnyToken), b \in Seq(AnyToken) : a = NL /\ b = ls[i]
    BY <2>1, <2>2, Zenon
  <2>4. a \o b \in Seq(AnyToken)
    OBVIOUS
  <2> QED
    BY <1>1, <2>1, <2>3, <2>4, Zenon
<1>3. DOMAIN ls = 1 .. Len(ls) /\ Len(ls) \in Nat
  OBVIOUS
<1>4. WholeParts(ls) = [i \in 1 .. Len(ls) |-> part(i)]
  BY <1>3, Zenon DEF WholeParts
<1> HIDE DEF part
<1>5. [i \in 1 .. Len(ls) |-> part(i)] \in Seq(S) /\ Len([i \in 1 .. Len(ls) |-> part(i)]) = Len(ls)
  BY <1>2, <1>3
<1>6. WholeParts(ls) \in Seq(Seq(AnyToken)) /\ Len(WholeParts(ls)) = Len(ls)
  BY <1>1, <1>4, <1>5, Zenon
<1>7. Whole(ls) = Appended(WholeParts(ls))
  BY Zenon DEF Whole, WholeParts, NL
<1>8. Appended(WholeParts(ls)) \in Seq(AnyToken)
  BY <1>6, AppendedTyped, Zenon
<1> QED
  BY <1>6, <1>7, <1>8, Zenon

LEMMA WholeNothing == Whole(<< >>) = << >>
<1>1. << >> \in Seq(Seq(AnyToken)) /\ Len(<< >>) = 0
  OBVIOUS
<1>2. PICK a \in Seq(Seq(AnyToken)) : a = WholeParts(<< >>) /\ Len(a) = 0
  BY <1>1, WholeFacts, Zenon
<1>3. a = << >>
  BY <1>2
<1> QED
  BY <1>1, <1>2, <1>3, WholeFacts, AppendedNothing, Zenon

LEMMA WholeNext ==
    ASSUME NEW ls \in Seq(Seq(AnyToken)), NEW l \in Seq(AnyToken)
    PROVE  /\ ls = << >> => Whole(Append(ls, l)) = l
           /\ ls # << >> => Whole(Append(ls, l)) = Whole(ls) \o (NL \o l)
<1>1. PICK S : S = Seq(AnyToken)
  BY Zenon
<1>2. PICK more : more = Append(ls, l)
  BY Zenon
<1>3. /\ more \in Seq(S) /\ Len(more) = Len(ls) + 1 /\ Len(ls) \in Nat
      /\ DOMAIN ls = 1 .. Len(ls) /\ DOMAIN more = 1 .. Len(ls) + 1
      /\ more[Len(ls) + 1] = l /\ \A i \in 1 .. Len(ls) : more[i] = ls[i]
  BY <1>1, <1>2
<1>4. PICK x : x = IF ls = << >> THEN l ELSE NL \o l
  BY Zenon
<1>5. x \in Seq(AnyToken)
  <2>1. PICK n \in Seq(AnyToken) : n = NL
    BY NewLineTyped, Zenon
  <2>2. n \o l \in Seq(AnyToken)
    OBVIOUS
  <2> QED
    BY <1>4, <2>1, <2>2, Zenon
<1>6. PICK a \in Seq(S), b \in Seq(S) : a = WholeParts(ls) /\ b = WholeParts(more) /\ Len(a) = Len(ls) /\ Len(b) = Len(more)
  BY <1>1, <1>3, WholeFacts, Zenon
<1>7. ASSUME NEW i \in 1 .. Len(ls) PROVE b[i] = a[i]
  <2>1. i \in DOMAIN ls /\ i \in DOMAIN more /\ more[i] = ls[i]
    BY <1>3
  <2> QED
    BY <1>6, <2>1, Zenon DEF WholeParts
<1>8. b[Len(ls) + 1] = x
  <2>1. Len(ls) + 1 \in DOMAIN more /\ (Len(ls) + 1 = 1 <=> ls = << >>)
    BY <1>3
  <2>2. b[Len(ls) + 1] = IF Len(ls) + 1 = 1 THEN more[Len(ls) + 1] ELSE NL \o more[Len(ls) + 1]
    BY <1>6, <2>1, Zenon DEF WholeParts
  <2> QED
    BY <1>3, <1>4, <2>1, <2>2, Zenon
<1>9. b = Append(a, x)
  <2>1. x \in S
    BY <1>1, <1>5, Zenon
  <2> QED
    BY <1>3, <1>6, <1>7, <1>8, <2>1
<1>10. Whole(more) = Whole(ls) \o x
  <2>1. Appended(Append(a, x)) = Appended(a) \o x
    BY <1>1, <1>5, AppendedNext, Zenon
  <2> QED
    BY <1>1, <1>3, <1>6, <1>9, <2>1, WholeFacts, Zenon
<1>11. << >> \o l = l
  OBVIOUS
<1> QED
  BY <1>2, <1>4, <1>10, <1>11, WholeNothing, Zenon

(* What Joined makes of the buffer and a line. *)
HasWords(j, b, l) ==
    /\ j \in Seq(AnyToken) /\ Len(j) = Len(b) + 1 + Len(l)
    /\ \A i \in 1 .. Len(b) : j[i].w = b[i].w
    /\ j[Len(b) + 1].w = "nl"
    /\ \A i \in 1 .. Len(l) : j[Len(b) + 1 + i].w = l[i].w

LEMMA JoinedWords ==
    ASSUME NEW b \in Seq(AnyToken), NEW l \in Seq(AnyToken), b # << >>
    PROVE  HasWords(Joined(b, l), b, l)
<1>1. PICK n \in AnyToken : n = NewLine(b) /\ n.w = "nl"
  <2>1. Len(b) \in 1 .. Len(b)
    OBVIOUS
  <2>2. b[Len(b)] \in AnyToken
    BY <2>1, WordFacts, Zenon
  <2>3. b[Len(b)].e \in Nat
    BY <2>2 DEF AnyToken
  <2>4. "nl" \in Word
    BY DEF Word, Blank
  <2>5. [w |-> "nl", e |-> b[Len(b)].e] \in AnyToken
    BY <2>3, <2>4, Zenon DEF AnyToken
  <2> QED
    BY <2>5, Zenon DEF NewLine, Last
<1>2. PICK j : j = Append(b, n) \o l
  BY Zenon
<1>3. Joined(b, l) = j
  BY <1>1, <1>2, Zenon DEF Joined
<1>4. /\ j \in Seq(AnyToken) /\ Len(j) = Len(b) + 1 + Len(l)
      /\ j[Len(b) + 1] = n
      /\ \A i \in 1 .. Len(b) : j[i] = b[i]
      /\ \A i \in 1 .. Len(l) : j[Len(b) + 1 + i] = l[i]
  BY <1>2
<1>5. HasWords(j, b, l)
  BY <1>1, <1>4, Zenon DEF HasWords
<1> QED
  BY <1>3, <1>5, Zenon

-----------------------------------------------------------------------------
(* The steps of the loop: a line is appended, a statement is cut.          *)
LEMMA CutAtStart ==
    ASSUME NEW l \in Seq(AnyToken)
    PROVE  Cut(l, l, << >>)
<1>1. Len(l) \in Nat /\ 0 \in 0 .. Len(l) /\ 0 \in 0 .. 0 /\ Len(l) = 0 + Len(l)
  OBVIOUS
<1>2. AllBlank(l, 0 + 1, 0)
  <2>1. 0 + 1 .. 0 = {}
    OBVIOUS
  <2> QED
    BY <2>1, Zenon DEF AllBlank
<1>3. \A i \in 1 .. Len(l) : l[i].w = l[0 + i].w
  <2>1. ASSUME NEW i \in 1 .. Len(l) PROVE 0 + i = i
    OBVIOUS
  <2> QED
    BY <2>1, Zenon
<1>4. Reached(l, l, 0, 0)
  BY <1>1, <1>2, <1>3, Zenon DEF Reached
<1>5. CutUpTo(l, 0, << >>)
  BY StatementsBuilt, Zenon DEF CutUpTo, IsBuilt
<1> QED
  BY <1>4, <1>5, Zenon DEF Cut

LEMMA CutJoined ==
    ASSUME NEW W \in Seq(AnyToken), NEW b \in Seq(AnyToken), NEW l \in Seq(AnyToken), NEW done,
           Cut(W, b, done)
    PROVE  Cut(W \o (NL \o l), Joined(b, l), done)
<1>1. PICK q, s : Reached(W, b, q, s) /\ CutUpTo(W, q, done)
  BY Zenon DEF Cut
<1>2. /\ q \in 0 .. Len(W) /\ s \in 0 .. q /\ (s = 0 \/ Mark(W, s)) /\ AllBlank(W, s + 1, q)
      /\ Len(W) = q + Len(b) /\ \A i \in 1 .. Len(b) : b[i].w = W[q + i].w
  BY <1>1, Zenon DEF Reached
<1>3. PICK n \in Seq(AnyToken) : n = NL /\ Len(n) = 1 /\ n[1].w = "nl"
  BY NewLineTyped, Zenon
<1>4. PICK x : x = n \o l
  BY Zenon
<1>5. x \in Seq(AnyToken) /\ Len(x) = 1 + Len(l) /\ x[1] = n[1] /\ \A i \in 1 .. Len(l) : x[1 + i] = l[i]
  <2>1. /\ n \o l \in Seq(AnyToken) /\ Len(n \o l) = Len(n) + Len(l)
        /\ \A i \in 1 .. Len(n) : (n \o l)[i] = n[i]
        /\ \A i \in 1 .. Len(l) : (n \o l)[Len(n) + i] = l[i]
    BY Concatenated
  <2>2. 1 \in 1 .. Len(n)
    BY <1>3
  <2>3. x[1] = n[1]
    BY <1>4, <2>1, <2>2, Zenon
  <2> QED
    BY <1>3, <1>4, <2>1, <2>3, Zenon
<1>6. PICK U : U = W \o x
  BY Zenon
<1>7. /\ U \in Seq(AnyToken) /\ Len(U) = Len(W) + Len(x) /\ Len(W) \in Nat /\ Len(l) \in Nat
      /\ \A i \in 1 .. Len(W) : U[i] = W[i]
      /\ \A i \in 1 .. Len(x) : U[Len(W) + i] = x[i]
  <2>1. x \in Seq(AnyToken)
    BY <1>5
  <2>2. Len(W) \in Nat /\ Len(l) \in Nat
    OBVIOUS
  <2>3. /\ W \o x \in Seq(AnyToken) /\ Len(W \o x) = Len(W) + Len(x)
        /\ \A i \in 1 .. Len(W) : (W \o x)[i] = W[i]
        /\ \A i \in 1 .. Len(x) : (W \o x)[Len(W) + i] = x[i]
    BY <2>1, Concatenated
  <2> QED
    BY <1>6, <2>2, <2>3, Zenon
<1>n. /\ q \in 0 .. Len(W) /\ s \in 0 .. q /\ Len(W) = q + Len(b) /\ Len(U) = Len(W) + (1 + Len(l))
      /\ Len(W) \in Nat /\ Len(l) \in Nat /\ Len(b) \in Nat
  <2>1. Len(W) \in Nat /\ Len(l) \in Nat /\ Len(b) \in Nat
    OBVIOUS
  <2> QED
    BY <1>2, <1>5, <1>7, <2>1, Zenon
<1>8. U[Len(W) + 1].w = "nl"
  <2>1. 1 \in 1 .. Len(x)
    BY <1>5, <1>7
  <2> QED
    BY <1>3, <1>5, <1>7, <2>1, Zenon
<1>9. ASSUME NEW i \in 1 .. Len(l) PROVE U[Len(W) + 1 + i].w = l[i].w
  <2>1. 1 + i \in 1 .. Len(x) /\ Len(W) + (1 + i) = Len(W) + 1 + i
    BY <1>5, <1>7
  <2>2. U[Len(W) + (1 + i)] = x[1 + i] /\ x[1 + i] = l[i]
    BY <1>5, <1>7, <2>1, Zenon
  <2> QED
    BY <2>1, <2>2, Zenon
<1>10. s = 0 \/ Mark(U, s)
  <2>1. s = 0 \/ s \in 1 .. Len(W)
    BY <1>2, <1>7
  <2> QED
    BY <1>2, <1>7, <2>1, Zenon DEF Mark
<1>11. AllBlank(U, s + 1, q)
  <2>1. s + 1 .. q \subseteq 1 .. Len(W)
    BY <1>2, <1>7
  <2> QED
    BY <1>2, <1>7, <2>1, Zenon DEF AllBlank
<1>12. CutUpTo(U, q, done)
  BY <1>1, <1>2, <1>5, <1>6, CutUpToStays, Zenon
<1>13. CASE b = << >>
  <2>1. Joined(b, l) = l
    BY <1>13, Zenon DEF Joined
  <2>2. q = Len(W) /\ q \in Nat
    BY <1>2, <1>7, <1>13
  <2>3. q + 1 \in 0 .. Len(U) /\ q + 1 \in q .. Len(U) /\ s \in 0 .. q + 1
        /\ Len(U) = q + 1 + Len(l) /\ q \in 0 .. Len(U) /\ q + 1 \in Nat
    <3>1. PICK k \in Nat, w \in Nat : k = Len(l) /\ w = Len(U) /\ w = q + (1 + k)
      <4>1. PICK k \in Nat : k = Len(l)
        BY <1>n, Zenon
      <4>2. PICK w : w = q + (1 + k)
        BY Zenon
      <4>3. w \in Nat
        BY <2>2, <4>2
      <4>4. w = Len(U)
        BY <1>n, <2>2, <4>1, <4>2, Zenon
      <4> QED
        BY <4>1, <4>2, <4>3, <4>4, Zenon
    <3>2. q \in Nat /\ s \in 0 .. q /\ w = q + (1 + k)
      BY <1>n, <2>2, <3>1, Zenon
    <3>3. q + 1 \in 0 .. w /\ q + 1 \in q .. w /\ s \in 0 .. q + 1 /\ w = q + 1 + k /\ q \in 0 .. w /\ q + 1 \in Nat
      BY <3>2
    <3> QED
      BY <3>1, <3>3, Zenon
  <2>4. U[q + 1].w = "nl"
    BY <1>8, <2>2, Zenon
  <2>5. AllBlank(U, s + 1, q + 1)
    <3>1. ASSUME NEW i \in s + 1 .. q + 1 PROVE U[i].w \in Blank
      <4>1. i \in s + 1 .. q \/ i = q + 1
        BY <1>n
      <4>2. "nl" \in Blank
        BY DEF Blank
      <4> QED
        BY <1>11, <2>4, <4>1, <4>2, Zenon DEF AllBlank
    <3> QED
      BY <3>1, Zenon DEF AllBlank
  <2>6. NoMark(U, q + 1, q + 1)
    <3>1. ASSUME NEW i \in q + 1 .. q + 1 PROVE i = q + 1
      BY <2>2
    <3>2. "nl" # ";"
      OBVIOUS
    <3> QED
      BY <2>4, <3>1, <3>2, Zenon DEF NoMark, Mark
  <2>7. CutUpTo(U, q + 1, done)
    BY <1>7, <1>12, <2>3, <2>6, CutUpToFurther, Zenon
  <2>8. ASSUME NEW i \in 1 .. Len(l) PROVE l[i].w = U[q + 1 + i].w
    BY <1>9, <2>2, Zenon
  <2>9. Reached(U, l, q + 1, s)
    BY <1>10, <2>3, <2>5, <2>8, Zenon DEF Reached
  <2> QED
    BY <1>3, <1>4, <1>6, <2>1, <2>7, <2>9, Zenon DEF Cut
<1>14. CASE b # << >>
  <2>1. PICK j : j = Joined(b, l)
    BY Zenon
  <2>2. /\ j \in Seq(AnyToken) /\ Len(j) = Len(b) + 1 + Len(l)
        /\ \A i \in 1 .. Len(b) : j[i].w = b[i].w
        /\ j[Len(b) + 1].w = "nl"
        /\ \A i \in 1 .. Len(l) : j[Len(b) + 1 + i].w = l[i].w
    <3>1. HasWords(j, b, l)
      BY <1>14, <2>1, JoinedWords, Zenon
    <3> QED
      BY <3>1, Zenon DEF HasWords
  <2>3. Len(b) \in Nat /\ q \in 0 .. Len(U) /\ Len(U) = q + Len(j)
    <3>1. Len(j) = Len(b) + 1 + Len(l)
      BY <2>2
    <3> QED
      BY <1>n, <3>1
  <2>4. Len(j) = Len(b) + 1 + Len(l)
    BY <2>2
  <2>5. ASSUME NEW i \in 1 .. Len(j) PROVE j[i].w = U[q + i].w
    <3>1. CASE i \in 1 .. Len(b)
      <4>1. q + i \in 1 .. Len(W)
        BY <1>2, <2>3, <3>1
      <4>2. U[q + i] = W[q + i]
        BY <1>7, <4>1, Zenon
      <4> QED
        BY <1>2, <2>2, <3>1, <4>2, Zenon
    <3>2. CASE i = Len(b) + 1
      <4>1. q + i = Len(W) + 1
        BY <1>2, <2>3, <3>2
      <4> QED
        BY <1>8, <2>2, <3>2, <4>1, Zenon
    <3>3. CASE i > Len(b) + 1
      <4>1. PICK k \in 1 .. Len(l) : i = Len(b) + 1 + k
        <5>1. i - (Len(b) + 1) \in 1 .. Len(l) /\ i = Len(b) + 1 + (i - (Len(b) + 1))
          BY <1>n, <2>4, <3>3
        <5> QED
          BY <5>1, Zenon
      <4>2. q + i = Len(W) + 1 + k
        BY <1>2, <2>3, <4>1
      <4>3. j[i].w = l[k].w
        BY <2>2, <4>1, Zenon
      <4>4. U[q + i].w = l[k].w
        BY <1>9, <4>2, Zenon
      <4> QED
        BY <4>3, <4>4, Zenon
    <3>4. i \in 1 .. Len(b) \/ i = Len(b) + 1 \/ i > Len(b) + 1
      BY <1>n, <2>4
    <3> QED
      BY <3>1, <3>2, <3>3, <3>4, Zenon
  <2>6. Reached(U, j, q, s)
    BY <1>2, <1>10, <1>11, <2>3, <2>5, Zenon DEF Reached
  <2> QED
    BY <1>3, <1>4, <1>6, <1>12, <2>1, <2>6, Zenon DEF Cut
<1> QED
  BY <1>13, <1>14, Zenon

(* One more statement is built at the ';' where it is cut. *)
LEMMA CutUpToMark ==
    ASSUME NEW W \in Seq(AnyToken), NEW p \in 1 .. Len(W), NEW done, Mark(W, p),
           CutUpTo(W, p - 1, done)
    PROVE  /\ done \in Seq(Seq(Word))
           /\ Part(W, p) = << >> => CutUpTo(W, p, done)
           /\ Part(W, p) # << >> => CutUpTo(W, p, done \o <<Part(W, p)>>)
<1>1. PICK f \in [0 .. Len(W) -> Seq(Seq(Word))] :
         IsBuilt(StatementParts(W), Len(W), f) /\ done = f[p - 1]
  BY Zenon DEF CutUpTo
<1>2. p - 1 \in 0 .. Len(W) /\ p \in DOMAIN W
  OBVIOUS
<1>3. done \in Seq(Seq(Word))
  BY <1>1, <1>2, Zenon
<1>4. f[p] = done \o StatementParts(W)[p]
  BY <1>1, Zenon DEF IsBuilt
<1>5. StatementParts(W)[p] = IF Part(W, p) # << >> THEN <<Part(W, p)>> ELSE << >>
  BY <1>2, Zenon DEF StatementParts, Mark
<1>6. done \o << >> = done
  BY <1>3
<1>7. Part(W, p) = << >> => f[p] = done
  BY <1>4, <1>5, <1>6, Zenon
<1>8. Part(W, p) # << >> => f[p] = done \o <<Part(W, p)>>
  BY <1>4, <1>5, Zenon
<1> QED
  BY <1>1, <1>3, <1>7, <1>8, Zenon DEF CutUpTo

(* The place m of the whole text is the place p of the buffer. *)
Placed(N, n, q, p, m) ==
    /\ m \in 1 .. N /\ m \in 0 .. N /\ q \in 0 .. m - 1 /\ m - 1 \in q .. N
    /\ p - 1 = m - 1 - q /\ n - p \in Nat /\ N = m + (n - p)
    /\ p - 1 \in Nat /\ m \in 0 .. m /\ m - 1 \in 0 .. N
    /\ \A i \in 1 .. n - p : p + i \in 1 .. n /\ q + (p + i) = m + i

LEMMA PlaceFacts ==
    ASSUME NEW N \in Nat, NEW n \in Nat, NEW q \in 0 .. N, N = q + n, NEW p \in 1 .. n, NEW m, m = q + p
    PROVE  Placed(N, n, q, p, m)
<1>1. /\ m \in 1 .. N /\ m \in 0 .. N /\ q \in 0 .. m - 1 /\ m - 1 \in q .. N
      /\ p - 1 = m - 1 - q /\ n - p \in Nat
  OBVIOUS
<1>2. N = m + (n - p) /\ p - 1 \in Nat /\ m \in 0 .. m /\ m - 1 \in 0 .. N
  OBVIOUS
<1>3. ASSUME NEW i \in 1 .. n - p PROVE p + i \in 1 .. n /\ q + (p + i) = m + i
  OBVIOUS
<1> QED
  BY <1>1, <1>2, <1>3, Zenon DEF Placed

LEMMA RestFacts ==
    ASSUME NEW C, NEW b \in Seq(C), NEW p \in 1 .. Len(b)
    PROVE  /\ SubSeq(b, p + 1, Len(b)) \in Seq(C) /\ Len(SubSeq(b, p + 1, Len(b))) = Len(b) - p
           /\ \A i \in 1 .. Len(b) - p : SubSeq(b, p + 1, Len(b))[i] = b[p + i]
<1>1. PICK n \in Nat : n = Len(b)
  OBVIOUS
<1>2. \A i \in p + 1 .. n : i \in 1 .. n
  BY <1>1
<1>3. SubSeq(b, p + 1, n) \in Seq(C)
  BY <1>1, <1>2
<1>4. Len(SubSeq(b, p + 1, n)) = n - p
  BY <1>1, <1>2
<1>5. ASSUME NEW i \in 1 .. n - p PROVE SubSeq(b, p + 1, n)[i] = b[p + i]
  BY <1>1, <1>2
<1> QED
  BY <1>1, <1>3, <1>4, <1>5, Zenon

LEMMA CutSplit ==
    ASSUME NEW W \in Seq(AnyToken), NEW b \in Seq(AnyToken), NEW done, Cut(W, b, done),
           NEW p, p = FindSemicolon(b), p # 0,
           NEW u, u = SubSeq(b, 1, p - 1), NEW rest, rest = SubSeq(b, p + 1, Len(b))
    PROVE  /\ done \in Seq(Seq(Word))
           /\ Text(u) = << >> => Cut(W, rest, done)
           /\ Text(u) # << >> => Cut(W, rest, done \o <<Text(u)>>)
<1>1. PICK q, s : Reached(W, b, q, s) /\ CutUpTo(W, q, done)
  BY Zenon DEF Cut
<1>2. /\ q \in 0 .. Len(W) /\ s \in 0 .. q /\ (s = 0 \/ Mark(W, s)) /\ AllBlank(W, s + 1, q)
      /\ Len(W) = q + Len(b) /\ \A i \in 1 .. Len(b) : b[i].w = W[q + i].w
  BY <1>1, Zenon DEF Reached
<1>3. p \in 1 .. Len(b) /\ Mark(b, p) /\ NoMark(b, 1, p - 1)
  BY FirstSemicolon, Zenon
<1>4. Len(W) \in Nat /\ Len(b) \in Nat
  OBVIOUS
<1>5. /\ q \in 0 .. Len(W) /\ s \in 0 .. q /\ Len(W) = q + Len(b) /\ p \in 1 .. Len(b)
  BY <1>2, <1>3, Zenon
<1>6. PICK m : m = q + p
  BY Zenon
<1>7. /\ m \in 1 .. Len(W) /\ m \in 0 .. Len(W) /\ q \in 0 .. m - 1 /\ m - 1 \in q .. Len(W)
      /\ p - 1 = m - 1 - q /\ Len(b) - p \in Nat /\ Len(W) = m + (Len(b) - p)
      /\ p - 1 \in Nat /\ m \in 0 .. m /\ m - 1 \in 0 .. Len(W)
      /\ \A i \in 1 .. Len(b) - p : p + i \in 1 .. Len(b) /\ q + (p + i) = m + i
  <2>1. Placed(Len(W), Len(b), q, p, m)
    BY <1>4, <1>5, <1>6, PlaceFacts, Zenon
  <2> QED
    BY <2>1, Zenon DEF Placed
<1>8. /\ u \in Seq(AnyToken) /\ Len(u) = p - 1 /\ \A i \in 1 .. p - 1 : u[i] = b[i]
  BY <1>4, <1>3
<1>9. /\ rest \in Seq(AnyToken) /\ Len(rest) = Len(b) - p
      /\ \A i \in 1 .. Len(b) - p : rest[i] = b[p + i]
  BY <1>3, RestFacts, Zenon
<1>10. Mark(W, m)
  BY <1>2, <1>3, <1>6, Zenon DEF Mark
<1>11. NoMark(W, q + 1, m - 1)
  <2>1. ASSUME NEW i \in q + 1 .. m - 1 PROVE ~Mark(W, i)
    <3>1. PICK k \in 1 .. p - 1 : i = q + k
      <4>1. i - q \in 1 .. p - 1 /\ i = q + (i - q)
        BY <1>5, <1>6
      <4> QED
        BY <4>1, Zenon
    <3>2. k \in 1 .. Len(b)
      BY <1>4, <1>5
    <3> QED
      BY <1>2, <1>3, <3>1, <3>2, Zenon DEF NoMark, Mark
  <2> QED
    BY <2>1, Zenon DEF NoMark
<1>12. Part(W, m) = Text(u)
  <2>1. Len(u) = m - 1 - q
    BY <1>7, <1>8, Zenon
  <2>2. ASSUME NEW i \in 1 .. Len(u) PROVE u[i].w = W[q + i].w
    <3>1. i \in 1 .. p - 1
      BY <1>8, Zenon
    <3>2. i \in 1 .. Len(b)
      BY <1>4, <1>5, <3>1
    <3> QED
      BY <1>2, <1>8, <3>1, <3>2, Zenon
  <2> QED
    BY <1>2, <1>7, <1>8, <1>11, <2>1, <2>2, PartIs, Zenon
<1>13. CutUpTo(W, m - 1, done)
  BY <1>1, <1>5, <1>7, <1>11, CutUpToFurther, Zenon
<1>14. /\ done \in Seq(Seq(Word))
       /\ Part(W, m) = << >> => CutUpTo(W, m, done)
       /\ Part(W, m) # << >> => CutUpTo(W, m, done \o <<Part(W, m)>>)
  BY <1>7, <1>10, <1>13, CutUpToMark, Zenon
<1>15. Reached(W, rest, m, m)
  <2>1. AllBlank(W, m + 1, m)
    <3>1. m + 1 .. m = {}
      BY <1>7
    <3> QED
      BY <3>1, Zenon DEF AllBlank
  <2>2. ASSUME NEW i \in 1 .. Len(rest) PROVE rest[i].w = W[m + i].w
    <3>1. i \in 1 .. Len(b) - p
      BY <1>9, Zenon
    <3>2. p + i \in 1 .. Len(b) /\ q + (p + i) = m + i
      BY <1>7, <3>1, Zenon
    <3>3. b[p + i].w = W[q + (p + i)].w
      BY <1>2, <3>2, Zenon
    <3> QED
      BY <1>9, <3>1, <3>2, <3>3, Zenon
  <2>3. Len(W) = m + Len(rest)
    BY <1>7, <1>9, Zenon
  <2> QED
    BY <1>7, <1>10, <2>1, <2>2, <2>3, Zenon DEF Reached
<1> QED
  BY <1>12, <1>14, <1>15, Zenon DEF Cut

(* What has been executed is the beginning of the statements, and all of   *)
(* them once the buffer holds no ';'.                                      *)
LEMMA CutMeans ==
    ASSUME NEW W \in Seq(AnyToken), NEW b \in Seq(AnyToken), NEW done, Cut(W, b, done)
    PROVE  IsPrefix(done, Statements(W)) /\ (FindSemicolon(b) = 0 => done = Statements(W))
<1>1. PICK q, s : Reached(W, b, q, s) /\ CutUpTo(W, q, done)
  BY Zenon DEF Cut
<1>2. /\ q \in 0 .. Len(W) /\ Len(W) = q + Len(b) /\ \A i \in 1 .. Len(b) : b[i].w = W[q + i].w
  BY <1>1, Zenon DEF Reached
<1>3. PICK f \in [0 .. Len(W) -> Seq(Seq(Word))] : IsBuilt(StatementParts(W), Len(W), f) /\ done = f[q]
  BY <1>1, Zenon DEF CutUpTo
<1>4. PICK g : IsBuilt(StatementParts(W), Len(W), g) /\ Statements(W) = g[Len(W)]
  BY StatementsBuilt, Zenon
<1>5. Len(W) \in Nat /\ Len(W) \in 0 .. Len(W) /\ Len(b) \in Nat
  OBVIOUS
<1>6. Agree(StatementParts(W), StatementParts(W), Len(W))
  BY Zenon DEF Agree
<1>7. SameUpTo(f, g, Len(W))
  BY <1>3, <1>4, <1>5, <1>6, BuiltAgree, Zenon
<1>8. Statements(W) = f[Len(W)]
  BY <1>4, <1>5, <1>7, Zenon DEF SameUpTo
<1>9. IsPrefix(done, Statements(W))
  <2>1. PICK parts \in Seq(Seq(Seq(Word))) : parts = StatementParts(W) /\ Len(parts) = Len(W)
    BY StatementFacts, Zenon
  <2>2. PICK S : S = Seq(Seq(Word))
    BY Zenon
  <2>3. parts \in [1 .. Len(W) -> S]
    BY <2>1, <2>2
  <2>4. IsPrefixOf(f[q], f[Len(W)])
    BY <1>2, <1>3, <1>5, <2>1, <2>2, <2>3, BuiltGrows, Zenon
  <2>5. PICK x \in Seq(Seq(Word)), y \in Seq(Seq(Word)) : x = f[q] /\ y = f[Len(W)] /\ IsPrefixOf(x, y)
    BY <1>2, <1>3, <1>5, <2>4, Zenon
  <2>6. Len(x) <= Len(y) /\ x = SubSeq(y, 1, Len(x))
    BY <2>5 DEF IsPrefixOf
  <2> QED
    BY <1>3, <1>8, <2>5, <2>6, Zenon DEF IsPrefix
<1>10. ASSUME FindSemicolon(b) = 0 PROVE done = Statements(W)
  <2>1. NoMark(b, 1, Len(b))
    BY <1>10, FirstSemicolon, Zenon
  <2>2. NoMark(W, q + 1, Len(W))
    <3>1. ASSUME NEW i \in q + 1 .. Len(W) PROVE ~Mark(W, i)
      <4>1. PICK k \in 1 .. Len(b) : i = q + k
        <5>1. i - q \in 1 .. Len(b) /\ i = q + (i - q)
          BY <1>2, <1>5
        <5> QED
          BY <5>1, Zenon
      <4> QED
        BY <1>2, <2>1, <4>1, Zenon DEF NoMark, Mark
    <3> QED
      BY <3>1, Zenon DEF NoMark
  <2>3. Len(W) \in q .. Len(W)
    BY <1>2, <1>5
  <2>4. CutUpTo(W, Len(W), done)
    BY <1>1, <1>2, <2>2, <2>3, CutUpToFurther, Zenon
  <2>5. PICK h : IsBuilt(StatementParts(W), Len(W), h) /\ done = h[Len(W)]
    BY <2>4, Zenon DEF CutUpTo
  <2>6. SameUpTo(h, g, Len(W))
    BY <1>4, <1>5, <1>6, <2>5, BuiltAgree, Zenon
  <2> QED
    BY <1>4, <1>5, <2>5, <2>6, Zenon DEF SameUpTo
<1> QED
  BY <1>9, <1>10, Zenon

-----------------------------------------------------------------------------
(* The loop of main() keeps what it executes in step with what was typed.  *)
Texts(statements) == [i \in DOMAIN statements |-> Text(statements[i])]
CutInv == Cut(Whole(accepted), statement_buffer, Texts(executed))

LEMMA TextsTyped ==
    ASSUME NEW ex \in Seq(Seq(AnyToken))
    PROVE  Texts(ex) \in Seq(Seq(Word)) /\ Len(Texts(ex)) = Len(ex)
<1>1. DOMAIN ex = 1 .. Len(ex) /\ Len(ex) \in Nat
  OBVIOUS
<1>2. ASSUME NEW i \in 1 .. Len(ex) PROVE Text(ex[i]) \in Seq(Word)
  <2>1. ex[i] \in Seq(AnyToken)
    OBVIOUS
  <2> QED
    BY <2>1, TextFacts, Zenon
<1>3. PICK S : S = Seq(Word)
  BY Zenon
<1>4. [i \in 1 .. Len(ex) |-> Text(ex[i])] \in Seq(S) /\ Len([i \in 1 .. Len(ex) |-> Text(ex[i])]) = Len(ex)
  BY <1>1, <1>2, <1>3
<1>5. Texts(ex) = [i \in 1 .. Len(ex) |-> Text(ex[i])]
  BY <1>1, Zenon DEF Texts
<1> QED
  BY <1>3, <1>4, <1>5, Zenon

LEMMA TextsNext ==
    ASSUME NEW ex \in Seq(Seq(AnyToken)), NEW u \in Seq(AnyToken)
    PROVE  Texts(Append(ex, u)) = Texts(ex) \o <<Text(u)>>
<1>1. PICK S : S = Seq(AnyToken)
  BY Zenon
<1>2. PICK V : V = Seq(Word)
  BY Zenon
<1>3. PICK more : more = Append(ex, u)
  BY Zenon
<1>4. /\ more \in Seq(S) /\ Len(more) = Len(ex) + 1 /\ Len(ex) \in Nat
      /\ DOMAIN ex = 1 .. Len(ex) /\ DOMAIN more = 1 .. Len(ex) + 1
      /\ more[Len(ex) + 1] = u /\ \A i \in 1 .. Len(ex) : more[i] = ex[i]
  BY <1>1, <1>3
<1>5. PICK a \in Seq(V), b \in Seq(V) : a = Texts(ex) /\ b = Texts(more) /\ Len(a) = Len(ex) /\ Len(b) = Len(more)
  BY <1>1, <1>2, <1>4, TextsTyped, Zenon
<1>6. ASSUME NEW i \in 1 .. Len(ex) PROVE b[i] = a[i]
  <2>1. i \in DOMAIN ex /\ i \in DOMAIN more /\ more[i] = ex[i]
    BY <1>4
  <2> QED
    BY <1>5, <2>1, Zenon DEF Texts
<1>7. PICK x : x = Text(u)
  BY Zenon
<1>8. x \in V
  BY <1>2, <1>7, TextFacts, Zenon
<1>9. b[Len(ex) + 1] = x
  <2>1. Len(ex) + 1 \in DOMAIN more
    BY <1>4
  <2> QED
    BY <1>4, <1>5, <1>7, <2>1, Zenon DEF Texts
<1>10. b = a \o <<x>>
  <2>1. b = Append(a, x)
    BY <1>4, <1>5, <1>6, <1>8, <1>9
  <2>2. Append(a, x) = a \o <<x>>
    BY <1>8
  <2> QED
    BY <2>1, <2>2, Zenon
<1> QED
  BY <1>3, <1>5, <1>7, <1>10, Zenon

LEMMA CutNothing ==
    ASSUME NEW b \in Seq(AnyToken), NEW done, Cut(<< >>, b, done)
    PROVE  b = << >> /\ done = << >>
<1>1. PICK q, s : Reached(<< >>, b, q, s) /\ CutUpTo(<< >>, q, done)
  BY Zenon DEF Cut
<1>2. q \in 0 .. Len(<< >>) /\ Len(<< >>) = q + Len(b)
  BY <1>1, Zenon DEF Reached
<1>3. Len(<< >>) = 0 /\ Len(b) \in Nat
  OBVIOUS
<1>4. q = 0 /\ Len(b) = 0
  BY <1>2, <1>3
<1>5. b = << >>
  BY <1>4
<1>6. done = << >>
  BY <1>1, <1>4, Zenon DEF CutUpTo, IsBuilt
<1> QED
  BY <1>5, <1>6

LEMMA AllTyped ==
    ASSUME LoopInv
    PROVE  /\ line \in Seq(AnyToken) /\ statement_buffer \in Seq(AnyToken)
           /\ accepted \in Seq(Seq(AnyToken)) /\ executed \in Seq(Seq(AnyToken))
<1>1. Floor \in Nat /\ signals \in Nat
  BY Floors DEF LoopInv
<1>2. Since(Floor, signals) \subseteq AnyToken /\ Since(0, signals) \subseteq AnyToken
  BY <1>1 DEF Since, AnyToken
<1>3. /\ line \in Seq(Since(Floor, signals)) /\ statement_buffer \in Seq(Since(Floor, signals))
      /\ executed \in Seq(Seq(Since(Floor, signals))) /\ accepted \in Seq(Seq(Since(0, signals)))
  BY Zenon DEF LoopInv, Stamps
<1> QED
  BY <1>2, <1>3, SeqMonotone, SeqSeqMonotone, Zenon

LEMMA CutCleared == Cut(Whole(<< >>), << >>, Texts(<< >>))
<1>1. << >> \in Seq(AnyToken)
  OBVIOUS
<1>2. Texts(<< >>) = << >>
  BY DEF Texts
<1> QED
  BY <1>1, <1>2, WholeNothing, CutAtStart, Zenon

LEMMA CutInit == Init => CutInv
<1> SUFFICES ASSUME Init PROVE CutInv
  OBVIOUS
<1>1. accepted = << >> /\ executed = << >> /\ statement_buffer = << >>
  BY DEF Init
<1> QED
  BY <1>1, CutCleared DEF CutInv

LEMMA CutAppendLine ==
    ASSUME LoopInv, CutInv, AppendLine
    PROVE  CutInv'
<1>1. /\ statement_buffer' = Joined(statement_buffer, line) /\ accepted' = Append(accepted, line)
      /\ executed' = executed
  BY DEF AppendLine
<1>0. PICK ls \in Seq(Seq(AnyToken)), b \in Seq(AnyToken), l \in Seq(AnyToken) :
         ls = accepted /\ b = statement_buffer /\ l = line
  BY AllTyped, Zenon
<1>2. PICK done : done = Texts(executed)
  OBVIOUS
<1>3. Cut(Whole(ls), b, done)
  BY <1>0, <1>2, Zenon DEF CutInv
<1>4. Cut(Whole(Append(ls, l)), Joined(b, l), done)
  <2>1. CASE ls = << >>
    <3>1. Cut(<< >>, b, done)
      BY <1>3, <2>1, WholeNothing, Zenon
    <3>2. b = << >> /\ done = << >>
      BY <3>1, CutNothing, Zenon
    <3>3. Joined(b, l) = l
      BY <3>2, Zenon DEF Joined
    <3>4. Whole(Append(ls, l)) = l
      BY <2>1, WholeNext, Zenon
    <3> QED
      BY <3>2, <3>3, <3>4, CutAtStart, Zenon
  <2>2. CASE ls # << >>
    <3>1. Whole(Append(ls, l)) = Whole(ls) \o (NL \o l)
      BY <2>2, WholeNext, Zenon
    <3>2. Whole(ls) \in Seq(AnyToken)
      BY WholeFacts, Zenon
    <3> QED
      BY <1>3, <3>1, <3>2, CutJoined, Zenon
  <2> QED
    BY <2>1, <2>2, Zenon
<1>5. Cut(Whole(accepted'), statement_buffer', Texts(executed'))
  BY <1>0, <1>1, <1>2, <1>4, Zenon
<1> QED
  BY <1>5, Zenon DEF CutInv

LEMMA CutSplitStatement ==
    ASSUME LoopInv, CutInv, SplitStatement
    PROVE  CutInv'
<1>1. PICK p \in {FindSemicolon(statement_buffer)} \ {0} :
         \E u \in {SubSeq(statement_buffer, 1, p - 1)} :
           /\ statement_buffer' = Erase(statement_buffer, p)
           /\ IF Text(u) = << >> THEN executed' = executed ELSE executed' = Append(executed, u)
  BY Zenon DEF SplitStatement
<1>2. PICK u : /\ u = SubSeq(statement_buffer, 1, p - 1)
               /\ statement_buffer' = Erase(statement_buffer, p)
               /\ IF Text(u) = << >> THEN executed' = executed ELSE executed' = Append(executed, u)
  BY <1>1, Zenon
<1>3. accepted' = accepted
  BY Zenon DEF SplitStatement
<1>4. PICK W \in Seq(AnyToken), b \in Seq(AnyToken), ex \in Seq(Seq(AnyToken)), done \in Seq(Seq(Word)) :
         W = Whole(accepted) /\ b = statement_buffer /\ ex = executed /\ done = Texts(executed)
  BY AllTyped, WholeFacts, TextsTyped, Zenon
<1>5. PICK rest : rest = SubSeq(b, p + 1, Len(b))
  BY Zenon
<1>6. p = FindSemicolon(b) /\ p # 0 /\ u = SubSeq(b, 1, p - 1)
  BY <1>1, <1>2, <1>4, Zenon
<1>7. Cut(W, b, done)
  BY <1>4, Zenon DEF CutInv
<1>8. (Text(u) = << >> => Cut(W, rest, done)) /\ (Text(u) # << >> => Cut(W, rest, done \o <<Text(u)>>))
  BY <1>5, <1>6, <1>7, CutSplit, Zenon
<1>9. u \in Seq(AnyToken)
  <2>1. p \in 1 .. Len(b)
    BY <1>6, FirstSemicolon, Zenon
  <2> QED
    BY <1>6, <2>1
<1>10. statement_buffer' = rest
  BY <1>2, <1>4, <1>5, Zenon DEF Erase
<1>11. CASE Text(u) = << >>
  BY <1>2, <1>3, <1>4, <1>8, <1>10, <1>11, Zenon DEF CutInv
<1>12. CASE Text(u) # << >>
  <2>1. executed' = Append(ex, u)
    BY <1>2, <1>4, <1>12, Zenon
  <2>2. Texts(executed') = done \o <<Text(u)>>
    BY <1>4, <1>9, <2>1, TextsNext, Zenon
  <2> QED
    BY <1>3, <1>4, <1>8, <1>10, <1>12, <2>2, Zenon DEF CutInv
<1> QED
  BY <1>11, <1>12, Zenon

LEMMA CutNext ==
    ASSUME LoopInv, CutInv, [Next]_vars
    PROVE  CutInv'
<1>1. CASE AppendLine
  BY <1>1, CutAppendLine
<1>2. CASE SplitStatement
  BY <1>2, CutSplitStatement
<1>3. CASE ClearBuffer
  <2>1. accepted' = << >> /\ executed' = << >> /\ statement_buffer' = << >>
    BY <1>3 DEF ClearBuffer
  <2> QED
    BY <2>1, CutCleared DEF CutInv
<1>4. CASE UNCHANGED <<accepted, executed, statement_buffer>>
  BY <1>4 DEF CutInv
<1>5. \/ AppendLine \/ SplitStatement \/ ClearBuffer
      \/ UNCHANGED <<accepted, executed, statement_buffer>>
  BY DEF Next, Loop, vars, history, Type, EndInput, HandleSigint, ResetFlag, StartRead, ReadLine,
         ReadEof, QuitOrSkip, EndSplit, Flush
<1> QED
  BY <1>1, <1>2, <1>3, <1>4, <1>5

(* The statements executed since the buffer was last cleared are those of  *)
(* the accepted lines, each once and in order, however the text was split  *)
(* into lines: nothing is lost or repeated when main() cuts the buffer at  *)
(* every ';' as lines come.                                                *)
THEOREM StatementsAsTyped == Spec => []ExecutedAsTyped
<1>1. LoopInv /\ CutInv => ExecutedAsTyped
  <2> SUFFICES ASSUME LoopInv, CutInv PROVE ExecutedAsTyped
    OBVIOUS
  <2>1. PICK W \in Seq(AnyToken), b \in Seq(AnyToken), done \in Seq(Seq(Word)) :
           W = Whole(accepted) /\ b = statement_buffer /\ done = Texts(executed)
    BY AllTyped, WholeFacts, TextsTyped, Zenon
  <2>2. Cut(W, b, done)
    BY <2>1, Zenon DEF CutInv
  <2>3. IsPrefix(done, Statements(W)) /\ (FindSemicolon(b) = 0 => done = Statements(W))
    BY <2>2, CutMeans, Zenon
  <2>4. pc \in {"test", "read", "line"} => FindSemicolon(b) = 0
    BY <2>1, Zenon DEF LoopInv, Places
  <2> QED
    BY <2>1, <2>3, <2>4, Zenon DEF ExecutedAsTyped, Texts
<1>2. Init => CutInv
  BY CutInit
<1>3. LoopInv /\ CutInv /\ [Next]_vars => CutInv'
  BY CutNext
<1> QED
  BY <1>1, <1>2, <1>3, LoopInvariant, PTL DEF Spec
=============================================================================
