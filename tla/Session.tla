------------------------------ MODULE Session -------------------------------
(***************************************************************************)
(* The read loop of main(): lines read byte by byte from stdin, SIGINT at  *)
(* any moment, statements cut out of the buffer at each ';' and executed,  *)
(* and the Flush that ends a session.  It begins with the catalog of an    *)
(* existing file or of a new one: how Open and CreateNew may fail, and     *)
(* what Flush and ~Catalog leave in the file, is in DatabaseFile.          *)
(*                                                                         *)
(* Input is a sequence of tokens [w, e]: the word (";", "nl" and "sp"      *)
(* among them) and how many signals had come when it was typed.            *)
(* A pipe delivers any piece of a line; a terminal throws away what is not *)
(* read yet when Ctrl-C is typed.                                          *)
(***************************************************************************)
EXTENDS StatementExecution, Appending

CONSTANTS
    Existing,     (* the catalogs Open may return, and CreateNew's         *)
    Pieces,       (* what may be typed at once: sequences of words         *)
    MaxPieces,    (* bound: pieces typed                                   *)
    TypeAhead,    (* bound: tokens not yet read when more is typed         *)
    MaxSignals    (* bound: SIGINTs                                        *)

ASSUME SessionAssumption ==
    /\ Existing \subseteq [Table -> TableObject \cup {NoTable}]
    /\ Pieces \subseteq Seq(STRING) /\ {MaxPieces, TypeAhead, MaxSignals} \subseteq Nat

VARIABLES
    interactive,        (* isatty(STDIN_FILENO)                            *)
    pending,            (* tokens the kernel holds for the next read       *)
    input,              (* "open", "eof" or "error" once pending is drained*)
    pieces,             (* pieces typed so far                             *)
    signals,            (* SIGINTs delivered so far                        *)
    g_sigint_received,
    pc,                 (* where the loop is                               *)
    line,               (* ReadLine's line                                 *)
    statement_buffer,
    accepted,           (* history: lines appended since the last clear    *)
    executed,           (* history: statements executed since then         *)
    noticed,            (* history: signals when the buffer was cleared    *)
    opened,             (* history: the catalog when the session began     *)
    tables              (* the catalog in memory                           *)

environment == <<interactive, pending, input, pieces, signals>>
history == <<accepted, executed, noticed>>
catalog == <<opened, tables>>
vars == <<environment, g_sigint_received, pc, line, statement_buffer, history, catalog>>

(* Trim: text counts by its words, since the parser and the comparison     *)
(* with "quit" see no blanks around them.                                  *)
Blank == {"sp", "nl"}
Text(tokens) ==
    Appended([i \in DOMAIN tokens |-> IF tokens[i].w \in Blank THEN << >> ELSE <<tokens[i].w>>])

(* statement_buffer.find(';'), 0 for npos. *)
Semicolons(tokens) == {i \in DOMAIN tokens : tokens[i].w = ";"}
FindSemicolon(tokens) == IF Semicolons(tokens) = {} THEN 0 ELSE Min(Semicolons(tokens))
Last(tokens) == tokens[Len(tokens)]
NewLine(tokens) == [w |-> "nl", e |-> Last(tokens).e]

-----------------------------------------------------------------------------
(* The outside world: text arrives, input ends, a signal is delivered.     *)
Tokens(piece) == [i \in DOMAIN piece |-> [w |-> piece[i], e |-> signals]]

Type ==
    /\ input = "open" /\ pieces < MaxPieces /\ Len(pending) <= TypeAhead
    /\ \E piece \in Pieces : pending' = pending \o Tokens(piece)
    /\ pieces' = pieces + 1
    /\ UNCHANGED <<interactive, input, signals, g_sigint_received, pc, line,
                   statement_buffer, history, catalog>>

EndInput ==
    /\ input = "open"
    /\ input' \in {"eof", "error"}
    /\ UNCHANGED <<interactive, pending, pieces, signals, g_sigint_received, pc,
                   line, statement_buffer, history, catalog>>

(* main returned 0 or, after a Flush that threw, 1; or a statement ended   *)
(* the process.                                                            *)
Over == {"ended", "fatal", "dead"}

(* A read with nothing to return waits, and only such a read is cut short. *)
Blocked == pc = "read" /\ pending = << >> /\ input = "open"

HandleSigint ==
    /\ signals < MaxSignals
    /\ pc \notin Over
    /\ signals' = signals + 1
    /\ g_sigint_received' = TRUE
    /\ pc' = IF Blocked THEN "interrupted" ELSE pc
    /\ line' = IF Blocked THEN << >> ELSE line
    /\ pending' = IF interactive THEN << >> ELSE pending
    /\ UNCHANGED <<interactive, input, pieces, statement_buffer, history, catalog>>

-----------------------------------------------------------------------------
(* The loop.  line is ReadLine's own until it returns, then result.line,   *)
(* which each turn of the loop starts without.                             *)
ResetFlag ==
    /\ pc = "interrupted" \/ (pc = "test" /\ g_sigint_received)
    /\ g_sigint_received' = FALSE
    /\ pc' = "clear"
    /\ UNCHANGED <<environment, line, statement_buffer, history, catalog>>

ClearNothing ==
    /\ pc = "clear"
    /\ pc' = "test"
    /\ accepted' = << >> /\ executed' = << >> /\ noticed' = signals
    /\ UNCHANGED <<environment, g_sigint_received, line, statement_buffer, catalog>>
ClearBuffer ==
    /\ pc = "clear"
    /\ statement_buffer' = << >>
    /\ pc' = "test"
    /\ accepted' = << >> /\ executed' = << >> /\ noticed' = signals
    /\ UNCHANGED <<environment, g_sigint_received, line, catalog>>

StartReadUntested ==
    /\ pc = "test"
    /\ pc' = "read"
    /\ UNCHANGED <<environment, g_sigint_received, line, statement_buffer, history, catalog>>
StartRead ==
    /\ pc = "test" /\ ~g_sigint_received
    /\ pc' = "read"
    /\ UNCHANGED <<environment, g_sigint_received, line, statement_buffer, history, catalog>>

ReadLine ==
    /\ pc = "read" /\ pending # << >>
    /\ pending' = Tail(pending)
    /\ IF Head(pending).w = "nl"
       THEN pc' = "line" /\ UNCHANGED line
       ELSE line' = Append(line, Head(pending)) /\ UNCHANGED pc
    /\ UNCHANGED <<interactive, input, pieces, signals, g_sigint_received,
                   statement_buffer, history, catalog>>

(* n == 0 returns what the last line holds; an error drops it. *)
ReadEofAgain ==
    /\ pc = "read" /\ pending = << >> /\ input # "open"
    /\ pc' = "line"
    /\ UNCHANGED <<environment, g_sigint_received, line, statement_buffer, history, catalog>>
ReadEof ==
    /\ pc = "read" /\ pending = << >> /\ input # "open"
    /\ pc' = IF input = "error" \/ line = << >> THEN "flush" ELSE "line"
    /\ line' = IF input = "error" THEN << >> ELSE line
    /\ UNCHANGED <<environment, g_sigint_received, statement_buffer, history, catalog>>

(* lowered: the trimmed line without a trailing ';'. *)
Command ==
    LET trimmed == Text(line)
    IN  IF trimmed # << >> /\ Last(trimmed) = ";" THEN SubSeq(trimmed, 1, Len(trimmed) - 1) ELSE trimmed
IsQuit == statement_buffer = << >> /\ Command = <<"quit">>
IsSkipped == statement_buffer = << >> /\ (Command = <<"help">> \/ Text(line) = << >>)

(* An empty line joined to a nonempty buffer adds its newline. *)
Joined(buffer, text) ==
    IF buffer = << >> THEN text ELSE Append(buffer, NewLine(buffer)) \o text

QuitOrSkip ==
    /\ pc = "line"
    /\ IsQuit \/ IsSkipped
    /\ pc' = IF IsQuit THEN "flush" ELSE "test"
    /\ line' = << >>
    /\ UNCHANGED <<environment, g_sigint_received, statement_buffer, history, catalog>>

AppendLine ==
    /\ pc = "line"
    /\ ~IsQuit /\ ~IsSkipped
    /\ statement_buffer' = Joined(statement_buffer, line)
    /\ accepted' = Append(accepted, line)
    /\ line' = << >>
    /\ pc' = "split"
    /\ UNCHANGED <<environment, g_sigint_received, executed, noticed, catalog>>

(* One turn of the ';' loop: cut, erase, trim, execute. *)
EraseOneMore(buffer, pos) == SubSeq(buffer, pos + 2, Len(buffer))
Erase(buffer, pos) == SubSeq(buffer, pos + 1, Len(buffer))

SplitStatement ==
    /\ pc = "split"
    /\ \E semicolon_pos \in {FindSemicolon(statement_buffer)} \ {0} :
         \E statement \in {SubSeq(statement_buffer, 1, semicolon_pos - 1)} :
           /\ statement_buffer' = Erase(statement_buffer, semicolon_pos)
           /\ IF Text(statement) = << >>
              THEN UNCHANGED <<pc, executed, tables>>
              ELSE \E text \in {Text(statement)} : \E done \in ExecuteStatement(text, tables) :
                     /\ executed' = Append(executed, statement)
                     /\ tables' = done.tables
                     /\ pc' = IF done.reply = "died" THEN "dead" ELSE pc
    /\ UNCHANGED <<environment, g_sigint_received, line, accepted, noticed, opened>>

EndSplitAlways ==
    /\ pc = "split"
    /\ pc' = "test"
    /\ UNCHANGED <<environment, g_sigint_received, line, statement_buffer, history, catalog>>
EndSplit ==
    /\ pc = "split" /\ FindSemicolon(statement_buffer) = 0
    /\ pc' = "test"
    /\ UNCHANGED <<environment, g_sigint_received, line, statement_buffer, history, catalog>>

(* catalog.Flush(), which may throw, and main returns. *)
Flush ==
    /\ pc = "flush"
    /\ pc' \in {"ended", "fatal"}
    /\ UNCHANGED <<environment, g_sigint_received, line, statement_buffer, history, catalog>>

Init ==
    /\ interactive \in BOOLEAN
    /\ pending = << >> /\ input = "open" /\ pieces = 0 /\ signals = 0
    /\ g_sigint_received = FALSE
    /\ pc = "test" /\ line = << >> /\ statement_buffer = << >>
    /\ accepted = << >> /\ executed = << >> /\ noticed = 0
    /\ opened \in Existing /\ tables = opened

Loop ==
    \/ ResetFlag \/ ClearBuffer \/ StartRead \/ ReadLine \/ ReadEof
    \/ QuitOrSkip \/ AppendLine \/ SplitStatement \/ EndSplit \/ Flush

Next == Type \/ EndInput \/ HandleSigint \/ Loop

(* The process runs whenever it can; nobody has to type or to interrupt.   *)
Fairness == WF_vars(Loop)

Spec == Init /\ [][Next]_vars /\ Fairness

-----------------------------------------------------------------------------
(* Tokens are what Type made of a piece, and the loop is at one of its     *)
(* steps: the types of main()'s locals.                                    *)
Token == [w : Blank \cup UNION {Range(piece) : piece \in Pieces},
          e : 0 .. MaxSignals]
TypeOK ==
    /\ \A text \in {pending, line, statement_buffer} \cup Range(accepted) \cup Range(executed) :
         Range(text) \subseteq Token
    /\ pc \in {"test", "clear", "read", "interrupted", "line", "split", "flush"} \cup Over
    /\ noticed \in 0 .. signals
    /\ pc = "split" => accepted # << >>
    /\ pc \in {"test", "read", "line"} => FindSemicolon(statement_buffer) = 0

(* The lines joined by newlines, and the statements of a text: what lies   *)
(* before every ';' and after the one before, unless it is blank.          *)
IsPrefix(s, t) == Len(s) <= Len(t) /\ s = SubSeq(t, 1, Len(s))
Whole(ls) == Appended([i \in DOMAIN ls |-> IF i = 1 THEN ls[i] ELSE <<[w |-> "nl", e |-> 0]>> \o ls[i]])
Part(text, m) == Text(SubSeq(text, Max({0} \cup {k \in Semicolons(text) : k < m}) + 1, m - 1))
Statements(text) ==
    Appended([m \in DOMAIN text |->
        IF text[m].w = ";" /\ Part(text, m) # << >> THEN <<Part(text, m)>> ELSE << >>])

(* What the loop of main() has executed since the buffer was last cleared  *)
(* is the accepted lines, joined and cut at every ';', each part once and  *)
(* in order: cutting line by line as they come loses and repeats nothing.  *)
ExecutedAsTyped ==
    LET whole == Statements(Whole(accepted))
        done == [i \in DOMAIN executed |-> Text(executed[i])]
    IN  /\ IsPrefix(done, whole)
        /\ pc \in {"test", "read", "line"} => done = whole

(* Ctrl-C at a terminal drops the text before it: once main() has noticed  *)
(* a signal, no older text is in the line being read, in the buffer or in  *)
(* a statement executed since; and a signal is unnoticed only while its    *)
(* flag is set or being handled.                                           *)
InterruptDropsText ==
    /\ interactive =>
         \A text \in {line, statement_buffer} \cup Range(executed) :
           \A t \in Range(text) : t.e >= noticed
    /\ ~g_sigint_received /\ pc # "clear" => noticed = signals

(* A signal that comes between the flag test and the read is noticed one   *)
(* line later: of the text typed after an unnoticed signal, main() joins   *)
(* no more than one line to the old buffer or executes it.                 *)
LateByOneLine ==
    Cardinality({i \in DOMAIN accepted : \E t \in Range(accepted[i]) : t.e > noticed}) <= 1

(* A session only adds to the catalog it opened: every table of the file   *)
(* keeps its columns and, first and in order, its rows.  Each row after    *)
(* them came from an INSERT all of whose rows bind: it has one literal per *)
(* column, of the column's type, and the literal of each name in the       *)
(* column list is in the first column of that name; so also when writes of *)
(* the INSERT fail and only some of its row groups are there.              *)
AsNamed(t, columns, row) ==
    /\ DOMAIN row = DOMAIN columns
    /\ \A k \in DOMAIN row : row[k][1] = columns[k][2]
    /\ \E stmt \in {s \in Range(Parsed) : s.kind = "insert"} :
         /\ stmt.table = t
         /\ \E given \in Range(stmt.rows) :
              \A i \in DOMAIN given :
                row[IF stmt.columns = << >> THEN i
                    ELSE FindColumn(columns, stmt.columns[i])] = given[i]
         /\ \A given \in Range(stmt.rows) :
              \A i \in DOMAIN given : given[i][1] \in TypeId
RowsBefore(t) == IF opened[t] = NoTable THEN << >> ELSE opened[t].rows
RowsAsNamed ==
    \A t \in Table :
      /\ opened[t] # NoTable =>
           /\ tables[t] # NoTable
           /\ tables[t].columns = opened[t].columns
           /\ IsPrefix(opened[t].rows, tables[t].rows)
      /\ tables[t] # NoTable =>
           \A i \in DOMAIN tables[t].rows :
             i > Len(RowsBefore(t)) => AsNamed(t, tables[t].columns, tables[t].rows[i])

(* A session whose input ends is over some time later, whatever is still   *)
(* in the pipe and in the buffer and however many signals come: main()     *)
(* flushes and returns, unless a statement ends the process.               *)
SessionEnds == input # "open" ~> pc \in Over
=============================================================================
