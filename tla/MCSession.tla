----------------------------- MODULE MCSession ------------------------------
EXTENDS Session, TLC

(* Text a session may hold: one word stands for a clause. *)
MCParsed ==
    (<<"create">> :> [kind |-> "create", table |-> "t",
                      columns |-> <<<<"a", "int4">>, <<"b", "text">>>>]) @@
    (<<"create8">> :> [kind |-> "create", table |-> "u", columns |-> <<<<"a", "int8">>>>]) @@
    (<<"insert", "ba", "values">> :>
        [kind |-> "insert", table |-> "t", columns |-> <<"b", "a">>,
         rows |-> <<<<<<"text", 1>>, <<"int", 2>>>>, <<EmptyText, <<"int", 3>>>>>>]) @@
    (<<"insert", "values">> :>
        [kind |-> "insert", table |-> "t", columns |-> << >>,
         rows |-> <<<<<<"text", 1>>, <<"int", 2>>>>, <<<<"text", 3>>, <<"int", 4>>>>>>]) @@
    (<<"insert", "null">> :>
        [kind |-> "insert", table |-> "t", columns |-> << >>,
         rows |-> <<<<<<"int", 5>>, <<"text", 6>>>>, <<<<"int", 7>>, <<"null", 0>>>>>>]) @@
    (<<"insert", "aa">> :>
        [kind |-> "insert", table |-> "t", columns |-> <<"a", "a">>,
         rows |-> <<<<<<"int", 8>>, <<"int", 9>>>>>>]) @@
    (<<"empty">> :>
        [kind |-> "insert", table |-> "t", columns |-> << >>,
         rows |-> <<<<<<"int", 5>>, <<"text", 6>>>>, <<<<"int", 7>>, EmptyText>>,
                    <<<<"int", 8>>, EmptyText>>>>]) @@
    (<<"minus">> :> [kind |-> "negation"])

MCExisting == {
    [t \in Table |-> NoTable],
    [t \in Table |-> IF t # "t" THEN NoTable
                     ELSE [columns |-> <<<<"a", "int">>, <<"b", "text">>>>,
                           rows |-> <<<<<<"int", 0>>, <<"text", 9>>>>>>]]}

MCPieces == {
    <<"create", ";", "insert", "ba", "nl">>,
    <<"values", ";", "sp", "nl">>,
    <<"insert", "aa", ";", ";", "create8", ";", "nl">>,
    <<"insert">>,
    <<"null", ";", "empty", ";", "minus", ";">>,
    <<"help", "nl", "nl", "quit", ";", "nl">>}
=============================================================================
