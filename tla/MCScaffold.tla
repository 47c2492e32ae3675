---------------------------- MODULE MCScaffold ----------------------------
(* Small instances of ExtensionScaffold for TLC. *)
EXTENDS ScaffoldProperties, TLC

Words == [todo |-> "Todo", list |-> "List", add |-> "Add", to |-> "To", do |-> "Do"]

\* The file of "TODO" with "list_add" has the name of that of "todo_list" with "add".
Names == "todo_list" :> <<"todo", "list">>
         @@ "TODO" :> <<"todo">> @@ "to do" :> <<"to", "do">>
         @@ "add" :> <<"add">> @@ "list_add" :> <<"list", "add">>

SnakeOf == [n \in Ext \cup Cap |-> Names[n]]

RawOf == [e \in Ext |-> IF e = "TODO" THEN <<"TODO">> ELSE Names[e]]

\* to_pascal_case leaves capitals as they are.
PascalOf == [n \in Ext \cup Cap |->
                IF n = "TODO" THEN <<"TODO">>
                ELSE [i \in DOMAIN Names[n] |-> Words[Names[n][i]]]]
=============================================================================
