------------------------------ MODULE MCAdmin ------------------------------
(* Admin for TLC: a few options of every kind, alone and, where they can   *)
(* meet, together.                                                         *)
EXTENDS Admin

Nothing == [set |-> <<>>, unset |-> <<>>, add |-> <<>>, erase |-> {},
            binary |-> FALSE, description |-> "same"]
F(flag, arg) == [flag |-> flag, arg |-> arg]

Settings ==
  {F("c", <<"0">>), F("v", <<>>), F("l", <<"a">>), F("l", <<"1", "x", "2">>),
   F("l", <<"1", ",", "2">>), F("l", <<"2", ",", "-">>)}
Unsettings == {F("v", <<>>), F("l", <<"a">>), F("l", <<"2">>)}

MCCommands ==
  {[Nothing EXCEPT !.set = <<s>>] : s \in Settings}
    \cup {[Nothing EXCEPT !.unset = <<s>>] : s \in Unsettings}
    \cup {[Nothing EXCEPT !.set = <<F("l", <<"a">>)>>, !.unset = <<F("l", <<"a">>), F("l", <<"1">>)>>],
          [Nothing EXCEPT !.set = <<F("l", <<"a">>), F("l", <<"2">>)>>],
          [Nothing EXCEPT !.description = "words", !.set =
             <<F("c", <<"2">>), F("f", <<"1">>), F("d", <<"1">>), F("i", <<>>), F("q", <<"1">>),
               F("y", <<"I", ",", "M">>)>>],
          [Nothing EXCEPT !.description = "", !.unset =
             <<F("c", <<>>), F("f", <<>>), F("d", <<>>), F("i", <<>>), F("q", <<>>), F("y", <<>>)>>],
          [Nothing EXCEPT !.add = <<"ann">>],
          [Nothing EXCEPT !.add = <<"bob">>, !.erase = {"ann"}],
          [Nothing EXCEPT !.erase = {"ann", "bob"}],
          [Nothing EXCEPT !.binary = TRUE]}

MCCreations ==
  {[input |-> i, keyword |-> k, m |-> m, mrs |-> IF m = "some" THEN <<"mr1">> ELSE <<>>,
    comments |-> <<"created">>] :
     i \in {"none", "text", "binary"}, k \in BOOLEAN, m \in {"absent", "some"}}
    \cup {[input |-> "text", keyword |-> TRUE, m |-> m, mrs |-> <<>>, comments |-> <<>>] :
            m \in {"empty", "blank"}}

MCChanges ==
  {[mrs |-> m, delete |-> d, comments |-> n] :
     m \in {<<>>, <<"mr2">>}, d \in {{}, {"mr1"}, {"mr1", "mr2"}}, n \in {<<>>, <<"note">>}}

=============================================================================
