---------------------------- MODULE MCRequestPath ----------------------------
(***************************************************************************)
(* Instances of RequestPath for TLC.  The messages and the model's name    *)
(* have nothing to do with each other, so either the names are rich and    *)
(* the conversation is empty, or the other way round.                      *)
(***************************************************************************)
EXTENDS RequestPath, TLC

Symmetries == Permutations(Ids) \cup Permutations(Names)

\* An id with a vendor, one without and one that is mapped on; the vendor, or a
\* longer namespace, may be chosen as prefix, with or without a slash at its end.
SmallSegments == {"", "cmdc", "commandcode-go", "deepseek", "v4", "gpt", "fast", "old", "team", "best", "quick"}
SmallCatalog == {<<"deepseek", "v4">>, <<"gpt">>, <<"old">>}
ModelMapsHere == << [alias |-> <<"fast">>, name |-> <<"old">>],
                    [alias |-> <<"fast">>, name |-> <<"gpt">>],
                    [alias |-> <<"old">>, name |-> <<"gpt">>],
                    [alias |-> <<"team", "best">>, name |-> NoName],
                    [alias |-> <<"commandcode-go", "quick">>, name |-> <<"gpt">>] >>

Setting(prefix, show, bare, replay) ==
    [prefix |-> prefix, showPrefix |-> show, bare |-> bare, replay |-> replay]
NameSettings == {Setting(prefix, show, bare, "both") :
    prefix \in {<<>>, <<"deepseek", "">>, <<"team">>, <<"cmdc", "deepseek">>}, show \in BOOLEAN, bare \in BOOLEAN}
ReplaySettings == {Setting(<<>>, TRUE, FALSE, replay) : replay \in Modes}
AllSettings == NameSettings \cup ReplaySettings

Says(role, content) == [role |-> role, content |-> content, reasoning |-> FALSE, calls |-> <<>>, id |-> NoId]
Thinks(content, calls) == [Says("assistant", content) EXCEPT !.reasoning = TRUE, !.calls = calls]
Answers(id) == [Says("tool", <<"text">>) EXCEPT !.id = id]
Call(id, name) == [id |-> id, name |-> name]

Turns ==
    {Says("system", <<"text", "image">>), Says("user", <<"remote", "blank", "image">>), Says("user", <<"blank">>),
     Says("assistant", <<"thinking", "text", "text">>), Thinks(<<>>, <<>>), Thinks(<<"thought">>, <<>>)}
      \cup {Thinks(<<"text">>, <<Call(id, name)>>) : id \in Ids \cup {NoId}, name \in Names}
      \cup {[Says("assistant", <<>>) EXCEPT !.calls = <<Call(id, name), Call(id, NoFunction)>>] : id \in Ids, name \in Names}
      \cup {Answers(id) : id \in Ids \cup {NoId}}

Conversations == BoundedSeq(Turns, 3)
NoTurns == {<<>>}

SplitInit ==
    /\ Init
    /\ (conversation = <<>> /\ settings \in NameSettings)
         \/ (conversation # <<>> /\ settings \in ReplaySettings)

SplitNext ==
    /\ Next
    /\ settings' \in (IF conversation = <<>> THEN NameSettings ELSE ReplaySettings)
    /\ conversation # <<>> => /\ asked' = asked \/ asked'.name = Namespace \o <<"gpt">>
                              /\ pc # "translate" => settings' = settings

SplitSpec == SplitInit /\ [][SplitNext]_vars
=============================================================================
