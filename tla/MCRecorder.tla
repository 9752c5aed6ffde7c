----------------------------- MODULE MCRecorder -----------------------------
(* Recorder on a few names.                                                *)
EXTENDS Recorder

(* One that both checks accept although a secret prefix is in it, and one  *)
(* that validate_id accepts and sanitize_value refuses.                    *)
FewNames == {<<"w", "sk-">>, <<"w", ".", "sk-">>}

(* One for every reason to refuse an id, a plain one, and one that ends in *)
(* a line break.                                                           *)
OddNames ==
    {<<>>, <<"?">>, <<"sk-">>, <<"us", ".", "er">>, <<"w", ".", "w", ".", "w">>,
     <<"w">>, <<"w", "\n">>}
=============================================================================
