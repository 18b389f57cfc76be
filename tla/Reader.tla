------------------------------- MODULE Reader -------------------------------
(* The line editor with the lisp's parser, against the grammar. *)
EXTENDS LineEditor, Grammar

\* Trying lists before pairs before atoms, with a fresh start after each
\* failure, finds the one meaning the grammar gives the text, and none where
\* it gives none; it leaves the buffer only if the text has no end.
ParserAgrees ==
    /\ ast.res = "ok"  => Meanings(line) = {ast.nodes}
    /\ ast.res = "err" => Meanings(line) = {}
    /\ ast.res = "ran" => ~Ends(line, 1)
=============================================================================
