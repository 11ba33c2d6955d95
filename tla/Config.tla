------------------------------- MODULE Config -------------------------------
(***************************************************************************)
(* Lists of hook definitions, as build_plan and effective_config treat     *)
(* them: by id, where a later definition replaces an earlier one; and the  *)
(* files a hook is given (runner/changeset.py).                            *)
(***************************************************************************)
EXTENDS Naturals, FiniteSets, SequencesExt

IdsOf(hooks) == {hooks[p].id : p \in DOMAIN hooks}

\* by_id and its like: the last definition of an id.
Definition(hooks, id) == hooks[SelectLastInSeq(hooks, LAMBDA h : h.id = id)]

\* The members of a finite set, in an order given as the set of its pairs.
InOrder(S, order) ==
    [k \in 1..Cardinality(S) |->
        CHOOSE x \in S : Cardinality({y \in S : <<y, x>> \in order}) = k - 1]

Ascending(S) == {pair \in S \X S : pair[1] < pair[2]}

\* The elements of a list at some of its positions, in the order of the list.
AtPositions(seq, S) ==
    LET inOrder == InOrder(S, Ascending(S))
    IN  [k \in 1..Cardinality(S) |-> seq[inOrder[k]]]

\* A list of ids without repetitions, each at its first place.
FirstMentions(ids) ==
    AtPositions(ids, {p \in DOMAIN ids : \A q \in 1..(p - 1) : ids[q] # ids[p]})

\* _files_for_hook: a glob is the set of paths it matches.
FilesForHook(h, files, unset) ==
    IF ~h.passFiles THEN {}
    ELSE {f \in files : /\ h.files = unset \/ f \in h.files
                        /\ h.exclude = unset \/ f \notin h.exclude}
=============================================================================
