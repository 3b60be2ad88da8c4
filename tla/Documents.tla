----------------------------- MODULE Documents ------------------------------
(* One post under concurrent editors: whole replacements, text patches and     *)
(* rollbacks against expected generations and base revisions                   *)
(* (plugins/content.py, post_edit, post_edit_metadata, post_rollback,          *)
(* text_patch), and the patches themselves (core/text_patch.py).  A text is a  *)
(* sequence of tokens: the characters of an exact patch, the lines of a        *)
(* unified one.  Heading and block patches, the marker of a missing last       *)
(* newline and the limits of size are left out.                                *)
EXTENDS Integers, Sequences, SequencesExt

CONSTANTS
    Editors,               \* who may write the post
    FirstText,             \* its first revision
    Edits,                 \* bound: the edits drafted
    MaxTokens, MaxEdits    \* bounds: length of a text; changes of the post

(* The texts an edit brings, and what all the texts are made of.               *)
TextsOf(edit) ==
    CASE edit.kind = "whole" -> {edit.text}
      [] edit.kind = "exact" -> {edit.before, edit.exact, edit.after, edit.replacement}
      [] edit.kind = "unified" -> UNION {{hunk.old, hunk.new} : hunk \in Range(edit.hunks)}
      [] OTHER -> {}

Tokens == UNION {Range(text) : text \in {FirstText} \cup (UNION {TextsOf(edit) : edit \in Edits})}

(* PATCH_SCHEMA and _hunks(): nothing is not replaced by an exact patch, and a *)
(* diff has a hunk.                                                            *)
PatchWellFormed(edit) ==
    /\ edit.kind = "exact" => edit.exact # <<>>
    /\ edit.kind = "unified" =>
          /\ edit.hunks \in Seq(Range(edit.hunks)) /\ edit.hunks # <<>>
          /\ \A hunk \in Range(edit.hunks) : hunk.at \in Nat

DocumentsAssumption ==
    /\ MaxTokens \in Nat /\ MaxEdits \in Nat \ {0}
    /\ FirstText \in Seq(Tokens)
    /\ \A edit \in Edits : TextsOf(edit) \subseteq Seq(Tokens) /\ PatchWellFormed(edit)
ASSUME DocumentsAssumption

VARIABLES
    post,         \* [generation, revision, live]: the resource
    revisions,    \* its revisions, each the child of the one before it
    draft         \* [Editors -> the edit a client prepared from what it read]

documents_vars == <<post, revisions, draft>>

NoDraft == [edit |-> [kind |-> "none"], base |-> 0, read |-> 0, expected |-> 0]

Current == revisions[post.revision]

InitDocuments ==
    /\ post = [generation |-> 1, revision |-> 1, live |-> TRUE]
    /\ revisions = <<FirstText>>
    /\ draft = [e \in Editors |-> NoDraft]

DocumentsTyped ==
    /\ post.generation \in 1..MaxEdits + 1 /\ post.live \in BOOLEAN
    /\ post.revision = Len(revisions)
    /\ \A e \in Editors :
          draft[e].edit \in Edits \cup {NoDraft.edit} /\ draft[e].base \in 0..Len(revisions)
-----------------------------------------------------------------------------
(* Texts. Positions count from 0, as in the code.                              *)
Segment(text, from, to) == SubSeq(text, from + 1, to)
HasAt(text, needle, at) ==
    /\ at >= 0 /\ at + Len(needle) <= Len(text)
    /\ Segment(text, at, at + Len(needle)) = needle

Splice(text, at, old, new) ==
    Segment(text, 0, at) \o new \o Segment(text, at + Len(old), Len(text))

Failed == [ok |-> FALSE, text |-> <<>>]
Patched(text) == [ok |-> TRUE, text |-> text]

(* apply_text_patch(): the one place where exact stands between its contexts.  *)
ExactPatch(text, edit) ==
    LET Matches == {at \in 0..Len(text) :
                       /\ HasAt(text, edit.exact, at)
                       /\ HasAt(text, edit.before, at - Len(edit.before))
                       /\ HasAt(text, edit.after, at + Len(edit.exact))}
    IN  IF \E at \in Matches : Matches = {at}
        THEN Patched(Splice(text, CHOOSE at \in Matches : TRUE, edit.exact, edit.replacement))
        ELSE Failed

(* _sequence_matches(), Knuth, Morris and Pratt: how much of needle is matched *)
(* once its first j tokens were and token follows.                             *)
Advance(needle, prefix, j, token) ==
    LET fall[k \in 0..j] ==
            IF k > 0 /\ needle[k + 1] # token THEN fall[prefix[k]] ELSE k
    IN  IF needle[fall[j] + 1] = token THEN fall[j] + 1 ELSE fall[j]

PrefixTable(needle) ==
    LET prefix[i \in 1..Len(needle)] ==
            IF i = 1 THEN 0 ELSE Advance(needle, prefix, prefix[i - 1], needle[i])
    IN  prefix

SequenceMatches_Disjoint(text, needle) ==    \* mutant: after a match the search starts over
    LET prefix == PrefixTable(needle)
        scan[i \in 0..Len(text)] ==
            IF i = 0 THEN [j |-> 0, at |-> <<>>]
            ELSE IF Len(scan[i - 1].at) = 2 THEN scan[i - 1]
            ELSE LET j == Advance(needle, prefix, scan[i - 1].j, text[i]) IN
                 IF j = Len(needle) THEN [j |-> 0, at |-> Append(scan[i - 1].at, i - j)]
                 ELSE [j |-> j, at |-> scan[i - 1].at]
    IN  scan[Len(text)].at

(* The first two places, overlapping ones included.                            *)
SequenceMatches(text, needle) ==
    LET prefix == PrefixTable(needle)
        scan[i \in 0..Len(text)] ==
            IF i = 0 THEN [j |-> 0, at |-> <<>>]
            ELSE IF Len(scan[i - 1].at) = 2 THEN scan[i - 1]
            ELSE LET j == Advance(needle, prefix, scan[i - 1].j, text[i]) IN
                 IF j = Len(needle) THEN [j |-> prefix[j], at |-> Append(scan[i - 1].at, i - j)]
                 ELSE [j |-> j, at |-> scan[i - 1].at]
    IN  scan[Len(text)].at

(* Where a hunk goes; -1 if nowhere. When rebasing the place is searched, not  *)
(* taken from the patch, and an insertion has none.                            *)
Place(text, hunk, rebase, delta) ==
    IF rebase
    THEN IF hunk.old # <<>> /\ Len(SequenceMatches(text, hunk.old)) = 1
         THEN SequenceMatches(text, hunk.old)[1] ELSE -1
    ELSE IF hunk.to = hunk.at + delta THEN hunk.at ELSE -1

(* _unified(): hunk by hunk, none before the end of the one before it.         *)
Unified(text, hunks, rebase) ==
    LET Hunk(done, hunk) ==
            LET at == Place(text, hunk, rebase, done.delta) IN
            IF done.ok /\ done.last <= at /\ at <= Len(text) /\ HasAt(text, hunk.old, at)
            THEN [ok |-> TRUE, last |-> at + Len(hunk.old),
                  delta |-> done.delta + Len(hunk.new) - Len(hunk.old),
                  text |-> done.text \o Segment(text, done.last, at) \o hunk.new]
            ELSE [done EXCEPT !.ok = FALSE]
        end == FoldLeft(Hunk, [ok |-> TRUE, last |-> 0, delta |-> 0, text |-> <<>>], hunks)
    IN  IF end.ok THEN Patched(end.text \o Segment(text, end.last, Len(text))) ELSE Failed

(* apply_patch() without and with a base: a patch that moves must fit its base *)
(* as it is, and find its places there as well.                                *)
ApplyPatch(text, edit) ==
    IF edit.kind = "exact" THEN ExactPatch(text, edit) ELSE Unified(text, edit.hunks, FALSE)

Rebased(text, base, edit) ==
    IF ~ApplyPatch(base, edit).ok THEN Failed
    ELSE IF edit.kind = "exact" THEN ExactPatch(text, edit)
    ELSE IF Unified(base, edit.hunks, TRUE).ok THEN Unified(text, edit.hunks, TRUE)
    ELSE Failed
-----------------------------------------------------------------------------
(* A client reads the post and prepares an edit of what it read.               *)
PrepareEdit(e, edit) ==
    /\ draft[e] = NoDraft
    /\ draft' = [draft EXCEPT ![e] = [edit |-> edit, base |-> post.revision,
                                      read |-> post.generation, expected |-> post.generation]]
    /\ UNCHANGED <<post, revisions>>

(* A conflict, or a look at the resource, tells it the generation of now.      *)
LearnGeneration(e) ==
    /\ draft[e] # NoDraft /\ draft[e].expected # post.generation
    /\ draft' = [draft EXCEPT ![e].expected = post.generation]
    /\ UNCHANGED <<post, revisions>>

GiveUpEdit(e) ==
    /\ draft[e] # NoDraft
    /\ draft' = [draft EXCEPT ![e] = NoDraft]
    /\ UNCHANGED <<post, revisions>>

(* assert_generation(), with the bound on changes.                             *)
Expected(e) == draft[e] # NoDraft /\ draft[e].expected = post.generation /\ post.generation <= MaxEdits

(* revise_resource(): a child of the current revision, and a new generation.   *)
Revise(e, text) ==
    /\ Len(text) <= MaxTokens    \* bound
    /\ revisions' = Append(revisions, text)
    /\ post' = [post EXCEPT !.generation = @ + 1, !.revision = Len(revisions) + 1]
    /\ draft' = [draft EXCEPT ![e] = NoDraft]

(* content.post_edit and post_write.                                           *)
PostEdit(e) ==
    /\ Expected(e) /\ post.live /\ draft[e].edit.kind = "whole"
    /\ draft[e].base = post.revision
    /\ Revise(e, draft[e].edit.text)

(* content.text_patch: on the revision it was made for, or rebased, when the   *)
(* request says so, on one that came after it.                                 *)
TextPatch(e, rebase) ==
    LET edit == draft[e].edit
        result == IF draft[e].base = post.revision THEN ApplyPatch(Current, edit)
                  ELSE Rebased(Current, revisions[draft[e].base], edit)
    IN  /\ Expected(e) /\ post.live /\ edit.kind \in {"exact", "unified"}
        /\ IF draft[e].base = post.revision THEN draft[e].read = post.generation
           ELSE rebase /\ draft[e].read < post.generation
        /\ result.ok
        /\ Revise(e, result.text)

(* content.post_rollback: the content of an earlier revision as a new one.     *)
PostRollback(e, target) ==
    /\ Expected(e) /\ post.live /\ draft[e].edit.kind = "rollback"
    /\ draft[e].base = post.revision /\ target # post.revision
    /\ Revise(e, revisions[target])

(* content.post_edit_metadata, archive and restore: a generation without a     *)
(* revision.                                                                   *)
Touch(e, live) ==
    /\ Expected(e) /\ draft[e].edit.kind = "touch"
    /\ post' = [post EXCEPT !.generation = @ + 1, !.live = live]
    /\ draft' = [draft EXCEPT ![e] = NoDraft]
    /\ UNCHANGED revisions

NextDocuments ==
    \E e \in Editors :
        \/ \E edit \in Edits : PrepareEdit(e, edit)
        \/ LearnGeneration(e) \/ GiveUpEdit(e) \/ PostEdit(e)
        \/ \E b \in BOOLEAN : TextPatch(e, b) \/ Touch(e, b)
        \/ \E target \in 1..Len(revisions) : PostRollback(e, target)

DocumentsSpec == InitDocuments /\ [][NextDocuments]_documents_vars
-----------------------------------------------------------------------------
(* What a patch may do to a text: each of its parts stands in it at exactly    *)
(* one place, and there alone something is replaced.                           *)
Passages(edit) ==
    IF edit.kind = "exact"
    THEN <<[old |-> edit.before \o edit.exact \o edit.after,
            new |-> edit.before \o edit.replacement \o edit.after]>>
    ELSE edit.hunks

OnlyPlace(text, old) ==
    CHOOSE at \in 0..Len(text) :
        HasAt(text, old, at) /\ \A other \in 0..Len(text) : HasAt(text, old, other) => other = at

StandsOnce(text, old) ==
    old # <<>> /\ \E at \in 0..Len(text) :
        HasAt(text, old, at) /\ \A other \in 0..Len(text) : HasAt(text, old, other) => other = at

OnlyPartsReplaced(before, after, edit) ==
    /\ \A i \in DOMAIN Passages(edit) : StandsOnce(before, Passages(edit)[i].old)
    /\ after = FoldRight(LAMBDA part, text : Splice(text, OnlyPlace(before, part.old), part.old, part.new),
                         Passages(edit), before)

(* An edit that arrives after others have changed the post keeps what they     *)
(* wrote: it replaces only the passages it names, and these stood nowhere else *)
(* either in the text its author read or in the text it changes.  An edit of   *)
(* the whole text is only taken from an author who read the last revision.     *)
NoLostEdit ==
    \A e \in Editors :
        LET edit == draft[e].edit
            written == draft[e] # NoDraft /\ draft'[e] = NoDraft /\ revisions' # revisions
        IN  /\ (written /\ draft[e].base # post.revision) =>
                  /\ edit.kind \in {"exact", "unified"}
                  /\ \A i \in DOMAIN Passages(edit) :
                        StandsOnce(revisions[draft[e].base], Passages(edit)[i].old)
                  /\ OnlyPartsReplaced(Current, Current', edit)
            /\ (written /\ edit.kind = "exact") => OnlyPartsReplaced(Current, Current', edit)

(* No revision is changed or removed by a later one.                           *)
HistoryKept == IsPrefix(revisions, revisions') /\ post'.generation >= post.generation

(* Nobody's edit is lost, in the text or in its history.                       *)
DocumentsSound == [][DocumentsTyped' /\ NoLostEdit /\ HistoryKept]_documents_vars
=============================================================================
