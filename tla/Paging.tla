------------------------------- MODULE Paging -------------------------------
(***************************************************************************)
(* What Channel::list_messages returns: the newest messages below a        *)
(* cursor, at most a page of them.  Every scan of the channel (the vault's *)
(* and the sync engine's) walks these pages with the last id as cursor.    *)
(***************************************************************************)
EXTENDS Naturals, FiniteSets

\* A variant with a bug: the page includes the cursor itself.
UpToCursor(ids, b) == {i \in ids : b = 0 \/ i <= b}

\* The messages older than the cursor; 0 is no cursor.
BelowCursor(ids, b) == {i \in ids : b = 0 \/ i < b}

PageOf(ids, b, size) ==
    {i \in BelowCursor(ids, b) :
       Cardinality({j \in BelowCursor(ids, b) : j > i}) < size}

\* The cursor after a page.
IsLast(i, page) == i \in page /\ \A j \in page : i <= j
=============================================================================
