-------------------------- MODULE DocumentCatalog --------------------------
(***************************************************************************)
(* What the document store promises of the documents of one workspace,      *)
(* whatever its workers, its API and its sync do side by side: a name holds *)
(* one document, a document is held under one name, new contents get the    *)
(* version after that of the document they replace, and the history keeps   *)
(* what it once recorded (the tables documents and document_versions).      *)
(***************************************************************************)
EXTENDS Naturals

CONSTANTS
    Files,      \* file names of the workspace
    Contents,   \* file contents; the document id is computed from them
    None        \* "no row"

VARIABLES
    held,      \* held[f]: the document f holds and its version, or None
    history,   \* history[f]: version -> document, as far as recorded
    lost       \* names that lost a document otherwise than to their next one

vars == <<held, history, lost>>

Init ==
    /\ held = [f \in Files |-> None]
    /\ history = [f \in Files |-> <<>>]
    /\ lost = {}

\* f lost no document and returned to none it had.
Straight(f) ==
    f \notin lost /\ \A v, w \in DOMAIN history[f] : history[f][v] = history[f][w] => v = w

Following(f) == {v + 1 : v \in DOMAIN history[f]}

\* The versions new contents of f may get: the one after that of the document
\* they replace. That document is known by its id, so that after a loss or a
\* return to earlier contents it may be one that f held before.
NextVersions(f) ==
    IF held[f] = None THEN {1} \union Following(f)
    ELSE IF Straight(f) THEN {held[f].version + 1} ELSE Following(f)

Recorded(h, version, doc) ==
    [v \in DOMAIN h \union {version} |-> IF v \in DOMAIN h THEN h[v] ELSE doc]

\* f gets new contents. Another name that came by the document f had loses it.
Store(f, doc) ==
    /\ held[f] # None => held[f].doc # doc
    /\ \E version \in NextVersions(f), losers \in SUBSET (Files \ {f}) :
        /\ \A g \in Files \ (losers \union {f}) : held[g] # None => held[g].doc # doc
        /\ \A g, h \in losers : g = h /\ held[g] # None
        /\ losers # {} => held[f] = None
        /\ held' = [g \in Files |-> IF g = f THEN [doc |-> doc, version |-> version]
                                    ELSE IF g \in losers THEN None ELSE held[g]]
        /\ lost' = lost \union losers
        /\ history' = [history EXCEPT ![f] = Recorded(@, version, doc)]

Remove(f) ==
    /\ held[f] # None
    /\ held' = [held EXCEPT ![f] = None]
    /\ lost' = lost \union {f}
    /\ UNCHANGED history

Next == \E f \in Files : Remove(f) \/ \E doc \in Contents : Store(f, doc)

Spec == Init /\ [][Next]_vars
=============================================================================
