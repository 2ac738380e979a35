-------------------------- MODULE PurgeableMemory ---------------------------
(***************************************************************************)
(* What ashmem promises to the users of its areas, page by page: a pinned  *)
(* page keeps its content, an unpinned one may lose it at any time, and    *)
(* the call that pins it again says so.  An unpin of no page at the end of *)
(* an area taints the page before it: until that page is pinned, it may be *)
(* reported as unpinned, or as lost, when it is neither.                   *)
(***************************************************************************)
EXTENDS Integers

CONSTANTS Areas, Pages

VARIABLES
    unpinned,   \* the unpinned pages of each area
    tainted,    \* the pages that calls take for unpinned, pinned or not
    gone,       \* the unpinned pages whose content is lost
    failed,     \* areas in which a call ran out of memory
    answer      \* what the last call returned: lost content, an unpinned page

vars == <<unpinned, tainted, gone, failed, answer>>

Init ==
    /\ unpinned = [a \in Areas |-> {}] /\ tainted = [a \in Areas |-> {}]
    /\ gone = [a \in Areas |-> {}] /\ failed = {} /\ answer = FALSE

Intervals == {{}} \cup {s .. e : s, e \in Pages}

Suspect(a) == unpinned[a] \cup tainted[a]

\* Of the tainted pages of area a, those in pages no longer are, and perhaps others.
TaintEnds(a, pages) ==
    \E left \in SUBSET (tainted[a] \ pages) : tainted' = [tainted EXCEPT ![a] = left]

\* Content may be reported as lost because of the pages it was unpinned with.
Pin(a, pages) ==
    /\ unpinned' = [unpinned EXCEPT ![a] = @ \ pages] /\ TaintEnds(a, pages)
    /\ gone' = [gone EXCEPT ![a] = @ \ pages]
    /\ answer' \in BOOLEAN
    /\ pages \cap gone[a] # {} => answer'
    /\ answer' => pages = {} \/ pages \cap Suspect(a) # {}
    /\ UNCHANGED failed

Unpin(a, pages) ==
    /\ unpinned' = [unpinned EXCEPT ![a] = @ \cup pages] /\ TaintEnds(a, pages)
    /\ answer' = FALSE
    /\ UNCHANGED <<gone, failed>>

UnpinNothing(a, last) ==
    /\ tainted' = [tainted EXCEPT ![a] = @ \cup {last}] /\ answer' = FALSE
    /\ UNCHANGED <<unpinned, gone, failed>>

GetPinStatus(a, pages) ==
    /\ answer' \in BOOLEAN
    /\ pages # {} => answer' = (pages \cap Suspect(a) # {})
    /\ UNCHANGED <<unpinned, tainted, gone, failed>>

Purge ==
    /\ gone' \in [Areas -> SUBSET Pages]
    /\ \A a \in Areas : gone[a] \subseteq gone'[a] /\ gone'[a] \ gone[a] \subseteq unpinned[a]
    /\ answer' = FALSE
    /\ UNCHANGED <<unpinned, tainted, failed>>

Close(a) ==
    /\ unpinned' = [unpinned EXCEPT ![a] = {}] /\ tainted' = [tainted EXCEPT ![a] = {}]
    /\ gone' = [gone EXCEPT ![a] = {}] /\ failed' = failed \ {a} /\ answer' = FALSE

\* From a failure to its end an area promises nothing; the others are untouched.
Unreliable(a) ==
    /\ failed' = failed \cup {a}
    /\ \A b \in Areas \ {a} :
          unpinned'[b] = unpinned[b] /\ tainted'[b] = tainted[b] /\ gone'[b] = gone[b]

Next ==
    \/ \E a \in Areas : Close(a) \/ Unreliable(a)
    \/ \E a \in Areas, pages \in Intervals :
          Pin(a, pages) \/ Unpin(a, pages) \/ GetPinStatus(a, pages)
    \/ \E a \in Areas, last \in Pages : UnpinNothing(a, last)
    \/ Purge

Spec == Init /\ [][Next]_vars
=============================================================================
