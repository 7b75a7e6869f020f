-------------------------------- MODULE TaskBody --------------------------------
(***************************************************************************)
(* The body of a task file as pkg/result edits it: a text that is split at *)
(* its "## " heading lines, put together again by plain concatenation, and *)
(* searched for an escalation heading on a line of its own.                *)
(*                                                                         *)
(* A body is a preamble and then the sections in their order; a place that *)
(* holds no section any more is a gap.  What decides whether a heading is  *)
(* one is kept: how its line ends, what stands before it, and whether the  *)
(* last line of the body is terminated.  The words between the headings    *)
(* are left out, and the last line of a body is never a bare heading.      *)
(***************************************************************************)
EXTENDS Integers, Sequences

Section == {"trigger_cap", "retry_cap"}   \* the two escalation headings
Heading == Section \cup {"result"}        \* and any other heading

\* How a heading's line ends is asked of the escalation headings only.
Gap  == [name |-> "gap", eol |-> "lf"]
Part == [name : Heading \cup {"gap"}, eol : {"lf", "crlf"}]

\* pre: the text before the first heading is empty, only white space, or has
\* words.  tail: the last line of the body ends with a newline, or is open.
Body == [pre : {"none", "blank", "text"}, parts : Seq(Part), tail : {"closed", "open"}]

Filled(b)   == {k \in 1 .. Len(b.parts) : b.parts[k].name # "gap"}
Names(b)    == {b.parts[k].name : k \in Filled(b)}
Named(b, h) == {k \in Filled(b) : b.parts[k].name = h}

\* The text of b at place k (0 is the preamble) ends inside a line.
OpenAt(b, k) == b.tail = "open" /\ k \in Filled(b) \cup {0} /\ \A j \in Filled(b) : j <= k

\* containsEscalationSection: a newline, the heading, a newline.  The newline
\* before the heading is missing at the very start of the body, the one after
\* it when the line ends with CRLF.
Contains(b, h) ==
    \E k \in Named(b, h) :
        /\ b.parts[k].eol = "lf"
        /\ b.pre # "none" \/ \E j \in Filled(b) : j < k

\* body + "\n## ...\n": starts a line of its own whatever the body ends with.
AppendSection(b, h) ==
    [pre   |-> IF b.pre = "none" /\ Filled(b) = {} THEN "blank" ELSE b.pre,
     parts |-> Append(b.parts, [name |-> h, eol |-> "lf"]),
     tail  |-> "closed"]

-----------------------------------------------------------------------------
(* mergeBody: e is the body on disk, i the incoming one. *)

\* incomingByName keeps the last section of a name.
LastNamed(b, h) == CHOOSE k \in Named(b, h) : \A j \in Named(b, h) : j <= k

\* The incoming sections of a name the disk does not have, in the order of
\* their first occurrence.
Added(e, i) ==
    {k \in Filled(i) : /\ i.parts[k].name \notin Names(e)
                     /\ \A j \in Named(i, i.parts[k].name) : k <= j}

\* Where text is written: the places of the disk, then those of the additions.
Places(e, i) == Filled(e) \cup {Len(e.parts) + k : k \in Added(e, i)}

NameAt(e, i, k) ==
    IF k <= Len(e.parts) THEN e.parts[k].name ELSE i.parts[k - Len(e.parts)].name

\* The incoming text goes to place k: a preamble with words, or a section
\* whose name the incoming body has, in place or appended.
FromIncoming(e, i, k) ==
    IF k = 0 THEN i.pre = "text" ELSE NameAt(e, i, k) \in Names(i)

PartAt(e, i, k) ==
    IF FromIncoming(e, i, k) THEN i.parts[LastNamed(i, NameAt(e, i, k))] ELSE e.parts[k]

\* The text written at place k ends inside a line.
LeftOpen(e, i, k) ==
    IF FromIncoming(e, i, k)
    THEN OpenAt(i, IF k = 0 THEN 0 ELSE LastNamed(i, NameAt(e, i, k)))
    ELSE OpenAt(e, k)

\* What follows such a text continues its line: the heading is words now.
Glued(e, i, k) ==
    \E j \in Places(e, i) \cup {0} :
        /\ j < k /\ LeftOpen(e, i, j)
        /\ \A l \in Places(e, i) : ~(j < l /\ l < k)

MergedSize(e, i) ==
    IF Added(e, i) = {} THEN Len(e.parts) ELSE Len(e.parts) + Len(i.parts)

MergeBody(e, i) ==
    [pre   |-> IF FromIncoming(e, i, 0) THEN i.pre ELSE e.pre,
     parts |-> [k \in 1 .. MergedSize(e, i) |->
                   IF k \in Places(e, i) /\ ~Glued(e, i, k) THEN PartAt(e, i, k) ELSE Gap],
     tail  |-> IF \E k \in Places(e, i) \cup {0} :
                      LeftOpen(e, i, k) /\ \A l \in Places(e, i) : l <= k
               THEN "open" ELSE "closed"]

-----------------------------------------------------------------------------
(* Bodies for which the heading match is reliable. *)

\* Terminated, and no escalation heading ends with CRLF.
LineEnded(b) ==
    /\ b.tail = "closed"
    /\ \A k \in Filled(b) : b.parts[k].name \in Section => b.parts[k].eol = "lf"

\* The same body with CRLF line ends.
WithCRLF(b) ==
    [b EXCEPT !.parts = [k \in 1 .. Len(b.parts) |->
        IF b.parts[k].name \in Section
        THEN [name |-> b.parts[k].name, eol |-> "crlf"] ELSE b.parts[k]]]

=============================================================================
