----------------------------- MODULE ToolAccess -----------------------------
(***************************************************************************)
(* The resource accesses a tool call declares, and when two calls conflict *)
(* (packages/agent-core/src/loop/tool-access.ts).                          *)
(*                                                                         *)
(* A path is the sequence of its segments: joining with separators,        *)
(* collapsing runs of them and stripping a trailing one leaves the same    *)
(* segments, so what is left of normalizePath is the case folding of each  *)
(* segment.  The root is the empty sequence.                               *)
(***************************************************************************)
EXTENDS Sequences, Naturals

CONSTANTS
    Segment,   \* the path segments, as spelled by the model
    Fold       \* String.prototype.toLowerCase on one segment

ASSUME FoldAssumption ==
    /\ Fold \in [Segment -> Segment]
    /\ \A s \in Segment : Fold[Fold[s]] = Fold[s]

Path == Seq(Segment)

Operation == {"read", "search", "write", "readwrite"}

\* ToolFileAccess and ToolResourceAccess.  A call that reaches everything is
\* kept in the same record shape, its file fields unused.
FileAccess == [kind : {"file"}, operation : Operation, path : Path,
               recursive : BOOLEAN]
AllAccess == [kind |-> "all", operation |-> "readwrite", path |-> << >>,
              recursive |-> TRUE]
ResourceAccess == FileAccess \cup {AllAccess}

\* ToolAccesses: the list of accesses one call declares.  Only its elements
\* matter to the code (`some`), never their order.
ToolAccesses == SUBSET ResourceAccess

None == {}
All  == {AllAccess}
File(op, path, rec) ==
    {[kind |-> "file", operation |-> op, path |-> path, recursive |-> rec]}
ReadFile(path)      == File("read", path, FALSE)
WriteFile(path)     == File("write", path, FALSE)
ReadWriteFile(path) == File("readwrite", path, FALSE)
SearchTree(path)    == File("search", path, TRUE)

NormalizePath(path) == [i \in 1..Len(path) |-> Fold[path[i]]]

FileOperationWrites(op) == op \in {"write", "readwrite"}

FileOperationsConflict(l, r) == FileOperationWrites(l) \/ FileOperationWrites(r)

\* `path.startsWith(prefix + "/")` on normalized paths: a proper ancestor.
ProperPrefix(prefix, path) ==
    /\ Len(prefix) < Len(path)
    /\ \A i \in 1..Len(prefix) : prefix[i] = path[i]

FileAccessesOverlap(l, r) ==
    LET lp == NormalizePath(l.path)
        rp == NormalizePath(r.path)
    IN  \/ lp = rp
        \/ (l.recursive /\ ProperPrefix(lp, rp))
        \/ r.recursive /\ ProperPrefix(rp, lp)

ResourceAccessesConflict(l, r) ==
    \/ l.kind = "all"
    \/ r.kind = "all"
    \/ /\ FileOperationsConflict(l.operation, r.operation)
       /\ FileAccessesOverlap(l, r)

Conflict(left, right) ==
    \E l \in left, r \in right : ResourceAccessesConflict(l, r)

-----------------------------------------------------------------------------
(***************************************************************************)
(* What the declarations stand for: the files a call may touch, and among  *)
(* them the ones it may change.                                            *)
(***************************************************************************)
Touches(a, file) ==
    \/ a.kind = "all"
    \/ NormalizePath(a.path) = file
    \/ a.recursive /\ ProperPrefix(NormalizePath(a.path), file)

Reach(accesses, files) == {f \in files : \E a \in accesses : Touches(a, f)}

Changes(accesses, files) ==
    {f \in files : \E a \in accesses :
                        FileOperationWrites(a.operation) /\ Touches(a, f)}

\* Two calls interfere when one may change a file the other may touch.
Interfere(left, right, files) ==
    \/ Changes(left, files) \cap Reach(right, files) # {}
    \/ Reach(left, files) \cap Changes(right, files) # {}
=============================================================================
