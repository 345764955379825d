-------------------------- MODULE MCToolCallBatch --------------------------
EXTENDS ToolCallBatch

MCSegment == {"doc", "Doc", "lib"}
MCFold == [s \in MCSegment |-> IF s = "Doc" THEN "doc" ELSE s]

\* A search waits behind a write but not beside a read: named after both, it must not
\* overtake a write that waits for the read.
MCKey == {"read", "write", "grep"}
MCAccessOf == [read |-> ReadFile(<<"lib", "doc">>), write |-> WriteFile(<<"lib", "Doc">>),
               grep |-> SearchTree(<<"lib">>)]
\* read and grep conflict with the same calls: of two responses that differ in the two
\* being exchanged, the one that names read first is run.
ReadFirst == \A i \in DOMAIN calls : calls[i] = "grep" => \E j \in 1..i : calls[j] = "read"

MCAccess == {None} \cup {MCAccessOf[k] : k \in MCKey}

\* The built-in tools' declarations: a tool that declares nothing or Bash (All), a web
\* fetch (None), Read, Write, Edit on two spellings of one file, and a Grep of the tree
\* above it.
Declarations ==
    {All, None, ReadFile(<<"lib", "doc">>), WriteFile(<<"lib", "Doc">>),
     ReadWriteFile(<<"doc">>), SearchTree(<<"lib">>)}

\* One level below the longest declared path tells a tree from a file.
Files == {NormalizePath(p) : p \in UNION {[1..n -> {"doc", "lib"}] : n \in 0..3}}

\* Two declarations conflict exactly when one call may change a file the other may
\* touch (ToolAccesses.conflict); ToolCallBatch_proofs proves it of all.
ASSUME ConflictIsInterference ==
    \A a, b \in Declarations : Conflict(a, b) <=> Interfere(a, b, Files)
=============================================================================
