------------------------------ MODULE UriPath -------------------------------
(***************************************************************************)
(* The path helpers of Uri::Impl (src/src/Uri.cpp): IsPathAbsolute,       *)
(* CanNavigatePathUpOneLevel and NormalizePath, the code's version of the *)
(* remove_dot_segments routine of RFC 3986.  A path is the sequence of    *)
(* its segments; a leading empty segment marks an absolute path.         *)
(***************************************************************************)
EXTENDS UriChars, SequencesExt

DotSegment    == <<DOT>>          \* "."
DotDotSegment == <<DOT, DOT>>     \* ".."

IsPathAbsolute(path) == path # <<>> /\ path[1] = <<>>

CanNavigatePathUpOneLevel(path) == ~IsPathAbsolute(path) \/ Len(path) > 1

\* One iteration of "for (const auto segment: oldPath)".
NormalizeStep(s, segment) ==
    CASE segment = DotSegment -> [s EXCEPT !.atDirectoryLevel = TRUE]
      [] segment = DotDotSegment ->
             [path |-> IF s.path # <<>> /\ CanNavigatePathUpOneLevel(s.path)
                       THEN Front(s.path) ELSE s.path,
              atDirectoryLevel |-> TRUE]
      [] OTHER ->
             [path |-> IF ~s.atDirectoryLevel \/ segment # <<>>
                       THEN Append(s.path, segment) ELSE s.path,
              atDirectoryLevel |-> segment = <<>>]

\* Mutation: the trailing empty segment added whenever atDirectoryLevel.
NormalizePathUnguardedTrailer(oldPath) ==
    LET s == FoldLeft(NormalizeStep, [path |-> <<>>, atDirectoryLevel |-> FALSE], oldPath)
    IN  IF s.atDirectoryLevel THEN Append(s.path, <<>>) ELSE s.path

\* The loop, then the trailing empty segment that marks a directory.
NormalizePath(oldPath) ==
    LET s == FoldLeft(NormalizeStep, [path |-> <<>>, atDirectoryLevel |-> FALSE], oldPath)
    IN  IF s.atDirectoryLevel /\ s.path # <<>> /\ Last(s.path) # <<>>
        THEN Append(s.path, <<>>) ELSE s.path

=============================================================================
