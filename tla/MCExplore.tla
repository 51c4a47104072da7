----------------------------- MODULE MCExplore ------------------------------
(***************************************************************************)
(* Explore on a small tree: "/a" with a video that may also be a directory *)
(* of that name with a video of its own, and "/a-" with another one, whose *)
(* path sorts between "/a" and "/a/v".                                     *)
(***************************************************************************)
EXTENDS Explore

Hyphen == 1
MCSlash == 2
Letter == 3
V == 4

Path(names) == FoldLeft(LAMBDA p, name : p \o <<MCSlash>> \o name, <<>>, names)

A == <<Letter>>
ADash == <<Letter, Hyphen>>
Video == <<V>>

MCVideoNames == {Video}

MCNodes ==
  {<<MCSlash>>, Path(<<A>>), Path(<<A, Video>>), Path(<<A, Video, Video>>),
   Path(<<ADash>>), Path(<<ADash, Video>>)}

MCFileSystems ==
  {   <<MCSlash>> :> "dir"
   @@ Path(<<ADash>>) :> "dir" @@ Path(<<ADash, Video>>) :> "file"
   @@ Path(<<A>>) :> a
   @@ Path(<<A, Video>>) :> video[1] @@ Path(<<A, Video, Video>>) :> video[2] :
      a \in DirKinds,
      video \in {<<"file", "none">>, <<"empty", "none">>, <<"other", "none">>,
                 <<"dir", "none">>, <<"dir", "file">>, <<"closed", "file">>}}

MCInputs == {<<MCSlash>>, Path(<<A>>), Path(<<ADash>>), Path(<<A, Video>>)}
=============================================================================
