---------------------------- MODULE MCWebQueries ----------------------------
(* Two stacks, the queries of one of them and one of each kind of list.    *)
EXTENDS WebQueries

TwoNames == {"a", "b"}
WatchedQueries ==
  {getStacks, getStacksNameFiles("a"), getContainers, getImagesStale}
=============================================================================
