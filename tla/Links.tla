------------------------------- MODULE Links --------------------------------
(***************************************************************************)
(* Lists of nodes that are linked by a word in each of them, as walks find *)
(* them: channels (FChannel::Next), events (FEventNode::Next) and free     *)
(* blocks (FWriteBuffer::NextBuffer).                                      *)
(***************************************************************************)

\* The sets of nodes that hold p, unless it is no node, and that links do not leave.  What
\* is not a node, as the null pointer, ends a walk.
Closed(links, p) ==
  {S \in SUBSET DOMAIN links :
     /\ p \in DOMAIN links => p \in S
     /\ \A n \in S : links[n] \in DOMAIN links => links[n] \in S}

\* The nodes that a walk along the links from p meets: the least of those sets.
Reach(links, p) ==
  LET closed == Closed(links, p) IN {n \in DOMAIN links : \A S \in closed : n \in S}
=============================================================================
