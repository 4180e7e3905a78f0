----------------------------- MODULE MCSyncClaim ----------------------------
(***************************************************************************)
(* What a node says when it drops a gossiped block during a sync, checked  *)
(* with a history variable.                                                *)
(***************************************************************************)
EXTENDS MCChainSync

VARIABLE ignored   \* the blocks each node dropped during the running sync

ClaimInit == Init /\ ignored = [n \in Nodes |-> {}]

ClaimNext ==
    /\ Next
    /\ ignored' = [n \in Nodes |->
                     IF ~ is_syncing[n] THEN {}
                     ELSE ignored[n] \cup {msg \in gossip \ gossip' : msg.to = n}]

ClaimSpec == ClaimInit /\ [][ClaimNext]_<<vars, ignored>>

\* p2p.ts:258: "Ignoring block gossip during historical sync; the sync loop
\* will re-check the peer height."  So a sync that ends without a failure
\* leaves the node at the height of every block its peer published and it
\* dropped meanwhile.
IgnoredIsRechecked ==
    [][\A n \in Nodes :
         sync[n].pc = "closing" /\ sync'[n] = Idle =>
           \A msg \in ignored[n] :
               msg.from = sync[n].peer => Len(msg.block) <= HeightOf(chain[n])
      ]_<<vars, ignored>>

=============================================================================
