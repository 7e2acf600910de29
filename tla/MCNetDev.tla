------------------------------ MODULE MCNetDev ------------------------------
EXTENDS NetDev

MCTxFrames ==
  {[id |-> i, to |-> "peer", body |-> b] : i \in 1..4, b \in {0, PAGESIZE}}
    \ {[id |-> i, to |-> "peer", body |-> PAGESIZE] : i \in {1, 3, 4}}

\* NetDev.cfg: what GENET can send (HeaderOnly)
MCGenetTx == {f \in MCTxFrames : f.body = 0}

\* a virtio device drops damaged frames itself: it has one frame to deliver
MCRxFrames ==
  {[id |-> 1, to |-> "us", body |-> PAGESIZE], [id |-> 3, to |-> "other", body |-> 0],
   [id |-> 2, to |-> "bad", body |-> 0], [id |-> 4, to |-> "us", body |-> 0]}

Both == {"10H", "10F", "100H", "100F"}
MCPhys ==
  {[answers |-> {0}, link |-> TRUE, lpagb |-> {"1000F"}, ctrl1000 |-> {"1000F", "1000H"},
    lpa |-> Both \cup {"PAUSE"}, adv |-> Both],
   [answers |-> {1}, link |-> FALSE, lpagb |-> {}, ctrl1000 |-> {}, lpa |-> {}, adv |-> {}],
   [answers |-> {0, 1}, link |-> TRUE, lpagb |-> {"MSFAIL"}, ctrl1000 |-> {},
    lpa |-> {}, adv |-> {}],
   [answers |-> {}, link |-> TRUE, lpagb |-> {}, ctrl1000 |-> {}, lpa |-> {}, adv |-> {}]}
=============================================================================
