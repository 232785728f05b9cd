----------------------------- MODULE MCKvServer -----------------------------
(* A small instance of KvServer.tla for TLC.                               *)
EXTENDS KvServer

\* One client sends a whole request or half of one, the other a line that is too
\* long or nothing.
HalvesSent == [f \in Fds |-> IF f = 3 THEN 2 ELSE 1]
=============================================================================
