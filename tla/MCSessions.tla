----------------------------- MODULE MCSessions -----------------------------
(* Three logins and two refreshes of one user, on a phone, on a laptop and *)
(* from a client that sends no device.  A session lives one tick after it  *)
(* was made or rotated, and the grace window is the tick it was last used. *)
EXTENDS Sessions

MCDevices == [c \in Calls |-> CASE c \in {"l1", "r1"} -> "phone"
                                []   c = "l2" -> "laptop"
                                []   OTHER -> NoDevice]
=============================================================================
