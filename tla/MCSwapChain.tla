---- MODULE MCSwapChain ----
(* The instance of SwapChain that TLC checks; see the cfg files.           *)
EXTENDS SwapChain
====
