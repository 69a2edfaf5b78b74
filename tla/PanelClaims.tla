------------------------------ MODULE PanelClaims ------------------------------
(***************************************************************************)
(* What the repository says of the panel, stated over PanelRuntime, and is *)
(* refuted by the code.                                                    *)
(***************************************************************************)
EXTENDS MCPanelRuntime

(***************************************************************************)
(* README.md:61, "select any text on any wayland window It should pick up  *)
(* your word and fuzzy search instantly": a short selection made while the *)
(* panel runs is searched, or is the text already answered, unless the     *)
(* process ends.  The code cancels the reader and the lookup task when the *)
(* gesture server refuses the connection (main.rs:238), and shows nothing. *)
(***************************************************************************)
SelectionIsSearched ==
  \A w \in Words \ Stale :
    (ui = "running" /\ events = <<w>> /\ reader = "up")
      ~> (events = <<>> /\ recent # 0 /\ asked[recent] = w) \/ ~Alive
================================================================================
