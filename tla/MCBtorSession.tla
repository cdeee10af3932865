--------------------------- MODULE MCBtorSession ---------------------------
(* Two Boolean variables a and b, their conjunction and all negations.      *)
EXTENDS BtorSession

MCReal == {"t", "a", "b", "ab"}
MCNeg == [e \in {"t", "a", "b", "ab", "-t", "-a", "-b", "-ab"} |->
            CASE e = "t" -> "-t" [] e = "-t" -> "t"
              [] e = "a" -> "-a" [] e = "-a" -> "a"
              [] e = "b" -> "-b" [] e = "-b" -> "b"
              [] e = "ab" -> "-ab" [] e = "-ab" -> "ab"]
MCExp == DOMAIN MCNeg
MCWorld == {"00", "01", "10", "11"}
MCDen == [e \in MCExp |->
            CASE e = "t" -> MCWorld [] e = "-t" -> {}
              [] e = "a" -> {"10", "11"} [] e = "-a" -> {"00", "01"}
              [] e = "b" -> {"01", "11"} [] e = "-b" -> {"00", "10"}
              [] e = "ab" -> {"11"} [] e = "-ab" -> {"00", "01", "10"}]
MCLeaf == [e \in MCExp |-> IF e = "ab" THEN {"a", "b"} ELSE {e}]
=============================================================================
