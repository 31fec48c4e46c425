------------------------ MODULE MCCommunityReports --------------------------
(***************************************************************************)
(* Small instances of CommunityReports for TLC: a Telegram and a WhatsApp  *)
(* chat; a text that names Ho and a community of Tema, and a shared        *)
(* location without a word.                                                *)
(***************************************************************************)
EXTENDS CommunityReports, TLC

CONSTANTS tg, wa, both, pin

Chats == [m \in Message |-> IF m = tg THEN "telegram" ELSE "whatsapp"]
Terms == {"tema community 1", "ho"}
Contents == [x \in Text |-> IF x = both THEN Terms ELSE {}]
Longest == ("tema community 1" :> 1) @@ ("ho" :> 2)
Lookup == ("tema community 1" :> "Tema") @@ ("ho" :> "Ho")
=============================================================================
