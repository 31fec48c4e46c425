----------------------------- MODULE MCOutreach -----------------------------
(***************************************************************************)
(* Small instances of Outreach for TLC: a citizen, an official, two        *)
(* districts, one alert and its correction.                                *)
(***************************************************************************)
EXTENDS Outreach

CONSTANTS ama, kofi

\* The two chats; the official kofi is in the WhatsApp settings.
Chats == <<"whatsapp", "telegram">>
WhatsAppOnly == <<"whatsapp">>

Named ==
  [whatsapp |-> {kofi}, telegram |-> {}, sms |-> {kofi}, email |-> {}]
Settings == [ch \in Channel |-> Named[ch] \cap Recipient]

TwoTries == [whatsapp |-> 2, telegram |-> 1, sms |-> 2, email |-> 2]
OneTry == [whatsapp |-> 1, telegram |-> 1, sms |-> 1, email |-> 1]
=============================================================================
