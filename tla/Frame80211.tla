----------------------------- MODULE Frame80211 -----------------------------
(***************************************************************************)
(* The two places that look at an 802.11 header: filter of main.c, which   *)
(* decides what is sent at all, and parse80211 of 80211_parse.c, which     *)
(* names what the server has received.  A frame is its first two bytes and *)
(* its length; an address is the offset it is read at.                     *)
(***************************************************************************)
EXTENDS Integers, Sequences

Bytes == 0..255
Types == <<"Management", "Control", "Data", "Reserved">>

R == "Reserved"

(* indexed by the four subtype bits, plus one                              *)
Subtypes ==
  [Management |->
     <<"Association request", "Association response", "Reassociation request",
       "Reassociation response", "Probe request", "Probe response",
       "Timing Advertisement", R, "Beacon", "ATIM", "Disassociation",
       "Authentication", "Deauthentication", "Action", "Action No Ack", R>>,
   Control |->
     <<R, R, R, R, R, R, R, "Control Wrapper", "Block Ack Request",
       "Block Ack", "PS-Poll", "RTS", "CTS", "ACK", "CF-End",
       "CF-End+CF-Ack">>,
   Data |->
     <<"Data", "Data+CF-Ack", "Data+CF-Poll", "Data+CF-Ack+CF-Poll",
       "Null (no data)", "CF-Ack(no data)", "CF-Poll(no data)",
       "CF-Ack+CF-Poll(no data)", "QoS Data", "QoS Data+CF-Ack",
       "QoS Data+CF-Poll", "QoS Data+CF-Ack + CF-Poll", "QoS Null(no data)",
       R, "QoS CF-Poll(no data)", "QoS CF-Ack+CF-Poll(no data)">>,
   Reserved |-> [i \in 1..16 |-> R]]

ToFrom == <<"Sta To Sta", "Sta To Ap", "Ap To Sta", "Ap To Ap">>

TypeBits(byte) == (byte \div 4) % 4
SubtypeBits(byte) == byte \div 16

-----------------------------------------------------------------------------
(* Faulty variants: each is the definition it is named after with one      *)
(* plausible slip in the C; a property must fail when it takes its place.  *)

(* filter compares the whole byte, protocol version included               *)
filterUnmasked(byte) == byte \in {64, 72}

-----------------------------------------------------------------------------
(* main.c: 0x40 and 0x48 without the two version bits                      *)
filter(byte) == byte - (byte % 4) \in {64, 72}

(* the offset of address k, and whether parse80211 gets that far           *)
AddressAt(k) == 4 + 6 * (k - 1)
Reached(k, len) == 0 < len /\ \A j \in 1..k : AddressAt(j) < len

(* A frame of length 0 is cleaned and then named like one that begins with *)
(* two zero bytes.  Address 0 stands for the zeros of std_80211_clean.     *)
parse80211(fc0, fc1, len) ==
  LET byte0 == IF len > 0 THEN fc0 ELSE 0
      byte1 == IF len > 0 THEN fc1 ELSE 0
      type == Types[TypeBits(byte0) + 1]
      subtype == Subtypes[type][SubtypeBits(byte0) + 1]
  IN [type |-> type, subtype |-> subtype,
      isReserved |-> subtype = R,
      tofrom |-> ToFrom[(byte1 % 4) + 1],
      type_int |-> byte0 - (byte0 % 4),
      mac_addr |-> [k \in 1..3 |-> IF Reached(k, len) THEN AddressAt(k) ELSE 0]]

=============================================================================
