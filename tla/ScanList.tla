------------------------------- MODULE ScanList -------------------------------
(***************************************************************************)
(* The list of networks that wifi_scan_task makes of the driver's records  *)
(* (voice_config_httpd.c): every name through json_string into an entry of *)
(* bounded size, the entry into a body of bounded size, in the order of    *)
(* the records.  A step is one record.                                     *)
(*                                                                         *)
(* A body is a sequence of bytes, told apart as far as JSON does: what     *)
(* stands before a name in its entry is one byte here, so is what stands   *)
(* behind it.  A buffer of n bytes has room for n - 1 and the zero.        *)
(***************************************************************************)
EXTENDS Naturals, Sequences, SequencesExt

CONSTANTS
  MaxName,   \* bytes of an SSID, 32
  MaxFound,  \* records of a scan, 24
  EntryCap,  \* sizeof entry
  BodyCap    \* sizeof s_scan_body

ListAssumption ==
  /\ MaxName \in Nat /\ MaxFound \in Nat
  /\ EntryCap >= 6 * MaxName + 8  \* 256 for 32 bytes, as ListIsWhole needs it
  /\ BodyCap >= 4

VARIABLES
  found,  \* the names in s_scan_records
  next,   \* i
  body    \* s_scan_body, and whether it is finished

listVars == <<found, next, body>>

Letters == {"letter", "quote", "backslash", "control"}
Names == SeqOf(Letters, MaxName)

Init ==
  /\ found \in SeqOf(Names, MaxFound)
  /\ next = 1
  /\ body = [text |-> <<"[">>, done |-> FALSE]

-----------------------------------------------------------------------------
(* json_string: [text, ok], each byte with room for its escape, the quote  *)
(* and the zero behind it.  A "backslash" stands for every byte with an    *)
(* escape of two, the ends of lines and tabs among them, and a "letter"    *)
(* for every byte that is taken as it is, also those from 128 on.          *)
Escaped(letter) ==
  CASE letter = "letter" -> <<"letter">>
    [] letter = "control" -> <<"backslash", "u", "0", "0", "x", "x">>
    [] OTHER -> <<"backslash", letter>>

json_string(text, cap, value) ==
  LET Put(s, letter) ==
        IF ~s.ok \/ Len(s.text) + Len(Escaped(letter)) + 2 >= cap THEN [s EXCEPT !.ok = FALSE]
        ELSE [s EXCEPT !.text = @ \o Escaped(letter)]
      s == FoldLeft(Put, [text |-> Append(text, "quote"), ok |-> Len(text) + 2 < cap], value)
  IN  [s EXCEPT !.text = Append(@, "quote")]

(* The entry of a record, <<>> when it does not fit.                       *)
Entry(name, first) ==
  LET s == json_string(IF first THEN <<"{">> ELSE <<",", "{">>, EntryCap, name)
  IN  IF s.ok /\ Len(s.text) + 1 < EntryCap THEN Append(s.text, "}") ELSE <<>>

Least(a, b) == IF a < b THEN a ELSE b
First == body.text = <<"[">>

(* Hidden networks and entries that do not fit are skipped; the first that *)
(* the body has no room for ends the list.                                 *)
Record ==
  /\ next <= Len(found)
  /\ LET entry == IF found[next] = <<>> THEN <<>> ELSE Entry(found[next], First)
     IN  IF entry # <<>> /\ Len(body.text) + Len(entry) + 3 >= BodyCap
           THEN next' = Len(found) + 1 /\ UNCHANGED body
           ELSE next' = next + 1 /\ body' = [body EXCEPT !.text = @ \o entry]
  /\ UNCHANGED found

Finished ==
  /\ next > Len(found) /\ ~body.done
  /\ LET whole == body.text \o <<"]", "}">>
     IN  body' = [text |-> SubSeq(whole, 1, Least(Len(whole), BodyCap - 1)), done |-> TRUE]
  /\ UNCHANGED <<found, next>>

Next == Record \/ Finished

Spec == Init /\ [][Next]_listVars

-----------------------------------------------------------------------------
TypeOK ==
  /\ found \in Seq(Names) /\ next \in 1 .. MaxFound + 1
  /\ body.text \in Seq(Letters \cup {"[", "]", "{", "}", ",", "u", "0", "x"}) /\ body.done \in BOOLEAN

(* What a browser reads out of the body: the names, with the state of its  *)
(* parser, which is "bad" for what is no list.                             *)
Read(s, byte) ==
  CASE s.at = "start" -> [s EXCEPT !.at = IF byte = "[" THEN "first" ELSE "bad"]
    [] s.at \in {"first", "entry"} /\ byte = "{" -> [s EXCEPT !.at = "open"]
    [] s.at \in {"first", "next"} /\ byte = "]" -> [s EXCEPT !.at = "closing"]
    [] s.at = "next" /\ byte = "," -> [s EXCEPT !.at = "entry"]
    [] s.at = "closing" /\ byte = "}" -> [s EXCEPT !.at = "end"]
    [] s.at = "open" /\ byte = "quote" -> [names |-> Append(s.names, <<>>), at |-> "name"]
    [] s.at = "named" /\ byte = "}" -> [s EXCEPT !.at = "next"]
    [] s.at = "name" /\ byte = "quote" -> [s EXCEPT !.at = "named"]
    [] s.at = "name" /\ byte = "backslash" -> [s EXCEPT !.at = "escape"]
    [] s.at = "name" /\ byte = "letter" -> [s EXCEPT !.names[Len(s.names)] = Append(@, "letter")]
    [] s.at = "escape" /\ byte \in {"quote", "backslash"} ->
         [names |-> [s.names EXCEPT ![Len(s.names)] = Append(@, byte)], at |-> "name"]
    [] s.at = "escape" /\ byte = "u" -> [s EXCEPT !.at = "u"]
    [] s.at = "u" /\ byte = "0" -> [s EXCEPT !.at = "u0"]
    [] s.at = "u0" /\ byte = "0" -> [s EXCEPT !.at = "u00"]
    [] s.at = "u00" /\ byte = "x" -> [s EXCEPT !.at = "u00x"]
    [] s.at = "u00x" /\ byte = "x" -> [names |-> [s.names EXCEPT ![Len(s.names)] = Append(@, "control")], at |-> "name"]
    [] OTHER -> [s EXCEPT !.at = "bad"]

Browser ==
  LET reading[n \in 0 .. Len(body.text)] ==
        IF n = 0 THEN [names |-> <<>>, at |-> "start"] ELSE Read(reading[n - 1], body.text[n])
  IN  reading[Len(body.text)]

(* Whatever bytes the networks have in their names, and however many there *)
(* are: the finished list is whole, it fits into its buffer, and a browser *)
(* reads the names out of it as they are, from the first on; a name is     *)
(* left out only when it is hidden or the body is full, not for its bytes. *)
Visible == SelectSeq(found, LAMBDA name : name # <<>>)
Size(name) == Len(FlattenSeq([i \in DOMAIN name |-> Escaped(name[i])])) + 5

ListIsWhole ==
  /\ Len(body.text) < BodyCap
  /\ body.done =>
       LET read == Browser
       IN  /\ read.at = "end" /\ IsPrefix(read.names, Visible)
           /\ read.names # Visible => Len(body.text) + Size(Visible[Len(read.names) + 1]) + 1 >= BodyCap

=============================================================================
