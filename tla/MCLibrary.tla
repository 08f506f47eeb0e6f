----------------------------- MODULE MCLibrary -----------------------------
(***************************************************************************)
(* Parts of the program that do not touch each other, checked one by one   *)
(* in one run: decimal numbers and their text, the calendar and the text   *)
(* of dates, the hash table, the log of a listener with the sessions it    *)
(* forks, text strings from the server to the client, and recordsets.      *)
(* part says which; the variables of the others stay as they are.          *)
(***************************************************************************)
EXTENDS MCDecimal, MCDates, MCRecordset, StropDecimal, Htable, Logger, TextString

MCHashes == [Keys -> 0 .. 3]

VARIABLE part
decimalParts == <<decimalVars, stropDecimalVars>>
dateParts == <<calendarVars, stropDateVars>>
stringParts == <<textVars, recordsetVars>>
otherParts == <<htableVars, logVars>>
allLibrary == <<part, decimalParts, dateParts, stringParts, otherParts>>

(* Only the part that is checked has more than one initial state.          *)
LibraryInit ==
  /\ part \in {"decimal", "number", "calendar", "date", "htable", "log", "text", "recordset"}
  /\ DecimalInit /\ StropDecimalInit /\ CalendarInit /\ StropDateInit
  /\ HtableInit /\ LoggerInit /\ TextInit /\ RecordsetInit
  /\ part # "recordset" => sent = NoRecordset /\ items = <<>> /\ aligned

LibraryNext ==
  /\ UNCHANGED part
  /\ \/ /\ part = "decimal" /\ DecimalNext
        /\ UNCHANGED <<stropDecimalVars, dateParts, stringParts, otherParts>>
     \/ /\ part = "number" /\ StropDecimalNext
        /\ UNCHANGED <<decimalVars, dateParts, stringParts, otherParts>>
     \/ /\ part = "calendar" /\ CalendarNext
        /\ UNCHANGED <<stropDateVars, decimalParts, stringParts, otherParts>>
     \/ /\ part = "date" /\ StropDateNext
        /\ UNCHANGED <<calendarVars, decimalParts, stringParts, otherParts>>
     \/ /\ part = "htable" /\ HtableNext
        /\ UNCHANGED <<logVars, decimalParts, dateParts, stringParts>>
     \/ /\ part = "log" /\ LoggerNext
        /\ UNCHANGED <<htableVars, decimalParts, dateParts, stringParts>>
     \/ /\ part = "text" /\ TextNext
        /\ UNCHANGED <<recordsetVars, decimalParts, dateParts, otherParts>>
     \/ /\ part = "recordset" /\ RecordsetNext
        /\ UNCHANGED <<textVars, decimalParts, dateParts, otherParts>>

LibrarySpec == LibraryInit /\ [][LibraryNext]_allLibrary
=============================================================================
