------------------------------ MODULE MCUsbLink ------------------------------
(* UsbLink with a queue of two packets, two queries and a command that has    *)
(* no answer.                                                                *)
EXTENDS UsbLink

MCCommands == {"QueryBist", "QueryTelemetry", "StopStream"}
==============================================================================
