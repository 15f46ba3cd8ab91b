--------------------------- MODULE MCNotifySystem ---------------------------
(* Both programs; and one of them at a time, the device, or a notifier whose *)
(* device the server does not know.                                          *)
EXTENDS NotifySystem

Scene(started, registered) == [started |-> started, registered |-> registered]

Together == {Scene({"dev", "ntf"}, {"dev", "ntf"})}
Alone    == {Scene({"dev"}, {"dev", "ntf"}), Scene({"ntf"}, {"ntf"})}
=============================================================================
