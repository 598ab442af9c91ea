----------------------------- MODULE MCConsole -----------------------------
(***************************************************************************)
(* Console with a screen of two rows of three cells of two by two pixels.  *)
(***************************************************************************)
EXTENDS Console

Codes ==
    "a" :> <<30>> @@ "1" :> <<2>> @@ "c" :> <<46>> @@ "d" :> <<32>> @@ "bs" :> <<14>> @@
    "tab" :> <<15>> @@ "nl" :> <<28>> @@ "lshift" :> <<42>> @@ "rshift" :> <<54>> @@
    "caps" :> <<58>> @@ "lctrl" :> <<29>> @@ "rctrl" :> <<224, 29>> @@ "printscreen" :> <<224, 42>> @@
    "mute" :> <<224, 32>>

Typing == {"a", "1", "bs", "nl"}
Shifting == {"a", "1", "lshift", "rshift", "caps"}
Controls == {"c", "d", "lctrl", "rctrl", "printscreen"}
WithTab == {{"a", "tab", "bs"}}
WithMute == {{"c", "lctrl", "mute"}}
WithCaps == {{"a", "caps"}}
Keyboards == {Typing, Shifting, Controls}
Held == {"lshift", "rshift", "caps", "lctrl", "rctrl"}
Nothing == {}
CapsLock == {"caps"}

\* Distinct characters ink distinct pixels.
Glyphs == " " :> {} @@ "a" :> {<<0, 0>>} @@ "1" :> {<<1, 0>>} @@ "A" :> {<<0, 1>>} @@ "!" :> {<<1, 1>>} @@
          "c" :> {<<0, 0>>, <<1, 0>>} @@ "d" :> {<<0, 1>>, <<1, 1>>} @@ "C" :> {<<0, 0>>, <<0, 1>>} @@
          "D" :> {<<1, 0>>, <<1, 1>>} @@ ">" :> {<<0, 0>>, <<1, 1>>}

Prompt == <<"ESC", "f", "cyan", ";", ">", "ESC", "r", ";">>
CommandOutputs == {<<>>, <<"a", "1">>, <<"FF">>, <<"ESC", "b", "red", ";", "1">>}
=============================================================================
