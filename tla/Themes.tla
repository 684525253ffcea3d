------------------------------- MODULE Themes -------------------------------
(* The themes of the Settings window (src/src/ui/dialog_basic_settings.cpp) and what
   becomes of them (src/src/ui/ThemeManager.cpp). A stored theme is a name and the mode
   written behind it, <<name, mode>>; the window has a box for the theme and one for its
   mode: 0 as the system, 1 light, 2 dark. os says which system the program was built for. *)
EXTENDS Naturals

Systems == {"windows", "linux", "macos"}
Plain(name) == <<name, "">>

(* "Windows" stands for every style Qt itself brings. *)
AvailableThemes(os) == {"Fusion", "FusionArcDark", "QDarkStyle"} \cup (IF os = "macos" THEN {} ELSE {"System", "Windows"})
NormalizeBase(os, t) == IF os = "macos" /\ t[1] = "Windows" THEN "System" ELSE t[1]
NormalizeTheme(os, t) == IF os = "macos" /\ NormalizeBase(os, t) = "System" THEN "Fusion" ELSE NormalizeBase(os, t)

FollowsOsMode(os) == os \in {"windows", "macos"}
AlwaysDark == {"QDarkStyle", "FusionArcDark"}
ThemeModeIndex(os, t) ==
  LET n == NormalizeTheme(os, t)
  IN CASE t[2] = "Light" -> 1
       [] t[2] = "Dark" -> 2
       [] n = "System" \/ t[2] = "System" -> 0
       [] n = "FusionLight" -> 1
       [] n \in {"FusionDark"} \cup AlwaysDark -> 2
       [] OTHER -> 0
ThemeComboKey(os, t) == LET n == NormalizeTheme(os, t) IN IF n \in {"FusionLight", "FusionDark"} THEN "Fusion" ELSE n
Suffix(combo, mode) == <<combo, CASE mode = 1 -> "Light" [] mode = 2 -> "Dark" [] OTHER -> "System">>
ResolveThemeSelection(os, combo, mode) ==
  CASE combo = "Fusion" -> Plain(CASE mode = 1 -> "FusionLight" [] mode = 2 -> "FusionDark" [] OTHER -> "Fusion")
    [] combo = "System" -> IF FollowsOsMode(os) \/ mode = 0 THEN Plain("System") ELSE Suffix(combo, mode)
    [] combo \in AlwaysDark -> Plain(combo)
    [] OTHER -> Suffix(combo, mode)
(* The mode box of a theme that has only one. *)
Forced(os, combo) == IF FollowsOsMode(os) /\ combo \in {"System", "Windows"} THEN {0} ELSE IF combo \in AlwaysDark THEN {2} ELSE {}
RefreshThemeModeOptions(os, combo, mode) == IF Forced(os, combo) = {} THEN mode ELSE CHOOSE i \in Forced(os, combo) : TRUE

(* The colours of a theme: light, dark, or those of the system. *)
PaletteForMode(mode) == CASE mode = "Light" -> "light" [] mode = "Dark" -> "dark" [] OTHER -> "system"
ApplyTheme(os, t) ==
  LET n == NormalizeTheme(os, t)
  IN CASE n = "System" -> IF FollowsOsMode(os) THEN "system" ELSE PaletteForMode(t[2])
       [] n = "FusionLight" -> "light"
       [] n \in {"FusionDark"} \cup AlwaysDark -> "dark"
       [] OTHER -> PaletteForMode(t[2])
(* MainWindow::MainWindow stores the normalised name, and so drops the mode behind it. *)
AtStart(os, t) == Plain(NormalizeTheme(os, t))

(* The two boxes show what was picked, the colours are those of the mode, and both are the
   same after a restart - save a mode kept behind the name. *)
ThemeStays ==
  \A os \in Systems : \A combo \in AvailableThemes(os), picked \in 0..2 :
    LET mode == RefreshThemeModeOptions(os, combo, picked)
        t == ResolveThemeSelection(os, combo, mode)
        again == AtStart(os, t)
        Same(x) == ThemeComboKey(os, x) = combo /\ ThemeModeIndex(os, x) = mode
                   /\ ApplyTheme(os, x) = <<"system", "light", "dark">>[mode + 1]
    IN Same(t) /\ (t[2] \in {"Light", "Dark"} \/ Same(again))
=============================================================================
