----------------------------- MODULE MCSessionEnv -----------------------------
(* Files an operator may have written, one for each thing a file can get     *)
(* right or wrong, and an account that is renamed, moved or left homeless.   *)
EXTENDS SessionEnv, TLC

MCFiles ==
  { "vt" :> 7,
    "vt" :> 0,
    "vt" :> 7 @@ "greeter" :> TRUE @@ "greeter_user" :> TRUE,
    "session_path" :> <<Entry("bin", {}), Entry("own", {"home"})>>
      @@ "session_data_dirs" :> <<Entry("own", {"user", "home"})>>,
    "session_data_dirs" :> <<>> @@ "facts" :> TypedVars @@ "session_env" :> {"HINT"},
    "session_env" :> {"HINT"} @@ "nul" :> TRUE,
    "session_env" :> {"HINT", "HOME"} @@ "vt" :> 7,
    "session_env" :> {"DBUS_SESSION_BUS_ADDRESS"},
    "session_env" :> {"XDG_DATA_DIRS", "XDG_SESSION_TYPE"} @@ "facts" :> TypedVars,
    "session_env" :> {"HINT", "a=b"},
    "sesion_path" :> <<>> }

MCAccounts ==
  { [name |-> "luis", home |-> "/home/luis"], [name |-> "lu", home |-> "/home/luis"],
    [name |-> "luis", home |-> "/srv/luis"], [name |-> "luis", home |-> "none"] }
===============================================================================
