\* Three tasks, of which two call the plugin manager, and four calls: a grant, two
\* derivations and a revocation; a plugin registered, started and removed by two
\* tasks; two components and a shutdown.
CONSTANTS
  Caller = {t1, t2, t3}
  Plugin = {p1}
  Given = {"Created", "Running"}
  Subject = {p1, p2}
  Object = {"file"}
  Right = {"read", "write"}
  CapId = {1, 2, 3}
  None = 0
  Absent = Absent
  Workflow = {w1}
  Unstarted = Unstarted
  MaxCalls = 4
  Uses = {{"capabilities", "plugins"}, {"workflows"}, {"shutdown"}}
  PluginCaller = {t1, t2}
SPECIFICATION Spec
INVARIANTS RightsComeFromGrants PluginsAgree SuccessMeansStopped
PROPERTIES CallsReturn CancelHolds
CHECK_DEADLOCK FALSE
