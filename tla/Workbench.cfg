SPECIFICATION Spec
CONSTANTS
  tab1 = tab1
  tab2 = tab2
  tab3 = tab3
  NoTab = NoTab
  Tabs <- MCTabs
  Prompting <- MCPrompting
  Attempts <- MCAttempts
INVARIANTS LayoutSane AttemptsAreCurrent PromptsAreAnswerable
CHECK_DEADLOCK FALSE
PROPERTIES TabsSettle
