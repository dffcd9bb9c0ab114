SPECIFICATION AssemblySpec
CONSTANTS
  ast = ast  bot = bot
  e1 = e1  e2 = e2
  AgentIds = {ast, bot}
  Assistant = ast
  ToolChoices <- MCToolChoices
  AssemblyCalls = {e1, e2}
  MaxDefinitions = 2
INVARIANT OneActivePrompt
CHECK_DEADLOCK FALSE
