CONSTANTS
  FOLDER_EDIT = FOLDER_EDIT
  EDIT_FOLDERS = EDIT_FOLDERS
  UNKNOWN = UNKNOWN
  Names <- SomeNames
  Canonical <- SomeCanonical
  Resources = {TASK, FOLDER_VIEW, FOLDER_EDIT, FIELD, PROJECT_FIELD}
  DefaultView = {TASK}
  Fields = {FIELD, PROJECT_FIELD}
  ProjectField = PROJECT_FIELD
  Task = TASK
  TaskResources = {FOLDER_VIEW, FOLDER_EDIT}
  ViewOnly = {FOLDER_VIEW}
  Scoped = {TASK}
  FlagSets <- SomeFlags
  Departments = {d1}
  MaxRows = 3
  None = None
SPECIFICATION Spec
INVARIANT PolicyIsAuthoritative
INVARIANT GuardAgreesWithMap
INVARIANT TaskRightsIncludeViewing
INVARIANT GrantsTakeEffect
INVARIANT HardcodedTasksNeedRows
INVARIANT FieldsAgree
